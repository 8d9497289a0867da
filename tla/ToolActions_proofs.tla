------------------------- MODULE ToolActions_proofs -------------------------
(***************************************************************************)
(* Proofs about ToolActions for every number of processes, calls,          *)
(* operators and retries: types, SuccessIsReal, and the action properties  *)
(* NoBlindRepeat, ApprovedAsShown, ResolutionOnce and AuditTrail. The      *)
(* argument: whoever reaches a tool leaves a row that has left "prepared", *)
(* and a row, however often and by whomever it is overwritten, never goes  *)
(* back to "absent" or "prepared".                                         *)
(*                                                                         *)
(* With one process at a time, no action is run twice, and no tool runs    *)
(* while an action is uncertain.                                           *)
(***************************************************************************)
EXTENDS ToolActions, TLAPS

Actors == Procs \cup Operators

InCall == {"preparing", "marking", "running", "replacing", "observing"}

\* What the place a process has reached says of its variables.
WellFormed(c) ==
  /\ c \in Local
  /\ c.pc \in InCall => c.next = "observing"
  /\ c.next = "observing" \/ c.pc \in {"completing", "storing", "resolving"} => c.key \in Keys
  /\ c.pc \in {"completing", "storing"} => c.status \in Settled /\ c.result \in Results
  /\ c.pc = "resolving" => c.status \in {"succeeded", "failed"}

TypeInv == TypeOK /\ \A a \in Actors : WellFormed(local[a])

LEMMA IdleWellFormed == WellFormed(Idle) /\ WellFormed(Ready)
BY DEF WellFormed, Idle, Ready, Local, InCall, Contents

\* A process that moves on keeps the types, if it is itself well formed.
LEMMA MoveTyped ==
  ASSUME TypeInv, NEW a \in Actors, NEW c, WellFormed(c), Goto(a, c),
         tool' = tool, action' \in [Keys -> Action], audit' \in [Keys -> Results \cup {None}],
         file' \in [Calls -> Contents],
         asked' \in [call : Calls \cup {None}, shown : Contents],
         ran' \in [Keys -> Nat]
  PROVE  TypeInv'
<1>1. local' \in [Actors -> Local]
  BY DEF TypeInv, TypeOK, Goto, WellFormed, Actors
<1>2. \A b \in Actors : WellFormed(local'[b])
  BY DEF TypeInv, TypeOK, Goto, Actors
<1>3. QED
  BY <1>1, <1>2 DEF TypeInv, TypeOK, Actors

LEMMA NotAskedTyped ==
  NotAsked \in [call : Calls \cup {None}, shown : Contents]
BY DEF NotAsked, Contents

LEMMA FirstKey == \A c \in Calls : <<c, 1>> \in Keys
BY RetriesAssumption, SMT DEF Keys

\* What recovery makes of an action is a status and a result.
LEMMA ClassifiedTyped ==
  ASSUME TypeInv, NEW k \in Keys, NEW seen
  PROVE  /\ Classified(k, seen)[1] \in Settled /\ Classified(k, seen)[2] \in Results
         /\ Classified(k, seen)[1] = "succeeded" => Kind(k) = "edit" /\ file[k[1]] = "new"
<1>1. k[1] \in Calls
  BY DEF Keys
<1>2. Kind(k) \in Kinds
  BY <1>1 DEF TypeInv, TypeOK, Kind
<1>3. QED
  BY <1>2 DEF Classified, Kinds, Settled, Results

LEMMA CompletingWellFormed ==
  ASSUME NEW c, WellFormed(c), c.key \in Keys, NEW s \in Settled, NEW r \in Results
  PROVE  WellFormed(Completing(c, <<s, r>>))
BY DEF WellFormed, Completing, Local, InCall, Contents

\* So is a process that has completed an action, whatever it was completed with.
LEMMA CompletedWellFormed ==
  ASSUME NEW c, WellFormed(c), c.key \in Keys, NEW r \in Results \cup {None}
  PROVE  /\ WellFormed(Completed(c, r))
         /\ Completed(c, r).next = c.next
         /\ Completed(c, r).pc = c.next
         /\ Completed(c, r).todo = c.todo
         /\ c.next = "observing" => /\ Completed(c, r).key = c.key
                                    /\ Completed(c, r).result = r
                                    /\ Completed(c, r).before = c.before
                                    /\ Completed(c, r).shown = c.shown
<1>1. c \in Local /\ c.next \in {"recovering", "observing"} /\ c.todo \in SUBSET (Keys \X Unfinished)
  BY DEF WellFormed, Local
<1>2. CASE c.next = "recovering"
  <2> DEFINE d == [Idle EXCEPT !.pc = "recovering", !.todo = c.todo]
  <2>1. Idle \in Local
    BY IdleWellFormed DEF WellFormed
  <2>2. d \in Local
    BY <1>1, <2>1 DEF Local
  <2>3. d.pc = "recovering" /\ d.next = "recovering" /\ d.todo = c.todo
    BY DEF Idle
  <2>4. Completed(c, r) = d
    BY <1>2 DEF Completed
  <2> HIDE DEF d
  <2>5. QED
    BY <1>2, <2>2, <2>3, <2>4 DEF WellFormed, InCall
<1>3. CASE c.next = "observing"
  <2> DEFINE d == [c EXCEPT !.pc = "observing", !.status = None, !.result = r]
  <2>1. d \in Local
    BY <1>1 DEF Local
  <2>2. /\ d.pc = "observing" /\ d.next = c.next /\ d.todo = c.todo /\ d.key = c.key
        /\ d.result = r /\ d.before = c.before /\ d.shown = c.shown
    BY <1>1 DEF Local
  <2>3. Completed(c, r) = d
    BY <1>3 DEF Completed
  <2> HIDE DEF d
  <2>4. QED
    BY <1>3, <2>1, <2>2, <2>3 DEF WellFormed, InCall
<1>4. QED
  BY <1>1, <1>2, <1>3

-----------------------------------------------------------------------------
LEMMA TypeInit == Init => TypeInv
<1> SUFFICES ASSUME Init PROVE TypeInv
  OBVIOUS
<1>1. NoAction \in Action
  BY DEF NoAction, Action, Contents
<1>2. Idle \in Local /\ \A a \in Actors : local[a] = Idle
  BY IdleWellFormed DEF WellFormed, Init, Actors
<1>3. TypeOK
  BY <1>1, <1>2, NotAskedTyped DEF Init, TypeOK, Contents
<1>4. QED
  BY <1>2, <1>3, IdleWellFormed DEF TypeInv

\* A step that leaves the tables alone keeps the types if its process stays well formed.
LEMMA OnlyMoveTyped ==
  ASSUME TypeInv, NEW a \in Actors, NEW c, WellFormed(c), Goto(a, c),
         UNCHANGED <<tool, action, audit, file, ran>>, asked' \in {asked, NotAsked}
  PROVE  TypeInv'
<1>1. asked' \in [call : Calls \cup {None}, shown : Contents]
  BY NotAskedTyped DEF TypeInv, TypeOK
<1>2. QED
  BY <1>1, MoveTyped DEF TypeInv, TypeOK

LEMMA RecoveryTyped ==
  ASSUME TypeInv, NEW p \in Procs,
         \/ List(p) \/ \E k \in Keys, seen \in Unfinished : Recover(p, k, seen)
         \/ EndRecovery(p)
  PROVE  TypeInv'
<1> p \in Actors
  BY DEF Actors
<1>1. CASE List(p)
  <2> DEFINE open == {<<k, action[k].status>> : k \in {j \in Keys : action[j].status \in Unfinished}}
             c == [Idle EXCEPT !.pc = "recovering", !.todo = open]
  <2>1. open \in SUBSET (Keys \X Unfinished)
    OBVIOUS
  <2>2. WellFormed(c)
    <3> HIDE DEF open
    <3>1. Idle \in Local
      BY IdleWellFormed DEF WellFormed
    <3>2. c \in Local
      BY <2>1, <3>1 DEF Local
    <3>3. c.pc = "recovering" /\ c.next = "recovering"
      BY DEF Idle
    <3> QED
      BY <3>2, <3>3 DEF WellFormed, InCall
  <2>3. QED
    BY <1>1, <2>2, OnlyMoveTyped DEF List
<1>2. CASE \E k \in Keys, seen \in Unfinished : Recover(p, k, seen)
  <2>1. PICK k \in Keys, seen \in Unfinished : Recover(p, k, seen)
    BY <1>2
  <2> DEFINE c == [local[p] EXCEPT !.key = k, !.todo = @ \ {<<k, seen>>}]
             verdict == Classified(k, seen)
  <2>2. WellFormed(local[p]) /\ local[p].pc = "recovering"
    BY <2>1 DEF TypeInv, Recover
  <2>3. WellFormed(c) /\ c.key \in Keys
    BY <2>2 DEF WellFormed, Local, InCall
  <2>4. verdict[1] \in Settled /\ verdict[2] \in Results
    BY ClassifiedTyped
  <2>5. WellFormed(Completing(c, verdict))
    <3> HIDE DEF c, verdict
    <3>1. Completing(c, verdict) = Completing(c, <<verdict[1], verdict[2]>>)
      BY DEF Completing
    <3>2. QED
      BY <2>3, <2>4, <3>1, CompletingWellFormed
  <2>6. QED
    BY <2>1, <2>5, OnlyMoveTyped DEF Recover
<1>3. CASE EndRecovery(p)
  BY <1>3, IdleWellFormed, OnlyMoveTyped DEF EndRecovery, Checked
<1>4. QED
  BY <1>1, <1>2, <1>3

LEMMA BeginningTyped ==
  ASSUME TypeInv, NEW p \in Procs, NEW c \in Calls, Begin(p, c) \/ Ask(p, c) \/ Approve(p, c)
  PROVE  TypeInv'
<1> p \in Actors
  BY DEF Actors
<1>1. file[c] \in Contents /\ asked.shown \in Contents /\ WellFormed(local[p])
  BY DEF TypeInv, TypeOK
<1>2. CASE Begin(p, c)
  <2> DEFINE d == [local[p] EXCEPT !.pc = "preparing", !.next = "observing",
                                   !.key = <<c, 1>>, !.shown = file[c], !.before = file[c]]
  <2>1. WellFormed(d)
    BY <1>1, FirstKey DEF WellFormed, Local, InCall
  <2>2. QED
    BY <1>2, <2>1, OnlyMoveTyped DEF Begin
<1>3. CASE Ask(p, c)
  <2>1. asked' \in [call : Calls \cup {None}, shown : Contents]
    BY <1>1, <1>3 DEF Ask
  <2>2. QED
    BY <1>3, <2>1, IdleWellFormed, MoveTyped DEF Ask, TypeInv, TypeOK
<1>4. CASE Approve(p, c)
  <2> DEFINE d == [Idle EXCEPT !.pc = "preparing", !.next = "observing",
                               !.key = <<c, 1>>, !.approved = TRUE,
                               !.shown = asked.shown, !.before = file[c]]
             e == [Idle EXCEPT !.pc = "resuming"]
  <2>1. WellFormed(d)
    <3>1. Idle \in Local /\ <<c, 1>> \in Keys
      BY FirstKey, IdleWellFormed DEF WellFormed
    <3>2. d \in Local
      BY <1>1, <3>1 DEF Local
    <3>3. d.pc = "preparing" /\ d.next = "observing" /\ d.key = <<c, 1>>
      BY <3>1 DEF Local
    <3>4. QED
      BY <3>1, <3>2, <3>3 DEF WellFormed
  <2>2. WellFormed(e)
    BY IdleWellFormed DEF WellFormed, Local, InCall, Idle
  <2>3. QED
    BY <1>4, <2>1, <2>2, OnlyMoveTyped DEF Approve
<1>5. QED
  BY <1>2, <1>3, <1>4

LEMMA RunningTyped ==
  ASSUME TypeInv, NEW p \in Procs,
         Prepare(p) \/ Mark(p) \/ RunTool(p) \/ CheckFile(p) \/ ReplaceFile(p)
  PROVE  TypeInv'
<1> DEFINE c == local[p]
<1> p \in Actors
  BY DEF Actors
<1>1. WellFormed(c)
  BY DEF TypeInv
<1>2. c.next = "observing" /\ c.key \in Keys
  BY <1>1 DEF WellFormed, InCall, Prepare, Mark, RunTool, CheckFile, ReplaceFile
<1>3. action[c.key] \in Action /\ action \in [Keys -> Action]
  BY <1>2 DEF TypeInv, TypeOK
<1>4. ran' \in [Keys -> Nat] /\ c.key[1] \in Calls
  BY <1>2 DEF TypeInv, TypeOK, Prepare, Mark, RunTool, CheckFile, ReplaceFile, Count, Keys
<1>5. \A s \in Settled, r \in Results : WellFormed(Completing(c, <<s, r>>))
  BY <1>1, <1>2, CompletingWellFormed
<1>6. WellFormed(Completing(c, Classified(c.key, "executing")))
  <2> DEFINE verdict == Classified(c.key, "executing")
  <2>1. verdict[1] \in Settled /\ verdict[2] \in Results
    BY <1>2, ClassifiedTyped
  <2>2. Completing(c, verdict) = Completing(c, <<verdict[1], verdict[2]>>)
    BY DEF Completing
  <2>3. QED
    BY <1>5, <2>1, <2>2
<1>7. CASE Prepare(p)
  <2> DEFINE row == IF action[c.key].status = "absent"
                      THEN [NoAction EXCEPT !.status = "prepared", !.before = c.before]
                      ELSE action[c.key]
  <2>1. row \in Action
    BY <1>1, <1>3 DEF Action, NoAction, WellFormed, Local, Unfinished
  <2>2. WellFormed(Prepared(c, row))
    <3> HIDE DEF row, c
    <3>1. \A r \in Results \cup {None} : WellFormed([c EXCEPT !.pc = "observing", !.result = r])
      BY <1>1, <1>2 DEF WellFormed, Local, InCall
    <3>2. WellFormed([c EXCEPT !.pc = "marking"])
      BY <1>1, <1>2 DEF WellFormed, Local, InCall
    <3>3. row.result \in Results \cup {None} /\ "error" \in Results \cup {None}
      BY <2>1 DEF Action, Results
    <3>4. QED
      BY <3>1, <3>2, <3>3 DEF Prepared
  <2>3. action' \in [Keys -> Action] /\ Goto(p, Prepared(c, row))
    BY <1>3, <1>7, <2>1 DEF Prepare
  <2>4. QED
    BY <1>4, <1>7, <2>2, <2>3, MoveTyped DEF Prepare, TypeInv, TypeOK
<1>8. CASE Mark(p)
  <2>1. WellFormed([c EXCEPT !.pc = "running"])
    BY <1>1, <1>2 DEF WellFormed, Local, InCall
  <2>2. [action[c.key] EXCEPT !.status = "executing"] \in Action
    BY <1>3 DEF Action, Unfinished
  <2>3. action' \in [Keys -> Action]
    BY <1>2, <1>3, <1>8, <2>2 DEF Mark
  <2>4. QED
    BY <1>4, <1>8, <2>1, <2>3, MoveTyped DEF Mark, TypeInv, TypeOK
<1>9. CASE RunTool(p)
  <2>1. PICK d : WellFormed(d) /\ Goto(p, d)
    BY <1>5, <1>6, <1>9 DEF RunTool, Settled, Results
  <2>2. QED
    BY <1>4, <1>9, <2>1, MoveTyped DEF RunTool, TypeInv, TypeOK
<1>10. CASE CheckFile(p)
  <2>1. WellFormed([c EXCEPT !.pc = "replacing"])
    BY <1>1, <1>2 DEF WellFormed, Local, InCall
  <2>2. QED
    BY <1>5, <1>10, <2>1, OnlyMoveTyped DEF CheckFile, Settled, Results
<1>11. CASE ReplaceFile(p)
  <2>1. PICK d : WellFormed(d) /\ Goto(p, d)
    BY <1>5, <1>6, <1>11 DEF ReplaceFile, Settled, Results
  <2>2. file' \in [Calls -> Contents]
    BY <1>4, <1>11 DEF ReplaceFile, TypeInv, TypeOK, Contents
  <2>3. QED
    BY <1>4, <1>11, <2>1, <2>2, MoveTyped DEF ReplaceFile, TypeInv, TypeOK
<1>12. QED
  BY <1>7, <1>8, <1>9, <1>10, <1>11

LEMMA CompletionTyped ==
  ASSUME TypeInv, NEW p \in Procs, CompleteRead(p) \/ CompleteWrite(p) \/ Observe(p)
  PROVE  TypeInv'
<1> DEFINE c == local[p]
<1> p \in Actors
  BY DEF Actors
<1>1. WellFormed(c)
  BY DEF TypeInv
<1>2. c.key \in Keys /\ (c.pc = "observing" => c.next = "observing")
  BY <1>1 DEF WellFormed, InCall, CompleteRead, CompleteWrite, Observe
<1>3. action[c.key] \in Action /\ action \in [Keys -> Action]
  BY <1>2 DEF TypeInv, TypeOK
<1>4. c.next \in {"recovering", "observing"} /\ c \in Local
  BY <1>1 DEF WellFormed, Local
<1>5. CASE CompleteRead(p)
  <2>1. WellFormed(Completed(c, action[c.key].result))
    BY <1>1, <1>2, <1>3, CompletedWellFormed DEF Action
  <2>2. WellFormed([c EXCEPT !.pc = "storing"])
    BY <1>1, <1>2, <1>5 DEF WellFormed, Local, InCall, CompleteRead
  <2>3. QED
    BY <1>5, <2>1, <2>2, OnlyMoveTyped DEF CompleteRead
<1>6. CASE CompleteWrite(p)
  <2>2. c.status \in Settled /\ c.result \in Results
    BY <1>1, <1>6 DEF WellFormed, CompleteWrite
  <2>1. WellFormed(Completed(c, c.result))
    BY <1>1, <1>2, <2>2, CompletedWellFormed
  <2>3. [action[c.key] EXCEPT !.status = c.status, !.result = c.result] \in Action
    BY <1>3, <2>2 DEF Action
  <2>4. action' = [action EXCEPT ![c.key] =
                     [action[c.key] EXCEPT !.status = c.status, !.result = c.result]]
    BY <1>3, <1>6 DEF CompleteWrite, Action
  <2>5. action' \in [Keys -> Action]
    BY <1>2, <1>3, <2>3, <2>4
  <2>6. audit' \in [Keys -> Results \cup {None}]
    BY <1>2, <1>6, <2>2 DEF CompleteWrite, AuditOnce, TypeInv, TypeOK
  <2>7. QED
    BY <1>6, <2>1, <2>5, <2>6, MoveTyped DEF CompleteWrite, TypeInv, TypeOK
<1>7. CASE Observe(p)
  <2>1. Retries(c) => WellFormed([c EXCEPT !.pc = "preparing",
                                           !.key = <<@[1], @[2] + 1>>])
    <3>1. ASSUME Retries(c) PROVE <<c.key[1], c.key[2] + 1>> \in Keys
      <4>1. c.key[1] \in Calls /\ c.key[2] \in 1 .. MaxRetries + 1 /\ c.key[2] <= MaxRetries
        BY <1>2, <3>1 DEF Retries, Keys
      <4>2. c.key[2] + 1 \in 1 .. MaxRetries + 1
        BY <4>1, RetriesAssumption
      <4>3. QED
        BY <4>1, <4>2 DEF Keys
    <3>2. QED
      BY <1>1, <1>2, <1>7, <3>1 DEF WellFormed, Local, InCall, Observe
  <2>2. WellFormed([Idle EXCEPT !.pc = "resuming"])
    BY IdleWellFormed DEF WellFormed, Local, InCall, Idle
  <2>3. PICK d : WellFormed(d) /\ Goto(p, d)
    BY <1>7, <2>1, <2>2, IdleWellFormed, Zenon DEF Observe, Checked
  <2>4. QED
    BY <1>7, <2>3, OnlyMoveTyped DEF Observe
<1>8. QED
  BY <1>5, <1>6, <1>7

LEMMA ResolvingTyped ==
  ASSUME TypeInv, NEW o \in Operators,
         \/ \E k \in Keys, outcome \in {"succeeded", "failed"} : ResolveRead(o, k, outcome)
         \/ ResolveWrite(o)
  PROVE  TypeInv'
<1> o \in Actors
  BY DEF Actors
<1>1. CASE \E k \in Keys, outcome \in {"succeeded", "failed"} : ResolveRead(o, k, outcome)
  <2>1. PICK k \in Keys, outcome \in {"succeeded", "failed"} : ResolveRead(o, k, outcome)
    BY <1>1
  <2> DEFINE d == [Idle EXCEPT !.pc = "resolving", !.key = k, !.status = outcome]
  <2>2. WellFormed(d)
    <3>1. Idle \in Local /\ Idle.next = "recovering"
      BY IdleWellFormed DEF WellFormed, Idle
    <3>2. d \in Local
      BY <3>1 DEF Local, Settled
    <3>3. d.pc = "resolving" /\ d.next = "recovering" /\ d.key = k /\ d.status = outcome
      BY <3>1 DEF Local
    <3>4. QED
      BY <3>2, <3>3 DEF WellFormed, InCall
  <2>3. QED
    BY <2>1, <2>2, OnlyMoveTyped DEF ResolveRead
<1>2. CASE ResolveWrite(o)
  <2> DEFINE c == local[o]
             row == [action[c.key] EXCEPT !.status = c.status, !.result = "human",
                                          !.resolution = c.status]
  <2>1. c.key \in Keys /\ c.status \in {"succeeded", "failed"}
    BY <1>2 DEF TypeInv, WellFormed, ResolveWrite
  <2>2. action[c.key] \in Action /\ action \in [Keys -> Action]
    BY <2>1 DEF TypeInv, TypeOK
  <2>3. row \in Action
    BY <2>1, <2>2 DEF Action, Settled, Results
  <2>4. action' \in {[action EXCEPT ![c.key] = row], action}
    BY <1>2, <2>2 DEF ResolveWrite, Action
  <2>5. action' \in [Keys -> Action]
    BY <2>1, <2>2, <2>3, <2>4
  <2>6. QED
    BY <1>2, <2>5, IdleWellFormed, MoveTyped DEF ResolveWrite, TypeInv, TypeOK
<1>3. QED
  BY <1>1, <1>2

LEMMA TypeStep == TypeInv /\ [Next]_vars => TypeInv'
<1> SUFFICES ASSUME TypeInv, [Next]_vars PROVE TypeInv'
  OBVIOUS
<1>1. ASSUME NEW p \in Procs, Turn(p) PROVE TypeInv'
  <2>1. CASE Leave(p)
    BY <2>1, IdleWellFormed, OnlyMoveTyped DEF Leave, Actors
  <2>2. QED
    BY <1>1, <2>1, RecoveryTyped, BeginningTyped, RunningTyped, CompletionTyped DEF Turn
<1>2. ASSUME NEW o \in Operators, Leave(o) PROVE TypeInv'
  BY <1>2, IdleWellFormed, OnlyMoveTyped DEF Leave, Actors
<1>3. ASSUME NEW c \in Calls, NEW content \in {"old", "other"}, EditFile(c, content)
      PROVE  TypeInv'
  <2>1. TypeOK'
    BY <1>3 DEF EditFile, TypeInv, TypeOK, Contents
  <2>2. QED
    BY <1>3, <2>1 DEF EditFile, TypeInv
<1>4. CASE UNCHANGED vars
  BY <1>4 DEF vars, TypeInv, TypeOK
<1>5. QED
  BY <1>1, <1>2, <1>3, <1>4, ResolvingTyped DEF Next

\* The rows and the processes of a session keep the shape the schema gives them
\* (database.py), whatever the numbers of calls, processes, operators and retries.
THEOREM TypeCorrect == Spec => []TypeOK
<1>1. TypeInv => TypeOK
  BY DEF TypeInv
<1>2. QED
  BY <1>1, TypeInit, TypeStep, PTL DEF Spec

-----------------------------------------------------------------------------
(* Safety. *)

\* What a process may rely on, of the kinds t, the rows a and the runs r.
Safe(c, t, a, r) ==
  /\ c.next = "observing" => /\ t[c.key[1]] \notin MayRetry => c.key[2] = 1
                             /\ t[c.key[1]] = "edit" => c.before = c.shown
  /\ c.pc \in {"marking", "running", "replacing"} => a[c.key].status # "absent"
  /\ c.pc \in {"running", "replacing"} => a[c.key].status # "prepared"
  /\ c.pc = "replacing" => t[c.key[1]] = "edit"
  /\ c.pc \in {"completing", "storing"} => /\ a[c.key].status # "absent"
                                           /\ c.status = "succeeded" => r[c.key] >= 1
  /\ c.pc = "recovering" => c.next = "recovering"
  /\ \A x \in c.todo : a[x[1]].status # "absent"

\* What the row and the runs of one action have to do with each other.
SafeRow(k, t, row, n) ==
  /\ n \in Nat
  /\ n >= 1 => row.status \notin {"absent", "prepared"}
  /\ t[k[1]] \notin MayRetry /\ k[2] > 1 => row.status = "absent" /\ n = 0
  /\ row.status = "absent" => row.resolution = None
  /\ row.status = "succeeded" /\ row.resolution = None => n >= 1

SafeRows ==
  /\ \A k \in Keys : SafeRow(k, tool, action[k], ran[k])
  /\ \A c \in Calls : tool[c] = "edit" /\ file[c] = "new" => ran[<<c, 1>>] >= 1

SafeInv ==
  /\ TypeInv
  /\ \A x \in Actors : Safe(local[x], tool, action, ran)
  /\ SafeRows

\* No row is withdrawn, no start is forgotten and no run is undone.
Onward ==
  \A k \in Keys :
    /\ action[k].status # "absent" => action'[k].status # "absent"
    /\ action[k].status \notin {"absent", "prepared"}
         => action'[k].status \notin {"absent", "prepared"}
    /\ ran[k] >= 1 => ran'[k] >= 1

-----------------------------------------------------------------------------
LEMMA SafeKept ==
  ASSUME NEW c, WellFormed(c), Safe(c, tool, action, ran), tool' = tool, Onward
  PROVE  Safe(c, tool', action', ran')
<1>1. c.next = "observing" \/ c.pc \in {"completing", "storing"} => c.key \in Keys
  BY DEF WellFormed
<1>2. c.pc \in {"marking", "running", "replacing"} => c.key \in Keys
  BY <1>1 DEF WellFormed, InCall
<1>3. \A x \in c.todo : x[1] \in Keys
  BY DEF WellFormed, Local
<1>4. \A x \in c.todo : action'[x[1]].status # "absent"
  BY <1>3 DEF Safe, Onward
<1>5. QED
  BY <1>1, <1>2, <1>4 DEF Safe, Onward

\* It is enough to look at the process that moves.
LEMMA SafeMove ==
  ASSUME SafeInv, TypeInv', NEW x \in Actors, NEW d, Goto(x, d), tool' = tool, Onward,
         Safe(d, tool', action', ran'), SafeRows'
  PROVE  SafeInv'
<1>1. ASSUME NEW y \in Actors PROVE Safe(local'[y], tool', action', ran')
  <2>1. local'[y] = IF y = x THEN d ELSE local[y]
    BY DEF Goto, SafeInv, TypeInv, TypeOK, Actors
  <2>2. WellFormed(local[y]) /\ Safe(local[y], tool, action, ran)
    BY DEF SafeInv, TypeInv
  <2>3. QED
    BY <2>1, <2>2, SafeKept
<1>2. QED
  BY <1>1 DEF SafeInv

\* A step that changes no table.
LEMMA SafeMoveOnly ==
  ASSUME SafeInv, TypeInv', NEW x \in Actors, NEW d, Goto(x, d),
         UNCHANGED <<tool, action, audit, file, ran>>, Safe(d, tool, action, ran)
  PROVE  SafeInv'
<1>1. Onward /\ SafeRows'
  BY DEF Onward, SafeInv, SafeRows
<1>2. QED
  BY <1>1, SafeMove

LEMMA IdleSafe ==
  ASSUME NEW t, NEW a, NEW r
  PROVE  /\ Safe(Idle, t, a, r) /\ Safe(Ready, t, a, r)
         /\ Safe([Idle EXCEPT !.pc = "resuming"], t, a, r)
         /\ Idle.next = "recovering" /\ Ready.next = "recovering"
         /\ [Idle EXCEPT !.pc = "resuming"].next = "recovering"
BY DEF Safe, Idle, Ready

LEMMA SafeInit == Init => SafeInv
<1> SUFFICES ASSUME Init PROVE SafeInv
  OBVIOUS
<1>1. \A x \in Actors : local[x] = Idle
  BY DEF Init, Actors
<1>2. \A k \in Keys : action[k] = NoAction /\ ran[k] = 0
  BY DEF Init
<1>3. SafeRows
  <2>1. \A k \in Keys : SafeRow(k, tool, action[k], ran[k])
    BY <1>2 DEF SafeRow, NoAction
  <2>2. QED
    BY <2>1 DEF SafeRows, Init
<1>5. QED
  BY <1>1, <1>3, IdleSafe, TypeInit DEF SafeInv

-----------------------------------------------------------------------------
LEMMA RecoverySafe ==
  ASSUME SafeInv, TypeInv', NEW p \in Procs,
         \/ List(p) \/ \E k \in Keys, seen \in Unfinished : Recover(p, k, seen)
         \/ EndRecovery(p)
  PROVE  SafeInv'
<1> p \in Actors
  BY DEF Actors
<1>1. CASE List(p)
  <2> DEFINE open == {<<k, action[k].status>> : k \in {j \in Keys : action[j].status \in Unfinished}}
             d == [Idle EXCEPT !.pc = "recovering", !.todo = open]
  <2>1. \A x \in open : action[x[1]].status # "absent"
    BY DEF Unfinished
  <2>2. Safe(d, tool, action, ran)
    <3> HIDE DEF open
    <3>1. QED
      BY <2>1 DEF Safe, Idle
  <2>3. QED
    BY <1>1, <2>2, SafeMoveOnly DEF List
<1>2. CASE \E k \in Keys, seen \in Unfinished : Recover(p, k, seen)
  <2>1. PICK k \in Keys, seen \in Unfinished : Recover(p, k, seen)
    BY <1>2
  <2> DEFINE c == local[p]
             verdict == Classified(k, seen)
             d == Completing([c EXCEPT !.key = k, !.todo = @ \ {<<k, seen>>}], verdict)
  <2>2. c \in Local /\ c.pc = "recovering" /\ <<k, seen>> \in c.todo
        /\ Safe(c, tool, action, ran)
    BY <2>1 DEF Recover, SafeInv, TypeInv, WellFormed
  <2>3. action[k].status # "absent"
    <3>1. \A x \in c.todo : action[x[1]].status # "absent"
      BY <2>2 DEF Safe
    <3>2. QED
      BY <2>2, <3>1
  <2>4. verdict[1] = "succeeded" => ran[k] >= 1
    <3>1. verdict[1] = "succeeded" => Kind(k) = "edit" /\ file[k[1]] = "new"
      BY ClassifiedTyped DEF SafeInv
    <3>2. k[1] \in Calls /\ k[2] \in 1 .. MaxRetries + 1 /\ k = <<k[1], k[2]>>
      BY DEF Keys
    <3>3. Kind(k) = "edit" => k[2] = 1
      BY <2>3, <3>2, RetriesAssumption DEF SafeInv, SafeRows, SafeRow, Kind, MayRetry
    <3>4. QED
      BY <3>1, <3>2, <3>3 DEF SafeInv, SafeRows, Kind
  <2>5. /\ d.pc = "completing" /\ d.key = k /\ d.next = c.next /\ d.status = verdict[1]
        /\ d.todo \subseteq c.todo
    <3> HIDE DEF verdict
    <3>1. QED
      BY <2>2 DEF Completing, Local
  <2>6. c.next = "recovering"
    BY <2>2 DEF Safe
  <2>7. Safe(d, tool, action, ran)
    <3> HIDE DEF d
    <3>1. QED
      BY <2>2, <2>3, <2>4, <2>5, <2>6 DEF Safe
  <2>8. QED
    BY <2>1, <2>7, SafeMoveOnly DEF Recover
<1>3. CASE EndRecovery(p)
  BY <1>3, IdleSafe, SafeMoveOnly DEF EndRecovery, Checked
<1>4. QED
  BY <1>1, <1>2, <1>3

LEMMA BeginningSafe ==
  ASSUME SafeInv, TypeInv', NEW p \in Procs, NEW c \in Calls,
         Begin(p, c) \/ Ask(p, c) \/ Approve(p, c)
  PROVE  SafeInv'
<1> p \in Actors
  BY DEF Actors
<1>1. UNCHANGED <<tool, action, audit, file, ran>>
  BY DEF Begin, Ask, Approve
<1>5. CASE Begin(p, c)
  <2> DEFINE d == [local[p] EXCEPT !.pc = "preparing", !.next = "observing",
                                   !.key = <<c, 1>>, !.shown = file[c], !.before = file[c]]
  <2>1. local[p] \in Local /\ Safe(local[p], tool, action, ran)
    BY DEF SafeInv, TypeInv, WellFormed
  <2>2. /\ d.pc = "preparing" /\ d.next = "observing" /\ d.key = <<c, 1>>
        /\ d.before = d.shown /\ d.todo = local[p].todo
    BY <2>1 DEF Local
  <2>3. Safe(d, tool, action, ran)
    <3> HIDE DEF d
    <3>1. QED
      BY <2>1, <2>2 DEF Safe
  <2>4. QED
    BY <1>1, <1>5, <2>3, SafeMoveOnly DEF Begin
<1>6. CASE Ask(p, c)
  BY <1>1, <1>6, IdleSafe, SafeMoveOnly DEF Ask
<1>7. CASE Approve(p, c)
  <2> DEFINE d == [Idle EXCEPT !.pc = "preparing", !.next = "observing",
                               !.key = <<c, 1>>, !.approved = TRUE,
                               !.shown = asked.shown, !.before = file[c]]
             e == [Idle EXCEPT !.pc = "resuming"]
  <2>1. CASE AsShown(c)
    <3>1. Goto(p, d)
      BY <1>7, <2>1 DEF Approve
    <3>2. /\ d.pc = "preparing" /\ d.next = "observing" /\ d.key = <<c, 1>> /\ d.todo = {}
          /\ d.before = file[c] /\ d.shown = asked.shown
      BY DEF Idle
    <3>3. Safe(d, tool, action, ran)
      <4> HIDE DEF d
      <4>1. QED
        BY <2>1, <3>2 DEF Safe, AsShown
    <3>4. QED
      BY <1>1, <3>1, <3>3, SafeMoveOnly
  <2>2. CASE ~AsShown(c)
    BY <1>1, <1>7, <2>2, IdleSafe, SafeMoveOnly DEF Approve
  <2>3. QED
    BY <2>1, <2>2
<1>8. QED
  BY <1>5, <1>6, <1>7

\* The row of a call that is made, and the mark before its tool runs.
LEMMA PreparingSafe ==
  ASSUME SafeInv, TypeInv', NEW p \in Procs, Prepare(p) \/ Mark(p)
  PROVE  SafeInv'
<1> DEFINE c == local[p]
<1> p \in Actors
  BY DEF Actors
<1>1. c \in Local /\ Safe(c, tool, action, ran) /\ c.next = "observing" /\ c.key \in Keys
  BY DEF SafeInv, TypeInv, WellFormed, InCall, Prepare, Mark
<1>2. action \in [Keys -> Action] /\ action[c.key] \in Action
      /\ SafeRow(c.key, tool, action[c.key], ran[c.key])
  BY <1>1 DEF SafeInv, TypeInv, TypeOK, SafeRows
<1>3. UNCHANGED <<tool, audit, file, asked, ran>>
  BY DEF Prepare, Mark
<1>4. ASSUME NEW row, action' = [action EXCEPT ![c.key] = row],
             SafeRow(c.key, tool, row, ran[c.key]), row.status # "absent",
             action[c.key].status \notin {"absent", "prepared"}
               => row.status \notin {"absent", "prepared"}
      PROVE  SafeRows' /\ Onward /\ action'[c.key] = row
  <2>1. \A k \in Keys : action'[k] = IF k = c.key THEN row ELSE action[k]
    BY <1>2, <1>4
  <2>2. QED
    BY <1>1, <1>3, <1>4, <2>1 DEF SafeInv, SafeRows, Onward
<1>5. CASE Prepare(p)
  <2> DEFINE row == IF action[c.key].status = "absent"
                      THEN [NoAction EXCEPT !.status = "prepared", !.before = c.before]
                      ELSE action[c.key]
             d == Prepared(c, row)
  <2>1. action' = [action EXCEPT ![c.key] = row] /\ Goto(p, d) /\ c.pc = "preparing"
    BY <1>5 DEF Prepare
  <2>2. c.key = <<c.key[1], c.key[2]>> /\ c.key[2] \in 1 .. MaxRetries + 1
    BY <1>1 DEF Keys
  <2>3. action[c.key].status = "absent" =>
          row.status = "prepared" /\ row.resolution = None
    BY DEF NoAction
  <2>4. tool[c.key[1]] \notin MayRetry => c.key[2] = 1
    BY <1>1 DEF Safe
  <2>5. SafeRow(c.key, tool, row, ran[c.key]) /\ row.status # "absent"
    <3> HIDE DEF c
    <3>1. CASE action[c.key].status = "absent"
      <4> HIDE DEF row
      <4>1. QED
        BY <1>2, <2>2, <2>3, <2>4, <3>1 DEF SafeRow
    <3>2. CASE action[c.key].status # "absent"
      BY <1>2, <3>2
    <3>3. QED
      BY <3>1, <3>2
  <2>6. row \in Action
    BY <1>1, <1>2 DEF Action, NoAction, Local, Unfinished
  <2>7. SafeRows' /\ Onward /\ action'[c.key] = row
    <3>1. action[c.key].status \notin {"absent", "prepared"}
            => row.status \notin {"absent", "prepared"}
      OBVIOUS
    <3> HIDE DEF row
    <3>2. QED
      BY <1>4, <2>1, <2>5, <3>1
  <2>8. /\ d.next = c.next /\ d.key = c.key /\ d.before = c.before /\ d.shown = c.shown
        /\ d.todo = c.todo
        /\ d.pc \in {"observing", "marking"}
        /\ d.pc = "marking" => row.status = "prepared"
    <3> HIDE DEF row, c
    <3>1. \A r : LET e == [c EXCEPT !.pc = "observing", !.result = r]
                 IN  /\ e.next = c.next /\ e.key = c.key /\ e.before = c.before
                     /\ e.shown = c.shown /\ e.todo = c.todo /\ e.pc = "observing"
      BY <1>1 DEF Local
    <3>2. LET e == [c EXCEPT !.pc = "marking"]
          IN  /\ e.next = c.next /\ e.key = c.key /\ e.before = c.before
              /\ e.shown = c.shown /\ e.todo = c.todo /\ e.pc = "marking"
      BY <1>1 DEF Local
    <3>3. row.status \in Settled \/ row.status = "executing" \/ row.status = "prepared"
      BY <2>5, <2>6 DEF Action, Unfinished
    <3>4. QED
      BY <3>1, <3>2, <3>3 DEF Prepared
  <2>9. \A x \in c.todo : action'[x[1]].status # "absent"
    BY <1>1, <2>7 DEF Local, Safe, Onward
  <2>10. Safe(d, tool', action', ran')
    <3> HIDE DEF row, d
    <3>1. QED
      BY <1>1, <1>3, <2>5, <2>7, <2>8, <2>9 DEF Safe
  <2>11. QED
    BY <1>3, <2>1, <2>7, <2>10, SafeMove
<1>6. CASE Mark(p)
  <2> DEFINE row == IF action[c.key].status = "prepared"
                      THEN [action[c.key] EXCEPT !.status = "executing"] ELSE action[c.key]
             d == [c EXCEPT !.pc = "running"]
  <2>1. action' = [action EXCEPT ![c.key] = row] /\ Goto(p, d) /\ c.pc = "marking"
    BY <1>2, <1>6 DEF Mark
  <2>2. row.status # "prepared" /\ row.resolution = action[c.key].resolution
        /\ row.status = IF action[c.key].status = "prepared" THEN "executing"
                                                             ELSE action[c.key].status
    BY <1>2 DEF Action
  <2>3. action[c.key].status # "absent"
    BY <1>1, <2>1 DEF Safe
  <2>4. SafeRow(c.key, tool, row, ran[c.key]) /\ row.status # "absent"
    <3> HIDE DEF row, c
    <3>1. QED
      BY <1>2, <2>2, <2>3 DEF SafeRow
  <2>5. SafeRows' /\ Onward /\ action'[c.key] = row
    <3> HIDE DEF row
    <3>1. QED
      BY <1>4, <2>1, <2>2, <2>4
  <2>6. /\ d.next = c.next /\ d.key = c.key /\ d.before = c.before /\ d.shown = c.shown
        /\ d.todo = c.todo /\ d.pc = "running"
    BY <1>1 DEF Local
  <2>7. \A x \in c.todo : action'[x[1]].status # "absent"
    BY <1>1, <2>5 DEF Local, Safe, Onward
  <2>8. Safe(d, tool', action', ran')
    <3> HIDE DEF row, d
    <3>1. QED
      BY <1>1, <1>3, <2>2, <2>3, <2>4, <2>5, <2>6, <2>7 DEF Safe
  <2>9. QED
    BY <1>3, <2>1, <2>5, <2>8, SafeMove
<1>7. QED
  BY <1>5, <1>6

\* The tool runs, or the file is replaced, past a row that has left "prepared".
LEMMA RunningSafe ==
  ASSUME SafeInv, TypeInv', NEW p \in Procs, RunTool(p) \/ CheckFile(p) \/ ReplaceFile(p)
  PROVE  SafeInv'
<1> DEFINE c == local[p]
<1> p \in Actors
  BY DEF Actors
<1>1. /\ c \in Local /\ c.next = "observing" /\ c.key \in Keys
      /\ c.pc = "running" \/ c.pc = "replacing"
  BY DEF SafeInv, TypeInv, WellFormed, InCall, RunTool, CheckFile, ReplaceFile
<1>2. Safe(c, tool, action, ran)
  BY DEF SafeInv
<1>3. action[c.key].status \notin {"absent", "prepared"}
  BY <1>1, <1>2 DEF Safe
<1>4. ran \in [Keys -> Nat] /\ c.key[1] \in Calls /\ c.key = <<c.key[1], c.key[2]>>
  BY <1>1 DEF SafeInv, TypeInv, TypeOK, Keys
<1>5. UNCHANGED <<tool, action, audit, asked>>
  BY DEF RunTool, CheckFile, ReplaceFile
<1>6. ASSUME NEW v, NEW d, d = Completing(c, v), Goto(p, d), Onward, SafeRows',
             v[1] = "succeeded" => ran'[c.key] >= 1
      PROVE  SafeInv'
  <2>1. /\ d.pc = "completing" /\ d.next = c.next /\ d.key = c.key /\ d.before = d.shown
        /\ d.todo = c.todo /\ d.status = v[1]
    <3> HIDE DEF c
    <3>1. QED
      BY <1>1, <1>6 DEF Completing, Local
  <2>2. Safe(d, tool', action', ran')
    <3> HIDE DEF c
    <3>1. QED
      BY <1>1, <1>2, <1>3, <1>5, <1>6, <2>1 DEF Safe
  <2>3. QED
    BY <1>1, <1>5, <1>6, <2>2, SafeMove
<1>7. ASSUME ran' = ran, file' = file PROVE Onward /\ SafeRows'
  BY <1>5, <1>7 DEF Onward, SafeInv, SafeRows
<1>8. ASSUME Count(c.key)
      PROVE  /\ ran'[c.key] >= 1 /\ \A k \in Keys : ran[k] >= 1 => ran'[k] >= 1
             /\ Onward
             /\ \A k \in Keys : SafeRow(k, tool', action'[k], ran'[k])
  <2>1. /\ ran[c.key] + 1 \in Nat /\ ran[c.key] + 1 >= 1
        /\ \A k \in Keys : ran'[k] = IF k = c.key THEN ran[c.key] + 1 ELSE ran[k]
    BY <1>1, <1>4, <1>8 DEF Count
  <2>2. tool[c.key[1]] \notin MayRetry => c.key[2] = 1
    BY <1>1, <1>2 DEF Safe
  <2>3. SafeRow(c.key, tool, action[c.key], ran[c.key] + 1)
    <3>1. SafeRow(c.key, tool, action[c.key], ran[c.key])
      BY <1>1 DEF SafeInv, SafeRows
    <3>2. QED
      BY <1>3, <2>1, <2>2, <3>1 DEF SafeRow
  <2>4. \A k \in Keys : SafeRow(k, tool', action'[k], ran'[k])
    BY <1>5, <2>1, <2>3 DEF SafeInv, SafeRows
  <2>5. ran'[c.key] >= 1 /\ \A k \in Keys : ran[k] >= 1 => ran'[k] >= 1
    BY <1>1, <2>1
  <2>6. QED
    BY <1>5, <2>4, <2>5 DEF Onward
<1>9. Classified(c.key, "executing")[1] = "succeeded"
        => Kind(c.key) = "edit" /\ file[c.key[1]] = "new"
  BY <1>1, ClassifiedTyped DEF SafeInv
<1>10. CASE RunTool(p)
  <2>1. Count(c.key) /\ file' = file /\ Kind(c.key) # "edit"
    BY <1>10 DEF RunTool
  <2>3. SafeRows' /\ Onward /\ ran'[c.key] >= 1
    <3>1. \A b \in Calls : tool[b] = "edit" /\ file[b] = "new" => ran[<<b, 1>>] >= 1
      BY DEF SafeInv, SafeRows
    <3>2. \A b \in Calls : tool'[b] = "edit" /\ file'[b] = "new" => ran'[<<b, 1>>] >= 1
      BY <1>5, <1>8, <2>1, <3>1, FirstKey
    <3>3. QED
      BY <1>1, <1>8, <2>1, <3>2 DEF SafeRows
  <2>4. PICK v : Goto(p, Completing(c, v))
    BY <1>10 DEF RunTool
  <2>5. QED
    BY <1>6, <2>3, <2>4
<1>11. CASE CheckFile(p)
  <2>1. c.pc = "running" /\ Kind(c.key) = "edit"
    BY <1>11 DEF CheckFile
  <2>2. CASE StillAsFound(c)
    <3> DEFINE d == [c EXCEPT !.pc = "replacing"]
    <3>1. Goto(p, d)
      BY <1>11, <2>2 DEF CheckFile
    <3>2. /\ d.pc = "replacing" /\ d.next = c.next /\ d.key = c.key /\ d.before = c.before
          /\ d.shown = c.shown /\ d.todo = c.todo
      BY <1>1 DEF Local
    <3>3. Safe(d, tool, action, ran)
      <4> HIDE DEF c, d
      <4>1. QED
        BY <1>1, <1>2, <1>3, <2>1, <3>2 DEF Safe, Kind
    <3>4. QED
      BY <1>1, <1>11, <3>1, <3>2, <3>3, SafeMoveOnly DEF CheckFile
  <2>3. CASE ~StillAsFound(c)
    <3>1. Goto(p, Completing(c, <<"failed", "error">>)) /\ ran' = ran /\ file' = file
      BY <1>11, <2>3 DEF CheckFile
    <3>2. QED
      BY <1>6, <1>7, <3>1
  <2>4. QED
    BY <2>2, <2>3
<1>12. CASE ReplaceFile(p)
  <2>1. Kind(c.key) = "edit" /\ c.key = <<c.key[1], 1>>
    BY <1>1, <1>2, <1>4, <1>12 DEF Safe, Kind, ReplaceFile, MayRetry
  <2>2. CASE /\ file' = [file EXCEPT ![c.key[1]] = "new"] /\ Count(c.key)
             /\ Goto(p, Completing(c, <<"succeeded", "ok">>))
    <3>1. \A b \in Calls : tool'[b] = "edit" /\ file'[b] = "new" => ran'[<<b, 1>>] >= 1
      <4>1. ASSUME NEW b \in Calls, tool'[b] = "edit", file'[b] = "new"
            PROVE  ran'[<<b, 1>>] >= 1
        <5>1. CASE b = c.key[1]
          BY <1>1, <1>8, <2>1, <2>2, <5>1
        <5>2. CASE b # c.key[1]
          <6>1. file[b] = "new" /\ ran[<<b, 1>>] >= 1 /\ <<b, 1>> \in Keys
            BY <1>5, <2>2, <4>1, <5>2, FirstKey DEF SafeInv, SafeRows, TypeInv, TypeOK
          <6>2. QED
            BY <1>8, <2>2, <6>1
        <5>3. QED
          BY <5>1, <5>2
      <4>2. QED
        BY <4>1
    <3>2. SafeRows' /\ Onward /\ ran'[c.key] >= 1
      BY <1>1, <1>8, <2>2, <3>1 DEF SafeRows
    <3>3. QED
      BY <1>6, <2>2, <3>2
  <2>3. CASE Goto(p, Completing(c, Classified(c.key, "executing"))) /\ UNCHANGED <<file, ran>>
    <3>1. tool[c.key[1]] = "edit" /\ file[c.key[1]] = "new" => ran[c.key] >= 1
      BY <1>4, <2>1 DEF SafeInv, SafeRows
    <3>2. QED
      BY <1>6, <1>7, <1>9, <2>3, <3>1 DEF Kind
  <2>4. QED
    BY <1>12, <2>2, <2>3 DEF ReplaceFile
<1>13. QED
  BY <1>10, <1>11, <1>12

LEMMA CompletionSafe ==
  ASSUME SafeInv, TypeInv', NEW p \in Procs, CompleteRead(p) \/ CompleteWrite(p) \/ Observe(p)
  PROVE  SafeInv'
<1> DEFINE c == local[p]
<1> p \in Actors
  BY DEF Actors
<1>1. c \in Local /\ Safe(c, tool, action, ran) /\ c.key \in Keys
  BY DEF SafeInv, TypeInv, WellFormed, InCall, CompleteRead, CompleteWrite, Observe
<1>2. c.next \in {"recovering", "observing"}
  BY <1>1 DEF Local
<1>3. CASE CompleteRead(p)
  <2>1. c.pc = "completing" /\ WellFormed(c)
    BY <1>3 DEF CompleteRead, SafeInv, TypeInv
  <2>2. CASE action[c.key].status \in Settled
    <3>1. action[c.key].result \in Results \cup {None}
      BY <1>1 DEF SafeInv, TypeInv, TypeOK, Action
    <3>2. Safe(Completed(c, action[c.key].result), tool, action, ran)
      <4> HIDE DEF c
      <4>1. QED
        BY <1>1, <1>2, <2>1, <3>1, CompletedWellFormed DEF Safe
    <3>3. QED
      BY <1>3, <2>2, <3>2, SafeMoveOnly DEF CompleteRead
  <2>3. CASE action[c.key].status \notin Settled
    <3> DEFINE d == [c EXCEPT !.pc = "storing"]
    <3>1. /\ d.next = c.next /\ d.key = c.key /\ d.before = c.before /\ d.shown = c.shown
          /\ d.todo = c.todo /\ d.status = c.status /\ d.pc = "storing"
      BY <1>1 DEF Local
    <3>2. Safe(d, tool, action, ran)
      <4> HIDE DEF c, d
      <4>1. QED
        BY <1>1, <2>1, <3>1 DEF Safe
    <3>3. QED
      BY <1>3, <2>3, <3>2, SafeMoveOnly DEF CompleteRead
  <2>4. QED
    BY <2>2, <2>3
<1>4. CASE CompleteWrite(p)
  <2> DEFINE d == Completed(c, c.result)
             row == [action[c.key] EXCEPT !.status = c.status, !.result = c.result]
  <2>1. c.pc = "storing" /\ Goto(p, d) /\ UNCHANGED <<tool, file, asked, ran>>
    BY <1>4 DEF CompleteWrite
  <2>2. c.status \in Settled /\ c.result \in Results /\ WellFormed(c)
    BY <2>1 DEF SafeInv, TypeInv, WellFormed
  <2>3. action \in [Keys -> Action] /\ action[c.key] \in Action
    BY <1>1 DEF SafeInv, TypeInv, TypeOK
  <2>4. row.status = c.status
    BY <2>3 DEF Action
  <2>5. action' = [action EXCEPT ![c.key] = row]
    BY <1>4, <2>3 DEF CompleteWrite, Action
  <2>6. \A k \in Keys : action'[k] = IF k = c.key THEN row ELSE action[k]
    BY <2>3, <2>5
  <2>7. SafeRow(c.key, tool, row, ran[c.key]) /\ row.status \notin {"absent", "prepared"}
    <3>1. SafeRow(c.key, tool, action[c.key], ran[c.key])
      BY <1>1 DEF SafeInv, SafeRows
    <3>2. action[c.key].status # "absent" /\ (c.status = "succeeded" => ran[c.key] >= 1)
      BY <1>1, <2>1 DEF Safe
    <3> HIDE DEF row, c
    <3>3. QED
      BY <2>2, <2>4, <3>1, <3>2 DEF SafeRow, Settled
  <2>8. SafeRows' /\ Onward
    <3> HIDE DEF row, c
    <3>1. QED
      BY <2>1, <2>6, <2>7 DEF SafeInv, SafeRows, Onward
  <2>9. /\ d.next = c.next /\ d.todo = c.todo /\ d.pc = c.next
        /\ c.next = "observing" => d.key = c.key /\ d.before = c.before /\ d.shown = c.shown
    BY <1>1, <2>2, CompletedWellFormed
  <2>10. \A x \in c.todo : action'[x[1]].status # "absent"
    BY <1>1, <2>8 DEF Local, Safe, Onward
  <2>11. Safe(d, tool', action', ran')
    <3> HIDE DEF c, d
    <3>1. QED
      BY <1>1, <1>2, <2>1, <2>9, <2>10 DEF Safe
  <2>12. QED
    BY <2>1, <2>8, <2>11, SafeMove
<1>5. CASE Observe(p)
  <2>1. CASE Retries(c)
    <3> DEFINE d == [c EXCEPT !.pc = "preparing", !.key = <<c.key[1], c.key[2] + 1>>]
    <3>1. Goto(p, d) /\ c.pc = "observing"
      BY <1>5, <2>1 DEF Observe
    <3>2. Kind(c.key) \in MayRetry
      BY <2>1 DEF Retries
    <3>3. /\ d.next = c.next /\ d.key = <<c.key[1], c.key[2] + 1>> /\ d.todo = c.todo
          /\ d.pc = "preparing" /\ d.key[1] = c.key[1]
      BY <1>1 DEF Local
    <3>4. tool[d.key[1]] \in MayRetry /\ tool[d.key[1]] # "edit"
      BY <3>2, <3>3 DEF Kind, MayRetry
    <3>5. Safe(d, tool, action, ran)
      <4> HIDE DEF c, d
      <4>1. QED
        BY <1>1, <3>3, <3>4 DEF Safe
    <3>6. QED
      BY <1>5, <3>1, <3>5, SafeMoveOnly DEF Observe
  <2>2. CASE ~Retries(c)
    <3>1. PICK d : d \in {Idle, Ready, [Idle EXCEPT !.pc = "resuming"]} /\ Goto(p, d)
      BY <1>5, <2>2 DEF Observe, Checked
    <3>2. QED
      BY <1>5, <3>1, IdleSafe, SafeMoveOnly DEF Observe
  <2>3. QED
    BY <2>1, <2>2
<1>6. QED
  BY <1>3, <1>4, <1>5

LEMMA ResolvingSafe ==
  ASSUME SafeInv, TypeInv', NEW o \in Operators,
         \/ \E k \in Keys, outcome \in {"succeeded", "failed"} : ResolveRead(o, k, outcome)
         \/ ResolveWrite(o)
  PROVE  SafeInv'
<1> o \in Actors
  BY DEF Actors
<1>1. CASE \E k \in Keys, outcome \in {"succeeded", "failed"} : ResolveRead(o, k, outcome)
  <2>1. PICK k \in Keys, outcome \in {"succeeded", "failed"} : ResolveRead(o, k, outcome)
    BY <1>1
  <2> DEFINE d == [Idle EXCEPT !.pc = "resolving", !.key = k, !.status = outcome]
  <2>2. Safe(d, tool, action, ran)
    BY DEF Safe, Idle
  <2>3. QED
    BY <2>1, <2>2, SafeMoveOnly DEF ResolveRead
<1>2. CASE ResolveWrite(o)
  <2> DEFINE c == local[o]
             row == [action[c.key] EXCEPT !.status = c.status, !.result = "human",
                                          !.resolution = c.status]
  <2>1. UNCHANGED <<tool, file, asked, ran>> /\ Goto(o, Idle)
    BY <1>2 DEF ResolveWrite
  <2>2. c.key \in Keys /\ c.status \in {"succeeded", "failed"}
    BY <1>2 DEF SafeInv, TypeInv, WellFormed, ResolveWrite
  <2>3. action \in [Keys -> Action] /\ action[c.key] \in Action
        /\ SafeRow(c.key, tool, action[c.key], ran[c.key])
    BY <2>2 DEF SafeInv, TypeInv, TypeOK, SafeRows
  <2>4. CASE StillOpen(c.key)
    <3>1. row.status = c.status /\ row.resolution = c.status /\ c.status # None
      BY <2>2, <2>3, NoneAssumption DEF Action, Settled
    <3>2. action' = [action EXCEPT ![c.key] = row]
      BY <1>2, <2>3, <2>4 DEF ResolveWrite, Action
    <3>3. \A k \in Keys : action'[k] = IF k = c.key THEN row ELSE action[k]
      BY <2>3, <3>2
    <3>4. action[c.key].status # "absent"
      BY <2>4 DEF StillOpen, Undecided, Unfinished
    <3>5. SafeRow(c.key, tool, row, ran[c.key]) /\ row.status \notin {"absent", "prepared"}
      <4> HIDE DEF row, c
      <4>1. QED
        BY <2>2, <2>3, <3>1, <3>4 DEF SafeRow
    <3>6. SafeRows' /\ Onward
      <4> HIDE DEF row, c
      <4>1. QED
        BY <2>1, <3>3, <3>5 DEF SafeInv, SafeRows, Onward
    <3>7. Safe(Idle, tool', action', ran')
      BY IdleSafe
    <3>8. QED
      BY <2>1, <3>6, <3>7, SafeMove
  <2>5. CASE ~StillOpen(c.key)
    <3>1. action' = action
      BY <1>2, <2>5 DEF ResolveWrite
    <3>2. SafeRows' /\ Onward
      BY <2>1, <3>1 DEF SafeInv, SafeRows, Onward
    <3>3. Safe(Idle, tool', action', ran')
      BY IdleSafe
    <3>4. QED
      BY <2>1, <3>2, <3>3, SafeMove
  <2>6. QED
    BY <2>4, <2>5
<1>3. QED
  BY <1>1, <1>2

LEMMA SafeStep == SafeInv /\ [Next]_vars => SafeInv'
<1> SUFFICES ASSUME SafeInv, [Next]_vars PROVE SafeInv'
  OBVIOUS
<1>1. TypeInv'
  BY TypeStep DEF SafeInv
<1>2. ASSUME NEW a \in Actors, Leave(a) PROVE SafeInv'
  BY <1>1, <1>2, IdleSafe, SafeMoveOnly DEF Leave
<1>3. ASSUME NEW p \in Procs, Turn(p) PROVE SafeInv'
  BY <1>1, <1>2, <1>3, RecoverySafe, BeginningSafe, PreparingSafe, RunningSafe, CompletionSafe
     DEF Turn, Actors
<1>4. ASSUME NEW c \in Calls, NEW content \in {"old", "other"}, EditFile(c, content)
      PROVE  SafeInv'
  <2>1. \A b \in Calls : file'[b] = "new" => file[b] = "new"
    BY <1>4 DEF EditFile, SafeInv, TypeInv, TypeOK
  <2>2. QED
    BY <1>1, <1>4, <2>1 DEF EditFile, SafeInv, SafeRows
<1>5. CASE UNCHANGED vars
  BY <1>1, <1>5 DEF vars, SafeInv, SafeRows
<1>6. QED
  BY <1>1, <1>2, <1>3, <1>4, <1>5, ResolvingSafe DEF Next, Actors

LEMMA SafeInvariant == Spec => []SafeInv
BY SafeInit, SafeStep, PTL DEF Spec

-----------------------------------------------------------------------------
\* Whoever goes on to run an action has just found its row "prepared", or made it.
LEMMA GoesOn ==
  ASSUME SafeInv, [Next]_vars, NEW p \in Procs,
         local[p].pc = "preparing", local'[p].pc = "marking"
  PROVE  /\ local[p].next = "observing" /\ local[p].key \in Keys
         /\ action[local[p].key].status \in {"absent", "prepared"}
<1> DEFINE c == local[p]
<1> p \in Actors
  BY DEF Actors
<1>1. WellFormed(c) /\ local \in [Actors -> Local]
  BY DEF SafeInv, TypeInv, TypeOK, Actors
<1>2. c.next = "observing" /\ c.key \in Keys
  BY <1>1 DEF WellFormed, InCall
<1>3. local'[p] # local[p]
  OBVIOUS
<1>4. ASSUME NEW a \in Actors, NEW d, Goto(a, d) PROVE a = p /\ local'[p] = d
  BY <1>1, <1>3, <1>4 DEF Goto
<1>5. ASSUME NEW a \in Actors, Leave(a) PROVE FALSE
  BY <1>4, <1>5 DEF Leave, Idle
<1>6. Prepare(p)
  <2>1. CASE \E q \in Procs : Turn(q)
    <3>1. PICK q \in Procs : Turn(q)
      BY <2>1
    <3>2. q \in Actors
      BY DEF Actors
    <3>3. CASE q = p
      <4>1. \A x \in Calls : ~Approve(p, x)
        BY DEF Approve, Idle
      <4>2. QED
        BY <1>5, <3>1, <3>3, <4>1, Zenon DEF Turn, List, Recover, EndRecovery, Begin, Ask, Mark,
              RunTool, CheckFile, ReplaceFile, CompleteRead, CompleteWrite, Observe
    <3>4. CASE q # p
      BY <1>4, <3>1, <3>2, <3>4, Zenon DEF Turn, List, Recover, EndRecovery, Checked, Begin,
            Ask, Approve, Prepare, Mark, RunTool, CheckFile, ReplaceFile, CompleteRead,
            CompleteWrite, Observe, Leave
    <3>5. QED
      BY <3>3, <3>4
  <2>2. ASSUME NEW o \in Operators, NEW d, Goto(o, d) PROVE FALSE
    BY <1>4, <2>2, ActorsAssumption DEF Actors
  <2>3. QED
    BY <1>3, <2>1, <2>2, Zenon DEF Next, ResolveRead, ResolveWrite, Leave, EditFile, vars
<1>7. action[c.key] \in Action
  BY <1>2 DEF SafeInv, TypeInv, TypeOK
<1>8. action[c.key].status \in {"absent", "prepared"}
  <2> SUFFICES ASSUME action[c.key].status \notin {"absent", "prepared"} PROVE FALSE
    OBVIOUS
  <2>1. Goto(p, Prepared(c, action[c.key]))
    BY <1>6 DEF Prepare
  <2>2. action[c.key].status \in Settled \/ action[c.key].status = "executing"
    BY <1>7 DEF Action, Unfinished
  <2>3. \A r : [c EXCEPT !.pc = "observing", !.result = r].pc = "observing"
    BY <1>1 DEF WellFormed, Local
  <2>4. Prepared(c, action[c.key]).pc = "observing"
    BY <2>2, <2>3 DEF Prepared
  <2>5. QED
    BY <1>4, <2>1, <2>4
<1>9. QED
  BY <1>2, <1>8

\* Nobody goes on to run an action that has been run (loop.py _execute_tool_call: what
\* prepare_tool_action returns decides), nor another attempt of a call whose effect must
\* not be repeated, in every interleaving of turns, recoveries, retries and deaths.
THEOREM RunOnce == Spec => NoBlindRepeat
<1>1. ASSUME SafeInv, [Next]_vars
      PROVE  [\A p \in Procs :
                local[p].pc = "preparing" /\ local'[p].pc = "marking"
                  => LET k == local[p].key IN
                     ran[k] = 0 /\ (k[2] > 1 => Kind(k) \in MayRetry)]_vars
  <2> SUFFICES ASSUME NEW p \in Procs,
                      local[p].pc = "preparing", local'[p].pc = "marking"
               PROVE  /\ ran[local[p].key] = 0
                      /\ local[p].key[2] > 1 => Kind(local[p].key) \in MayRetry
    OBVIOUS
  <2> DEFINE k == local[p].key
  <2>1. k \in Keys /\ local[p].next = "observing" /\ action[k].status \in {"absent", "prepared"}
    BY <1>1, GoesOn
  <2>2. SafeRow(k, tool, action[k], ran[k])
    BY <1>1, <2>1 DEF SafeInv, SafeRows
  <2>3. ran[k] = 0
    BY <2>1, <2>2 DEF SafeRow
  <2>4. Safe(local[p], tool, action, ran)
    BY <1>1 DEF SafeInv, Actors
  <2>5. k[2] > 1 => Kind(k) \in MayRetry
    BY <2>1, <2>4 DEF Safe, Kind
  <2>6. QED
    BY <2>3, <2>5
<1>2. QED
  BY <1>1, SafeInvariant, PTL DEF Spec, NoBlindRepeat

\* What the program records as succeeded was run to its end, whichever process recorded
\* it (complete_tool_action, _classify_tool_action_recovery).
THEOREM SuccessReal == Spec => []SuccessIsReal
<1>1. SafeInv => SuccessIsReal
  BY DEF SafeInv, SafeRows, SafeRow, SuccessIsReal
<1>2. QED
  BY <1>1, SafeInvariant, PTL

\* When an edit is about to be installed the file holds what the user was shown, and for
\* an edit that needed no wait what was inspected (loop.py 1451-1489, file_write.py 136).
THEOREM InstalledAsShown == Spec => ApprovedAsShown
<1>1. ASSUME SafeInv, [Next]_vars
      PROVE  [\A p \in Procs :
                local[p].pc = "running" /\ local'[p].pc = "replacing"
                  => file[local[p].key[1]] = local[p].shown]_vars
  <2> SUFFICES ASSUME NEW p \in Procs,
                      local[p].pc = "running", local'[p].pc = "replacing"
               PROVE  file[local[p].key[1]] = local[p].shown
    OBVIOUS
  <2> DEFINE c == local[p]
  <2> p \in Actors
    BY DEF Actors
  <2>1. /\ c.next = "observing" /\ Safe(c, tool, action, ran) /\ c \in Local
        /\ local \in [Actors -> Local]
    BY <1>1 DEF SafeInv, TypeInv, TypeOK, WellFormed, InCall, Actors
  <2>2. ASSUME NEW a \in Actors, NEW d, Goto(a, d) PROVE a = p /\ local'[p] = d
    BY <2>1, <2>2 DEF Goto
  <2>3. ASSUME NEW v PROVE Completing(c, v).pc = "completing"
    BY <2>1 DEF Completing, Local
  <2>4. CheckFile(p)
    <3>1. ASSUME NEW a \in Actors, Leave(a) PROVE FALSE
      BY <2>2, <3>1 DEF Leave, Idle
    <3>2. ASSUME NEW q \in Procs, Turn(q), q # p PROVE FALSE
      <4>1. q \in Actors
        BY DEF Actors
      <4>2. QED
        BY <2>2, <3>2, <4>1, Zenon DEF Turn, List, Recover, EndRecovery, Checked, Begin,
              Ask, Approve, Prepare, Mark, RunTool, CheckFile, ReplaceFile, CompleteRead,
              CompleteWrite, Observe, Leave
    <3>3. ASSUME NEW o \in Operators, NEW d, Goto(o, d) PROVE FALSE
      BY <2>2, <3>3, ActorsAssumption DEF Actors
    <3>4. Turn(p)
      BY <1>1, <3>2, <3>3, Zenon DEF Next, ResolveRead, ResolveWrite, Leave, EditFile, vars
    <3>5. ASSUME RunTool(p) PROVE FALSE
      <4>1. PICK v : Goto(p, Completing(c, v))
        BY <3>5 DEF RunTool
      <4>2. QED
        BY <2>2, <2>3, <4>1
    <3>6. \A x \in Calls : ~Approve(p, x)
      BY DEF Approve, Idle
    <3>7. QED
      BY <3>1, <3>4, <3>5, <3>6, Zenon DEF Turn, List, Recover, EndRecovery, Begin, Ask,
            Prepare, Mark, ReplaceFile, CompleteRead, CompleteWrite, Observe
  <2>5. StillAsFound(c)
    <3> SUFFICES ASSUME ~StillAsFound(c) PROVE FALSE
      OBVIOUS
    <3>1. Goto(p, Completing(c, <<"failed", "error">>))
      BY <2>4 DEF CheckFile
    <3>2. QED
      BY <2>2, <2>3, <3>1
  <2>6. c.before = c.shown
    BY <2>1, <2>4 DEF Safe, CheckFile, Kind
  <2>7. QED
    BY <2>5, <2>6 DEF StillAsFound
<1>2. QED
  BY <1>1, SafeInvariant, PTL DEF Spec, ApprovedAsShown

-----------------------------------------------------------------------------
\* The four steps that write a row.
WritesRow(a) == Prepare(a) \/ Mark(a) \/ CompleteWrite(a) \/ ResolveWrite(a)

\* Every other step leaves the rows and their audit alone.
LEMMA RowsWritten ==
  [Next]_vars => UNCHANGED <<action, audit>> \/ \E a \in Actors : WritesRow(a)
<1> SUFFICES ASSUME [Next]_vars, ~UNCHANGED <<action, audit>> PROVE \E a \in Actors : WritesRow(a)
  OBVIOUS
<1>1. ASSUME NEW p \in Procs, Turn(p) PROVE WritesRow(p)
  BY <1>1 DEF Turn, List, Recover, EndRecovery, Begin, Ask, Approve, RunTool, CheckFile,
              ReplaceFile, CompleteRead, Observe, Leave, WritesRow
<1>2. QED
  BY <1>1 DEF Next, vars, ResolveRead, Leave, EditFile, WritesRow, Actors

\* What each of them does to the rows.
LEMMA RowWrite ==
  ASSUME SafeInv, NEW a \in Actors, WritesRow(a), NEW k \in Keys
  PROVE  /\ action[k].resolution # None => action'[k].resolution = action[k].resolution
         /\ audit[k] # None => audit'[k] = audit[k]
         /\ action[k].status \in Unfinished /\ action'[k].status \in Settled
              => audit'[k] # None \/ action'[k].resolution # None
<1> DEFINE c == local[a]
<1>1. WellFormed(c) /\ c.key \in Keys
  BY DEF SafeInv, TypeInv, WellFormed, InCall, WritesRow, Prepare, Mark, CompleteWrite,
         ResolveWrite
<1>2. action \in [Keys -> Action] /\ action[c.key] \in Action /\ audit \in [Keys -> Results \cup {None}]
  BY <1>1 DEF SafeInv, TypeInv, TypeOK
<1>3. CASE Prepare(a)
  <2>1. audit' = audit /\ (k # c.key => action'[k] = action[k])
    BY <1>2, <1>3 DEF Prepare
  <2>2. CASE action[c.key].status = "absent"
    <3>1. action[c.key].resolution = None
      BY <1>1, <2>2 DEF SafeInv, SafeRows, SafeRow
    <3>2. QED
      BY <2>1, <2>2, <3>1 DEF Unfinished, Settled
  <2>3. CASE action[c.key].status # "absent"
    <3>1. action'[k] = action[k]
      BY <1>2, <1>3, <2>3 DEF Prepare
    <3>2. QED
      BY <2>1, <3>1 DEF Unfinished, Settled
  <2>4. QED
    BY <2>2, <2>3
<1>4. CASE Mark(a)
  <2>1. audit' = audit /\ action'[k].resolution = action[k].resolution
        /\ action'[k].status \in {action[k].status, "executing"}
    BY <1>1, <1>2, <1>4 DEF Mark, Action
  <2>2. QED
    BY <2>1 DEF Unfinished, Settled
<1>5. CASE CompleteWrite(a)
  <2>1. c.result # None
    BY <1>1, <1>5, NoneAssumption DEF WellFormed, CompleteWrite
  <2>2. audit'[k] = IF k = c.key /\ audit[k] = None THEN c.result ELSE audit[k]
    BY <1>1, <1>2, <1>5 DEF CompleteWrite, AuditOnce
  <2>3. action'[k].resolution = action[k].resolution
        /\ (k # c.key => action'[k] = action[k])
    BY <1>1, <1>2, <1>5 DEF CompleteWrite, Action
  <2>4. QED
    BY <2>1, <2>2, <2>3 DEF Unfinished, Settled
<1>6. CASE ResolveWrite(a)
  <2>1. audit' = audit /\ c.status # None
    BY <1>1, <1>6, NoneAssumption DEF WellFormed, ResolveWrite, Settled
  <2>2. CASE StillOpen(c.key)
    <3>1. action[c.key].resolution = None
      BY <2>2 DEF StillOpen, Undecided
    <3>2. IF k = c.key THEN action'[k].resolution = c.status ELSE action'[k] = action[k]
      BY <1>1, <1>2, <1>6, <2>2 DEF ResolveWrite, Action
    <3>3. QED
      BY <2>1, <3>1, <3>2 DEF Unfinished, Settled
  <2>3. CASE ~StillOpen(c.key)
    BY <1>6, <2>1, <2>3 DEF ResolveWrite, Unfinished, Settled
  <2>4. QED
    BY <2>2, <2>3
<1>7. QED
  BY <1>3, <1>4, <1>5, <1>6 DEF WritesRow

\* The first resolution of an action stays, whatever other operators, and the process
\* that ran it, do at the same time (resolve_tool_action).
THEOREM FirstResolution == Spec => ResolutionOnce
<1>1. ASSUME SafeInv, [Next]_vars
      PROVE  [\A k \in Keys : action[k].resolution # None
                => action'[k].resolution = action[k].resolution]_vars
  BY <1>1, RowsWritten, RowWrite
<1>2. QED
  BY <1>1, SafeInvariant, PTL DEF Spec, ResolutionOnce

\* A recorded result is never replaced, and nothing is settled without a trace: either
\* a result in tool_runs or a resolution (complete_tool_action, _insert_tool_run).
THEOREM Audited == Spec => AuditTrail
<1>1. ASSUME SafeInv, [Next]_vars
      PROVE  [\A k \in Keys :
                /\ audit[k] # None => audit'[k] = audit[k]
                /\ action[k].status \in Unfinished /\ action'[k].status \in Settled
                     => audit'[k] # None \/ action'[k].resolution # None]_vars
  <2>1. CASE UNCHANGED <<action, audit>>
    BY <2>1 DEF Unfinished, Settled
  <2>2. CASE \E a \in Actors : WritesRow(a)
    BY <1>1, <2>2, RowWrite
  <2>3. QED
    BY <1>1, <2>1, <2>2, RowsWritten
<1>2. QED
  BY <1>1, SafeInvariant, PTL DEF Spec, AuditTrail
-----------------------------------------------------------------------------
(* One process at a time. *)

Clear == Uncertain = {}

\* What the place a process has reached, and a call that waits for approval, say of
\* the uncertain actions: a call is begun, asked about and tried again with none.
Sure(p) ==
  LET c == local[p] IN
  /\ c.pc \in {"ready", "preparing", "marking", "running", "replacing"} => Clear
  /\ c.pc \in {"completing", "storing"} => /\ c.next = "observing" => Clear
                                           /\ c.status = "uncertain" => c.result # "transient"
  /\ c.pc = "observing" /\ c.result = "transient" => Clear
  /\ asked.call # None => c.pc = "idle" /\ Clear

SureInv == SafeInv /\ \A p \in Procs : Sure(p)

\* No row becomes uncertain, so none is if none was.
LEMMA ClearKept ==
  ASSUME \A k \in Keys : action'[k].status = "uncertain" => action[k].status = "uncertain"
  PROVE  Clear => Clear'
BY DEF Clear, Uncertain

\* Nor does a step that leaves the rows alone change which are.
LEMMA ClearSame == action' = action => (Clear' <=> Clear)
BY DEF Clear, Uncertain

LEMMA HereNow ==
  ASSUME SafeInv, NEW a \in Actors, NEW c, Goto(a, c)
  PROVE  local'[a] = c /\ \A b \in Actors : b # a => local'[b] = local[b]
BY DEF SafeInv, TypeInv, TypeOK, Goto, Actors

\* What an uncertain action's result says is never that another attempt may help.
LEMMA UncertainIsNotTransient ==
  ASSUME SafeInv, NEW k \in Keys, NEW seen, Classified(k, seen)[1] = "uncertain"
  PROVE  Classified(k, seen)[2] # "transient"
<1>1. k[1] \in Calls
  BY DEF Keys
<1>2. Kind(k) \in Kinds
  BY <1>1 DEF SafeInv, TypeInv, TypeOK, Kind
<1>3. QED
  BY <1>2 DEF Classified, Kinds

LEMMA RecoverySure ==
  ASSUME SafeInv, NEW p \in Procs, Sure(p),
         \/ List(p) \/ \E k \in Keys, seen \in Unfinished : Recover(p, k, seen)
         \/ EndRecovery(p)
  PROVE  Sure(p)'
<1> p \in Actors
  BY DEF Actors
<1>1. Clear' <=> Clear
  BY ClearSame DEF List, Recover, EndRecovery
<1>2. CASE List(p)
  <2>1. local'[p].pc = "recovering" /\ asked'.call = None
    BY <1>2, HereNow DEF List, Idle, NotAsked
  <2>2. QED
    BY <2>1 DEF Sure
<1>3. CASE \E k \in Keys, seen \in Unfinished : Recover(p, k, seen)
  <2>1. PICK k \in Keys, seen \in Unfinished : Recover(p, k, seen)
    BY <1>3
  <2> DEFINE verdict == Classified(k, seen)
             c == [local[p] EXCEPT !.key = k, !.todo = @ \ {<<k, seen>>}]
  <2>2. local[p].pc = "recovering" /\ local[p].next = "recovering"
    BY <2>1 DEF Recover, SafeInv, Safe
  <2>3. local'[p] = Completing(c, verdict) /\ asked' = asked
    BY <2>1, HereNow DEF Recover
  <2>4. verdict[1] = "uncertain" => verdict[2] # "transient"
    BY UncertainIsNotTransient
  <2>5. local[p] \in Local
    BY DEF SafeInv, TypeInv, WellFormed
  <2>6. local'[p].pc = "completing" /\ local'[p].next = "recovering"
        /\ local'[p].status = verdict[1] /\ local'[p].result = verdict[2]
    <3> HIDE DEF verdict
    <3> QED
      BY <2>2, <2>3, <2>5 DEF Completing, Local
  <2>7. asked.call = None
    BY <2>2 DEF Sure
  <2> HIDE DEF verdict
  <2> QED
    BY <2>3, <2>4, <2>6, <2>7 DEF Sure
<1>4. CASE EndRecovery(p)
  <2>1. asked.call = None /\ asked' = asked
    BY <1>4 DEF EndRecovery, Sure
  <2>2. local'[p] = IF Clear THEN Ready ELSE Idle
    BY <1>4, HereNow DEF EndRecovery, Checked, Clear
  <2>3. Ready.pc = "ready" /\ Idle.pc = "idle"
    BY DEF Ready, Idle
  <2>4. QED
    BY <1>1, <2>1, <2>2, <2>3 DEF Sure
<1>5. QED
  BY <1>2, <1>3, <1>4

LEMMA BeginningSure ==
  ASSUME SafeInv, NEW p \in Procs, Sure(p),
         NEW c \in Calls, Begin(p, c) \/ Ask(p, c) \/ Approve(p, c)
  PROVE  Sure(p)'
<1> p \in Actors
  BY DEF Actors
<1>1. Clear' <=> Clear
  BY ClearSame DEF Begin, Ask, Approve
<1>2. local[p] \in Local
  BY DEF SafeInv, TypeInv, WellFormed
<1>3. CASE Begin(p, c)
  <2>1. Clear /\ asked' = asked /\ asked.call = None
    BY <1>3 DEF Begin, Sure
  <2> DEFINE d == [local[p] EXCEPT !.pc = "preparing", !.next = "observing",
                                   !.key = <<c, 1>>, !.shown = file[c], !.before = file[c]]
  <2>2. local'[p].pc = "preparing"
    <3>1. d.pc = "preparing"
      BY <1>2 DEF Local
    <3>2. Goto(p, d)
      BY <1>3, Zenon DEF Begin
    <3>3. local'[p] = d
      <4> HIDE DEF d
      <4> QED
        BY <3>2, HereNow
    <3>4. QED
      BY <3>1, <3>3
  <2>3. QED
    BY <1>1, <2>1, <2>2 DEF Sure
<1>4. CASE Ask(p, c)
  <2>1. Clear /\ local'[p].pc = "idle"
    BY <1>4, HereNow DEF Ask, Sure, Idle
  <2>2. QED
    BY <1>1, <2>1 DEF Sure
<1>5. CASE Approve(p, c)
  <2>1. Clear
    BY <1>5, ActorsAssumption DEF Approve, Sure
  <2>2. asked'.call = None
    BY <1>5 DEF Approve, NotAsked
  <2> DEFINE d == [Idle EXCEPT !.pc = "preparing", !.next = "observing",
                               !.key = <<c, 1>>, !.approved = TRUE,
                               !.shown = asked.shown, !.before = file[c]]
             e == [Idle EXCEPT !.pc = "resuming"]
  <2>3. d.pc = "preparing" /\ e.pc = "resuming"
    BY DEF Idle
  <2>4. Goto(p, d) \/ Goto(p, e)
    BY <1>5, Zenon DEF Approve
  <2>5. local'[p] \in {d, e}
    <3> HIDE DEF d, e
    <3> QED
      BY <2>4, HereNow
  <2>6. QED
    BY <1>1, <2>1, <2>2, <2>3, <2>5 DEF Sure
<1>6. QED
  BY <1>3, <1>4, <1>5

LEMMA RunningSure ==
  ASSUME SafeInv, NEW p \in Procs, Sure(p),
         Prepare(p) \/ Mark(p) \/ RunTool(p) \/ CheckFile(p) \/ ReplaceFile(p)
  PROVE  Sure(p)'
<1> DEFINE c == local[p]
<1> p \in Actors
  BY DEF Actors
<1>1. Clear /\ asked' = asked /\ asked.call = None
  BY DEF Prepare, Mark, RunTool, CheckFile, ReplaceFile, Sure
<1>2. c \in Local /\ c.key \in Keys
  BY DEF SafeInv, TypeInv, WellFormed, InCall, Prepare, Mark, RunTool, CheckFile, ReplaceFile
<1>3. action \in [Keys -> Action]
  BY DEF SafeInv, TypeInv, TypeOK
<1>4. Clear'
  <2>1. CASE Prepare(p)
    <3>1. \A k \in Keys : action'[k].status \in {action[k].status, "prepared"}
      BY <1>2, <1>3, <2>1 DEF Prepare, NoAction
    <3>2. QED
      BY <1>1, <3>1, ClearKept
  <2>2. CASE Mark(p)
    <3>1. \A k \in Keys : action'[k].status \in {action[k].status, "executing"}
      BY <1>2, <1>3, <2>2 DEF Mark, Action
    <3>2. QED
      BY <1>1, <3>1, ClearKept
  <2>3. CASE RunTool(p) \/ CheckFile(p) \/ ReplaceFile(p)
    BY <1>1, <2>3, ClearSame DEF RunTool, CheckFile, ReplaceFile
  <2>4. QED
    BY <2>1, <2>2, <2>3
<1>5. ASSUME NEW verdict, local'[p] = Completing(c, verdict),
             verdict[1] = "uncertain" => verdict[2] # "transient"
      PROVE  Sure(p)'
  <2>1. local'[p].pc = "completing"
        /\ local'[p].status = verdict[1] /\ local'[p].result = verdict[2]
    BY <1>2, <1>5 DEF Completing, Local
  <2>2. QED
    BY <1>1, <1>4, <1>5, <2>1 DEF Sure
<1>6. ASSUME NEW d, local'[p] = d,
             d.pc \notin {"completing", "storing"}
      PROVE  Sure(p)'
  BY <1>1, <1>4, <1>6 DEF Sure
<1>7. CASE Prepare(p)
  <2>1. PICK d : d.pc \notin {"completing", "storing"} /\ Goto(p, d)
    <3>1. PICK row : Goto(p, Prepared(c, row))
      BY <1>7 DEF Prepare
    <3>2. Prepared(c, row).pc \in {"observing", "marking"}
      BY <1>2 DEF Prepared, Local
    <3>3. QED
      BY <3>1, <3>2
  <2>2. QED
    BY <1>6, <2>1, HereNow
<1>8. CASE Mark(p)
  BY <1>2, <1>6, <1>8, HereNow DEF Mark, Local
<1>9. CASE RunTool(p)
  <2>1. PICK verdict : /\ Goto(p, Completing(c, verdict))
                       /\ verdict[1] = "uncertain" => verdict[2] # "transient"
    BY <1>2, <1>9, UncertainIsNotTransient DEF RunTool
  <2>2. QED
    BY <1>5, <2>1, HereNow
<1>10. CASE CheckFile(p)
  <2>1. CASE StillAsFound(c)
    BY <1>2, <1>6, <1>10, <2>1, HereNow DEF CheckFile, Local
  <2>2. CASE ~StillAsFound(c)
    BY <1>5, <1>10, <2>2, HereNow DEF CheckFile
  <2>3. QED
    BY <2>1, <2>2
<1>11. CASE ReplaceFile(p)
  <2>1. PICK verdict : /\ Goto(p, Completing(c, verdict))
                       /\ verdict[1] = "uncertain" => verdict[2] # "transient"
    BY <1>2, <1>11, UncertainIsNotTransient DEF ReplaceFile
  <2>2. QED
    BY <1>5, <2>1, HereNow
<1>12. QED
  BY <1>7, <1>8, <1>9, <1>10, <1>11

LEMMA CompletionSure ==
  ASSUME SafeInv, NEW p \in Procs, Sure(p), CompleteRead(p) \/ CompleteWrite(p) \/ Observe(p)
  PROVE  Sure(p)'
<1> DEFINE c == local[p]
<1> p \in Actors
  BY DEF Actors
<1>1. asked' = asked /\ asked.call = None
  BY DEF CompleteRead, CompleteWrite, Observe, Sure
<1>2. c \in Local /\ c.key \in Keys
  BY DEF SafeInv, TypeInv, WellFormed, InCall, CompleteRead, CompleteWrite, Observe
<1>3. action \in [Keys -> Action]
  BY DEF SafeInv, TypeInv, TypeOK
<1>4. CASE CompleteRead(p)
  <2>1. Clear' <=> Clear
    BY <1>4, ClearSame DEF CompleteRead
  <2>2. CASE action[c.key].status \in Settled
    <3> DEFINE d == Completed(c, action[c.key].result)
    <3>0. Goto(p, d) /\ d.pc = c.next
      <4>1. action[c.key].result \in Results \cup {None} /\ WellFormed(c)
        BY <1>2, <1>3 DEF Action, SafeInv, TypeInv
      <4>2. d.pc = c.next
        BY <1>2, <4>1, CompletedWellFormed
      <4>3. QED
        BY <1>4, <2>2, <4>2 DEF CompleteRead
    <3>1. local'[p].pc = c.next
      <4> HIDE DEF d
      <4> QED
        BY <3>0, HereNow
    <3>2. QED
      BY <1>1, <1>2, <1>4, <2>1, <3>1 DEF CompleteRead, Sure, Local
  <2>3. CASE action[c.key].status \notin Settled
    <3>1. local'[p].pc = "storing" /\ local'[p].next = c.next
          /\ local'[p].status = c.status /\ local'[p].result = c.result
      BY <1>2, <1>4, <2>3, HereNow DEF CompleteRead, Local
    <3>2. QED
      BY <1>1, <1>4, <2>1, <3>1 DEF CompleteRead, Sure
  <2>4. QED
    BY <2>2, <2>3
<1>5. CASE CompleteWrite(p)
  <2>1. /\ local'[p].pc = c.next
        /\ c.next = "observing" => local'[p].result = c.result
    <3>1. WellFormed(c) /\ c.result \in Results \cup {None}
      BY <1>5 DEF SafeInv, TypeInv, WellFormed, CompleteWrite
    <3>2. local'[p] = Completed(c, c.result)
      BY <1>5, HereNow DEF CompleteWrite
    <3>3. QED
      BY <1>2, <3>1, <3>2, CompletedWellFormed
  <2>2. c.next \in {"recovering", "observing"}
    BY <1>2 DEF Local
  <2>3. \A k \in Keys : action'[k].status \in {action[k].status, c.status}
    BY <1>2, <1>3, <1>5 DEF CompleteWrite, Action
  <2>4. ASSUME c.next = "observing", c.result = "transient" PROVE Clear'
    <3>1. Clear /\ c.status # "uncertain"
      BY <1>5, <2>4 DEF CompleteWrite, Sure
    <3>2. QED
      BY <2>3, <3>1, ClearKept
  <2>5. QED
    BY <1>1, <2>1, <2>2, <2>4 DEF Sure
<1>6. CASE Observe(p)
  <2>1. Clear' <=> Clear
    BY <1>6, ClearSame DEF Observe
  <2>2. CASE Retries(c)
    <3> DEFINE d == [c EXCEPT !.pc = "preparing", !.key = <<@[1], @[2] + 1>>]
    <3>0. Goto(p, d) /\ d.pc = "preparing"
      BY <1>2, <1>6, <2>2 DEF Observe, Local
    <3>1. local'[p].pc = "preparing"
      <4> HIDE DEF d
      <4> QED
        BY <3>0, HereNow
    <3>2. Clear
      BY <1>6, <2>2 DEF Observe, Retries, Sure
    <3>3. QED
      BY <1>1, <2>1, <3>1, <3>2 DEF Sure
  <2>3. CASE ~Retries(c) /\ c.approved
    <3>1. Goto(p, [Idle EXCEPT !.pc = "resuming"])
      BY <1>6, <2>3 DEF Observe
    <3>2. local'[p].pc = "resuming"
      BY <3>1, HereNow DEF Idle
    <3>3. QED
      BY <1>1, <3>2 DEF Sure
  <2>4. CASE ~Retries(c) /\ ~c.approved
    <3>1. Checked(p)
      BY <1>6, <2>4 DEF Observe
    <3>2. local'[p] = IF Clear THEN Ready ELSE Idle
      BY <3>1, HereNow DEF Checked, Clear
    <3>3. Ready.pc = "ready" /\ Idle.pc = "idle"
      BY DEF Ready, Idle
    <3>4. QED
      BY <1>1, <2>1, <3>2, <3>3 DEF Sure
  <2>5. QED
    BY <2>2, <2>3, <2>4
<1>7. QED
  BY <1>4, <1>5, <1>6

\* What others do leaves a process what it knows: an operator makes no action uncertain.
LEMMA OthersSure ==
  ASSUME SafeInv, NEW p \in Procs, Sure(p), NEW o \in Operators,
         \/ \E k \in Keys, outcome \in {"succeeded", "failed"} : ResolveRead(o, k, outcome)
         \/ ResolveWrite(o)
         \/ Leave(o)
  PROVE  Sure(p)'
<1> o \in Actors /\ p \in Actors /\ p # o
  BY ActorsAssumption DEF Actors
<1>1. asked' = asked
  BY DEF ResolveRead, ResolveWrite, Leave
<1>2. local'[p] = local[p]
  BY HereNow DEF ResolveRead, ResolveWrite, Leave
<1>3. Clear => Clear'
  <2>1. CASE ResolveWrite(o)
    <3>1. local[o].key \in Keys /\ local[o].status # "uncertain"
      BY <2>1 DEF ResolveWrite, SafeInv, TypeInv, WellFormed
    <3>2. action \in [Keys -> Action]
      BY DEF SafeInv, TypeInv, TypeOK
    <3>3. \A k \in Keys : action'[k].status \in {action[k].status, local[o].status}
      BY <2>1, <3>1, <3>2 DEF ResolveWrite, Action
    <3>4. QED
      BY <3>1, <3>3, ClearKept
  <2>2. CASE ~ResolveWrite(o)
    BY <2>2, ClearSame DEF ResolveRead, Leave
  <2>3. QED
    BY <2>1, <2>2
<1>4. QED
  BY <1>1, <1>2, <1>3 DEF Sure

\* With one process at a time in the session nothing is run, automatically or approved,
\* while an action is uncertain: _run looks for uncertain actions after it has settled
\* the open ones and after every tool call, and only what it ran itself becomes one.
THEOREM NothingRunsOnDoubt ==
  ASSUME \A p, q \in Procs : p = q
  PROVE  Spec => []UncertainBlocks
<1>1. Init => \A p \in Procs : Sure(p)
  <2> SUFFICES ASSUME Init, NEW p \in Procs PROVE Sure(p)
    OBVIOUS
  <2>1. local[p].pc = "idle" /\ asked.call = None
    BY DEF Init, Idle, NotAsked
  <2>2. QED
    BY <2>1 DEF Sure
<1>2. ASSUME SafeInv, \A p \in Procs : Sure(p), [Next]_vars PROVE \A p \in Procs : Sure(p)'
  <2> SUFFICES ASSUME NEW p \in Procs PROVE Sure(p)'
    OBVIOUS
  <2> p \in Actors /\ Sure(p)
    BY <1>2 DEF Actors
  <2>1. ASSUME NEW q \in Procs, Turn(q) PROVE Sure(p)'
    <3>1. q = p /\ Turn(p)
      BY <2>1
    <3>2. CASE Leave(p)
      <4>1. local'[p] = Idle /\ asked' = asked /\ (Clear' <=> Clear)
        BY <1>2, <3>2, HereNow, ClearSame DEF Leave
      <4>2. local'[p].pc = "idle"
        BY <4>1 DEF Idle
      <4>3. QED
        BY <4>1, <4>2 DEF Sure
    <3>3. QED
      BY <1>2, <3>1, <3>2, RecoverySure, BeginningSure, RunningSure, CompletionSure DEF Turn
  <2>2. ASSUME NEW o \in Operators,
               \/ \E k \in Keys, outcome \in {"succeeded", "failed"} : ResolveRead(o, k, outcome)
               \/ ResolveWrite(o)
               \/ Leave(o)
        PROVE  Sure(p)'
    BY <1>2, <2>2, OthersSure
  <2>3. ASSUME NEW c \in Calls, NEW content \in {"old", "other"}, EditFile(c, content)
        PROVE  Sure(p)'
    BY <2>3, ClearSame DEF EditFile, Sure
  <2>4. CASE UNCHANGED vars
    BY <2>4, ClearSame DEF vars, Sure
  <2>5. QED
    BY <1>2, <2>1, <2>2, <2>3, <2>4 DEF Next
<1>3. SureInv => UncertainBlocks
  BY DEF SureInv, Sure, UncertainBlocks, Clear
<1>4. Init => SureInv
  BY <1>1, SafeInit DEF SureInv
<1>5. SureInv /\ [Next]_vars => SureInv'
  BY <1>2, SafeStep DEF SureInv
<1>6. QED
  BY <1>3, <1>4, <1>5, PTL DEF Spec

-----------------------------------------------------------------------------
\* Whoever is past the row of its action was there before, or has just come to it.
LEMMA MovesOn ==
  ASSUME SafeInv, [Next]_vars, NEW p \in Procs,
         local'[p].pc \in {"marking", "running", "replacing"}
  PROVE  /\ local'[p].key = local[p].key
         /\ \/ local[p].pc \in {"marking", "running", "replacing"}
            \/ local[p].pc = "preparing" /\ local'[p].pc = "marking"
<1> DEFINE c == local[p]
<1> p \in Actors
  BY DEF Actors
<1>1. WellFormed(c) /\ c \in Local /\ local \in [Actors -> Local]
  BY DEF SafeInv, TypeInv, TypeOK, WellFormed, Actors
<1>2. CASE local'[p] = local[p]
  BY <1>2
<1>3. CASE local'[p] # local[p]
  <2>1. ASSUME NEW a \in Actors, NEW d, Goto(a, d) PROVE a = p /\ local'[p] = d
    BY <1>1, <1>3, <2>1 DEF Goto
  <2>2. ASSUME NEW q \in Procs, Turn(q), q # p PROVE FALSE
    <3>1. q \in Actors
      BY DEF Actors
    <3>2. QED
      BY <2>1, <2>2, <3>1, Zenon DEF Turn, List, Recover, EndRecovery, Checked, Begin,
            Ask, Approve, Prepare, Mark, RunTool, CheckFile, ReplaceFile, CompleteRead,
            CompleteWrite, Observe, Leave
  <2>3. ASSUME NEW o \in Operators, NEW d, Goto(o, d) PROVE FALSE
    BY <2>1, <2>3, ActorsAssumption DEF Actors
  <2>4. Turn(p)
    BY <1>3, <2>2, <2>3, Zenon DEF Next, ResolveRead, ResolveWrite, Leave, EditFile, vars
  <2>5. ASSUME NEW v PROVE Completing(c, v).pc = "completing"
    BY <1>1 DEF Completing, Local
  <2>6. ASSUME NEW r PROVE Completed(c, r).pc \in {"recovering", "observing"}
    <3>1. /\ [Idle EXCEPT !.pc = "recovering", !.todo = c.todo].pc = "recovering"
          /\ [c EXCEPT !.pc = "observing", !.status = None, !.result = r].pc = "observing"
      BY <1>1 DEF Local, Idle
    <3>2. QED
      BY <3>1 DEF Completed
  <2>7. CASE Prepare(p)
    <3>1. PICK row : Goto(p, Prepared(c, row)) /\ c.pc = "preparing"
      BY <2>7 DEF Prepare
    <3>2. /\ [c EXCEPT !.pc = "marking"].pc = "marking"
          /\ [c EXCEPT !.pc = "marking"].key = c.key
          /\ \A r : [c EXCEPT !.pc = "observing", !.result = r].pc = "observing"
      BY <1>1 DEF Local
    <3>3. \/ Prepared(c, row) = [c EXCEPT !.pc = "marking"]
          \/ \E r : Prepared(c, row) = [c EXCEPT !.pc = "observing", !.result = r]
      BY DEF Prepared
    <3> HIDE DEF c
    <3>4. local'[p] = Prepared(c, row)
      BY <2>1, <3>1
    <3>5. QED
      BY <3>1, <3>2, <3>3, <3>4 DEF c
  <2>8. CASE Mark(p)
    BY <1>1, <2>1, <2>8 DEF Mark, Local
  <2>9. CASE CheckFile(p)
    BY <1>1, <2>1, <2>5, <2>9 DEF CheckFile, Local
  <2>10. CASE RunTool(p) \/ ReplaceFile(p)
    BY <2>1, <2>5, <2>10 DEF RunTool, ReplaceFile
  <2>11. CASE CompleteRead(p) \/ CompleteWrite(p)
    <3>1. [c EXCEPT !.pc = "storing"].pc = "storing"
      BY <1>1 DEF Local
    <3>2. QED
      BY <2>1, <2>6, <2>11, <3>1 DEF CompleteRead, CompleteWrite
  <2>12. CASE List(p) \/ EndRecovery(p) \/ Leave(p) \/ \E d \in Calls : Ask(p, d)
    <3>1. PICK d : Goto(p, d) /\ d.pc \in {"recovering", "ready", "idle"}
      <4>1. CASE List(p)
        <5> DEFINE e == [Idle EXCEPT !.pc = "recovering",
                !.todo = {<<k, action[k].status>> :
                            k \in {j \in Keys : action[j].status \in Unfinished}}]
        <5>1. e.pc = "recovering"
          BY DEF Idle
        <5>2. Goto(p, e)
          BY <4>1, Zenon DEF List
        <5> HIDE DEF e
        <5>3. QED
          BY <5>1, <5>2
      <4>2. CASE EndRecovery(p)
        BY <4>2 DEF EndRecovery, Checked, Idle, Ready
      <4>3. CASE Leave(p) \/ \E d \in Calls : Ask(p, d)
        BY <4>3 DEF Leave, Ask, Idle
      <4>4. QED
        BY <2>12, <4>1, <4>2, <4>3
    <3>2. QED
      BY <2>1, <3>1
  <2>13. CASE \E k \in Keys, seen \in Unfinished : Recover(p, k, seen)
    <3>1. PICK k \in Keys, seen \in Unfinished : Recover(p, k, seen)
      BY <2>13
    <3> DEFINE d == [c EXCEPT !.key = k, !.todo = @ \ {<<k, seen>>}]
    <3>3. \A v : Completing(d, v).pc = "completing"
      BY <1>1 DEF Completing, Local
    <3>4. QED
      BY <2>1, <3>1, <3>3 DEF Recover
  <2>14. CASE \E d \in Calls : Begin(p, d) \/ Approve(p, d)
    <3>1. PICK x \in Calls : Begin(p, x) \/ Approve(p, x)
      BY <2>14
    <3>2. PICK d : Goto(p, d) /\ d.pc \in {"preparing", "resuming"}
      <4>1. CASE Begin(p, x)
        <5> DEFINE e == [c EXCEPT !.pc = "preparing", !.next = "observing",
                                  !.key = <<x, 1>>, !.shown = file[x], !.before = file[x]]
        <5>1. e.pc = "preparing"
          BY <1>1 DEF Local
        <5>2. Goto(p, e)
          BY <4>1, Zenon DEF Begin
        <5> HIDE DEF e
        <5>3. QED
          BY <5>1, <5>2
      <4>2. CASE Approve(p, x)
        <5> DEFINE e == [Idle EXCEPT !.pc = "preparing", !.next = "observing",
                                     !.key = <<x, 1>>, !.approved = TRUE,
                                     !.shown = asked.shown, !.before = file[x]]
                   f == [Idle EXCEPT !.pc = "resuming"]
        <5>1. e.pc = "preparing" /\ f.pc = "resuming"
          BY DEF Idle
        <5>2. Goto(p, e) \/ Goto(p, f)
          BY <4>2, Zenon DEF Approve
        <5> HIDE DEF e, f
        <5>3. QED
          BY <5>1, <5>2
      <4>3. QED
        BY <3>1, <4>1, <4>2
    <3>3. QED
      BY <2>1, <3>2
  <2>15. CASE Observe(p)
    <3>1. PICK d : Goto(p, d) /\ d.pc \in {"preparing", "resuming", "ready", "idle"}
      <4> DEFINE e == [c EXCEPT !.pc = "preparing", !.key = <<@[1], @[2] + 1>>]
                 f == [Idle EXCEPT !.pc = "resuming"]
      <4>1. e.pc = "preparing" /\ f.pc = "resuming" /\ Ready.pc = "ready" /\ Idle.pc = "idle"
        BY <1>1 DEF Local, Idle, Ready
      <4>2. Goto(p, e) \/ Goto(p, f) \/ Goto(p, Ready) \/ Goto(p, Idle)
        BY <2>15, Zenon DEF Observe, Checked
      <4> HIDE DEF e, f
      <4>3. QED
        BY <4>1, <4>2
    <3>2. QED
      BY <2>1, <3>1
  <2>16. QED
    BY <2>4, <2>7, <2>8, <2>9, <2>10, <2>11, <2>12, <2>13, <2>14, <2>15 DEF Turn
<1>4. QED
  BY <1>2, <1>3

\* What the place the one process has reached says of the runs: none of what it has
\* not run yet.
Unrun(p) ==
  local[p].pc \in {"marking", "running", "replacing"} => ran[local[p].key] = 0

OnceInv == SafeInv /\ AtMostOnce /\ \A p \in Procs : Unrun(p)

\* With one process at a time in the session no action is run twice, though the process
\* may die at any point and another follow it.
THEOREM RunAtMostOnce ==
  ASSUME \A p, q \in Procs : p = q
  PROVE  Spec => []AtMostOnce
<1>1. Init => OnceInv
  <2> SUFFICES ASSUME Init PROVE OnceInv
    OBVIOUS
  <2>1. AtMostOnce
    BY DEF Init, AtMostOnce
  <2>2. \A p \in Procs : Unrun(p)
    BY DEF Init, Unrun, Idle
  <2>3. QED
    BY <2>1, <2>2, SafeInit DEF OnceInv
<1>2. OnceInv /\ [Next]_vars => OnceInv'
  <2> SUFFICES ASSUME OnceInv, [Next]_vars PROVE OnceInv'
    OBVIOUS
  <2>1. SafeInv /\ SafeInv'
    BY SafeStep DEF OnceInv
  <2>2. ran \in [Keys -> Nat]
    BY <2>1 DEF SafeInv, TypeInv, TypeOK
  <2>3. CASE \E p \in Procs : RunTool(p) \/ ReplaceFile(p)
    <3>1. PICK p \in Procs : RunTool(p) \/ ReplaceFile(p)
      BY <2>3
    <3> DEFINE c == local[p]
    <3> p \in Actors
      BY DEF Actors
    <3>2. c \in Local /\ c.key \in Keys
      BY <2>1, <3>1 DEF SafeInv, TypeInv, WellFormed, InCall, RunTool, ReplaceFile
    <3>3. ran[c.key] = 0
      BY <3>1 DEF OnceInv, Unrun, RunTool, ReplaceFile
    <3>4. AtMostOnce'
      <4>1. \A k \in Keys : ran'[k] \in {ran[k], 1}
        BY <2>2, <3>1, <3>2, <3>3 DEF RunTool, ReplaceFile, Count
      <4>2. QED
        BY <4>1 DEF OnceInv, AtMostOnce
    <3>5. local'[p].pc = "completing"
      <4>1. PICK v : Goto(p, Completing(c, v))
        BY <3>1 DEF RunTool, ReplaceFile
      <4>2. Completing(c, v).pc = "completing"
        BY <3>2 DEF Completing, Local
      <4>3. QED
        BY <2>1, <4>1, <4>2, HereNow
    <3>6. \A q \in Procs : Unrun(q)'
      BY <3>5 DEF Unrun
    <3>7. QED
      BY <2>1, <3>4, <3>6 DEF OnceInv
  <2>4. CASE ~\E p \in Procs : RunTool(p) \/ ReplaceFile(p)
    <3>1. ran' = ran
      BY <2>4, Zenon DEF Next, Turn, List, Recover, EndRecovery, Begin, Ask, Approve, Prepare,
            Mark, CheckFile, CompleteRead, CompleteWrite, Observe, Leave, ResolveRead,
            ResolveWrite, EditFile, vars
    <3>2. AtMostOnce'
      BY <3>1 DEF OnceInv, AtMostOnce
    <3>3. ASSUME NEW p \in Procs PROVE Unrun(p)'
      <4> p \in Actors
        BY DEF Actors
      <4> SUFFICES ASSUME local'[p].pc \in {"marking", "running", "replacing"}
                   PROVE  ran'[local'[p].key] = 0
        BY DEF Unrun
      <4>1. CASE local[p].pc = "preparing" /\ local'[p].pc = "marking"
        <5>1. /\ local[p].key \in Keys
              /\ action[local[p].key].status \in {"absent", "prepared"}
          BY <2>1, <4>1, GoesOn
        <5>2. SafeRow(local[p].key, tool, action[local[p].key], ran[local[p].key])
          BY <2>1, <5>1 DEF SafeInv, SafeRows
        <5>3. local'[p].key = local[p].key
          BY <2>1, <4>1, MovesOn
        <5>4. QED
          BY <3>1, <5>1, <5>2, <5>3 DEF SafeRow
      <4>2. CASE ~(local[p].pc = "preparing" /\ local'[p].pc = "marking")
        <5>1. /\ local[p].pc \in {"marking", "running", "replacing"}
              /\ local'[p].key = local[p].key
          BY <2>1, <4>2, MovesOn
        <5>2. QED
          BY <3>1, <5>1 DEF OnceInv, Unrun
      <4>3. QED
        BY <4>1, <4>2
    <3>4. QED
      BY <2>1, <3>2, <3>3 DEF OnceInv
  <2>5. QED
    BY <2>3, <2>4
<1>3. OnceInv => AtMostOnce
  BY DEF OnceInv
<1>4. QED
  BY <1>1, <1>2, <1>3, PTL DEF Spec

=============================================================================
