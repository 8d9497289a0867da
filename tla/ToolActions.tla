----------------------------- MODULE ToolActions -----------------------------
(***************************************************************************)
(* The tool actions of one session: rows that record, before a tool runs,  *)
(* that it is about to, so that a side effect is never repeated blindly.   *)
(* AgentLoop prepares, marks, runs and completes an action; every turn     *)
(* first settles the actions an earlier turn left open, from what can be   *)
(* seen of their effects; an operator may settle one by hand.              *)
(*                                                                         *)
(* The processes of a session share the rows. complete_tool_action and     *)
(* resolve_tool_action read a row and write it later (a SELECT takes no    *)
(* lock in sqlite3), so other processes act between; the remaining methods *)
(* write first, or once, and are one step. Within one turn, calls follow   *)
(* one another. The task is left out: that a turn may begin at any time    *)
(* and end at any point stands for every way its task drives or stops it.  *)
(***************************************************************************)
EXTENDS Naturals, FiniteSets

CONSTANTS
  Calls,        \* tool call ids the model gives, which may come again
  Procs,        \* processes that run turns of the session
  Operators,    \* processes that settle actions by hand
  MaxRetries,   \* TaskBudget.max_retries
  None          \* Python's None

ASSUME RetriesAssumption == MaxRetries \in Nat
ASSUME ActorsAssumption == Procs \cap Operators = {} /\ None \notin Calls \cup Procs

VARIABLES
  tool,     \* the kind of tool each call is for
  action,   \* table tool_actions, by idempotency key
  audit,    \* table tool_runs: the result recorded for each action
  file,     \* the content of the file a call edits
  asked,    \* the call that waits for approval, and the content shown
  local,    \* where each process is
  ran       \* history: how often the tool of each action was run

vars == <<tool, action, audit, file, asked, local, ran>>

\* "edit" stands for file_write and replace_in_file, "once" for side effects that must
\* not be repeated (shell, delegate_task), "again" for those that may (todo_write),
\* "read" for tools without side effect.
Kinds == {"read", "edit", "once", "again"}

SideEffect == {"edit", "once", "again"}

MayRetry == {"read", "again"}

Unfinished == {"prepared", "executing"}

Settled == {"succeeded", "failed", "uncertain"}

\* What a result says: done, refused or failed for good, failed in passing, settled
\* by recovery (not started, not read, not installed, cannot tell), or by hand.
Results == {"ok", "error", "transient", "not_started", "not_read",
            "not_installed", "maybe", "human"}

ASSUME NoneAssumption == None \notin Settled \cup Results

\* A file as the call found it, as the call leaves it, and as neither.
Contents == {"old", "new", "other"}

\* session, agent and task being fixed, a call and an attempt make the key.
Keys == Calls \X (1 .. MaxRetries + 1)

Action == [status : {"absent"} \cup Unfinished \cup Settled,
           result : Results \cup {None},
           before : Contents,                    \* recovery_json: before_sha256
           resolution : {"succeeded", "failed", None}]

NoAction == [status |-> "absent", result |-> None, before |-> "old", resolution |-> None]

NotAsked == [call |-> None, shown |-> "old"]

\* next is where a process goes on after complete_tool_action.
Idle == [pc |-> "idle", next |-> "recovering", key |-> None, approved |-> FALSE,
         shown |-> "old", before |-> "old", status |-> None, result |-> None, todo |-> {}]

Init ==
  /\ tool \in [Calls -> Kinds]
  /\ action = [k \in Keys |-> NoAction]
  /\ audit = [k \in Keys |-> None]
  /\ file = [c \in Calls |-> "old"]
  /\ asked = NotAsked
  /\ local = [p \in Procs \cup Operators |-> Idle]
  /\ ran = [k \in Keys |-> 0]

Goto(p, c) == local' = [local EXCEPT ![p] = c]

Ready == [Idle EXCEPT !.pc = "ready"]

Kind(k) == tool[k[1]]

Uncertain == {k \in Keys : action[k].status = "uncertain"}

-----------------------------------------------------------------------------
\* _recover_pending_tool_actions: the open actions and their status as listed. A
\* turn begins with it, and so does what follows an approved call.
List(p) ==
  /\ local[p].pc \in {"idle", "resuming"}
  /\ Goto(p, [Idle EXCEPT !.pc = "recovering",
                !.todo = {<<k, action[k].status>> :
                            k \in {j \in Keys : action[j].status \in Unfinished}}])
  /\ asked' = NotAsked
  /\ UNCHANGED <<tool, action, audit, file, ran>>

\* Faulty: an edit that was begun is taken for done.
ClassifiedAsDone(k, seen) ==
  IF seen = "prepared" THEN <<"failed", "not_started">>
  ELSE IF Kind(k) = "edit" THEN <<"succeeded", "ok">>
  ELSE <<"failed", "not_read">>

\* What recovery makes of an action: an edit is judged by the file's content.
Classified(k, seen) ==
  IF seen = "prepared" THEN <<"failed", "not_started">>
  ELSE CASE Kind(k) = "read"            -> <<"failed", "not_read">>
         [] Kind(k) \in {"once", "again"} -> <<"uncertain", "maybe">>
         [] Kind(k) = "edit" ->
              IF file[k[1]] = "new" THEN <<"succeeded", "ok">>
              ELSE IF file[k[1]] = action[k].before THEN <<"failed", "not_installed">>
              ELSE <<"uncertain", "maybe">>

\* What was inspected is used up.
Completing(c, verdict) == [c EXCEPT !.pc = "completing", !.status = verdict[1],
                                    !.result = verdict[2], !.shown = "old", !.before = "old"]

\* Back to the other open actions, or on with the result.
Completed(c, r) ==
  IF c.next = "recovering" THEN [Idle EXCEPT !.pc = "recovering", !.todo = c.todo]
  ELSE [c EXCEPT !.pc = "observing", !.status = None, !.result = r]

Recover(p, k, seen) ==
  /\ local[p].pc = "recovering" /\ <<k, seen>> \in local[p].todo
  /\ Goto(p, Completing([local[p] EXCEPT !.key = k, !.todo = @ \ {<<k, seen>>}],
                        Classified(k, seen)))
  /\ UNCHANGED <<tool, action, audit, file, asked, ran>>

\* Faulty: the turn goes on whatever is uncertain.
Unchecked(p) == Goto(p, Ready)

\* An uncertain action of the session ends the turn.
Checked(p) == Goto(p, IF Uncertain = {} THEN Ready ELSE Idle)

EndRecovery(p) ==
  /\ local[p].pc = "recovering" /\ local[p].todo = {}
  /\ Checked(p)
  /\ UNCHANGED <<tool, action, audit, file, asked, ran>>

-----------------------------------------------------------------------------
\* _execute_tool_call up to its first attempt, the user having agreed at once where
\* approval is asked. An edit is inspected now. Nothing says that the id of the call is
\* new, or that no other process has begun it.
Begin(p, c) ==
  /\ local[p].pc = "ready"
  /\ Goto(p, [local[p] EXCEPT !.pc = "preparing", !.next = "observing",
                              !.key = <<c, 1>>, !.shown = file[c], !.before = file[c]])
  /\ UNCHANGED <<tool, action, audit, file, asked, ran>>

\* The call waits for approval in the store, and the turn ends.
Ask(p, c) ==
  /\ local[p].pc = "ready"
  /\ asked = NotAsked
  /\ tool[c] \in {"edit", "once"}
  /\ asked' = [call |-> c, shown |-> file[c]]
  /\ Goto(p, Idle)
  /\ UNCHANGED <<tool, action, audit, file, ran>>

\* An approved call is inspected again and has to be what was shown. A shell command
\* cannot be: ShellTool has no inspect.
AsShown(c) == tool[c] = "edit" /\ file[c] = asked.shown

\* handle_event with user_approved: the tool runs before the turn that recovers. What
\* is not as shown is refused, without an action; so is a shell command, by any process.
Approve(p, c) ==
  /\ local[p] = Idle /\ asked.call = c
  /\ Goto(p, IF AsShown(c)
               THEN [Idle EXCEPT !.pc = "preparing", !.next = "observing",
                                 !.key = <<c, 1>>, !.approved = TRUE,
                                 !.shown = asked.shown, !.before = file[c]]
               ELSE [Idle EXCEPT !.pc = "resuming"])
  /\ asked' = NotAsked
  /\ UNCHANGED <<tool, action, audit, file, ran>>

\* Faulty: an action that is being run is run again.
RunAgain(c, row) ==
  IF row.status \in Settled
    THEN [c EXCEPT !.pc = "observing", !.result = row.result]
    ELSE [c EXCEPT !.pc = "marking"]

\* What prepare_tool_action returned decides: a settled action is not run again, nor
\* is one that is being run (or was, when its process died).
Prepared(c, row) ==
  IF row.status \in Settled THEN [c EXCEPT !.pc = "observing", !.result = row.result]
  ELSE IF row.status = "executing" THEN [c EXCEPT !.pc = "observing", !.result = "error"]
  ELSE [c EXCEPT !.pc = "marking"]

\* INSERT OR IGNORE, then SELECT, by the idempotency key.
Prepare(p) ==
  LET c == local[p]
      row == IF action[c.key].status = "absent"
               THEN [NoAction EXCEPT !.status = "prepared", !.before = c.before]
               ELSE action[c.key]
  IN
  /\ c.pc = "preparing"
  /\ action' = [action EXCEPT ![c.key] = row]
  /\ Goto(p, Prepared(c, row))
  /\ UNCHANGED <<tool, audit, file, asked, ran>>

\* UPDATE ... WHERE status = 'prepared'; whether it did anything is not looked at.
Mark(p) ==
  LET c == local[p] IN
  /\ c.pc = "marking"
  /\ action' = IF action[c.key].status = "prepared"
                 THEN [action EXCEPT ![c.key].status = "executing"] ELSE action
  /\ Goto(p, [c EXCEPT !.pc = "running"])
  /\ UNCHANGED <<tool, audit, file, asked, ran>>

Count(k) == ran' = [ran EXCEPT ![k] = @ + 1]

\* A tool other than an edit runs. An exception leaves its side effect unknown.
RunTool(p) ==
  LET c == local[p] IN
  /\ c.pc = "running" /\ Kind(c.key) # "edit"
  /\ Count(c.key)
  /\ \/ Goto(p, Completing(c, <<"succeeded", "ok">>))
     \/ \E r \in {"error", "transient"} : Goto(p, Completing(c, <<"failed", r>>))
     \/ /\ Kind(c.key) \in SideEffect
        /\ Goto(p, Completing(c, Classified(c.key, "executing")))
  /\ UNCHANGED <<tool, action, audit, file, asked>>

\* Faulty: the file is not looked at again.
NotLookedAt(c) == TRUE

StillAsFound(c) == file[c.key[1]] = c.before

\* An edit looks whether the file still is what was inspected,
CheckFile(p) ==
  LET c == local[p] IN
  /\ c.pc = "running" /\ Kind(c.key) = "edit"
  /\ Goto(p, IF StillAsFound(c) THEN [c EXCEPT !.pc = "replacing"]
                                ELSE Completing(c, <<"failed", "error">>))
  /\ UNCHANGED <<tool, action, audit, file, asked, ran>>

\* and replaces it as a whole, or raises and is classified as recovery would.
ReplaceFile(p) ==
  LET c == local[p] IN
  /\ c.pc = "replacing"
  /\ \/ /\ file' = [file EXCEPT ![c.key[1]] = "new"]
        /\ Count(c.key)
        /\ Goto(p, Completing(c, <<"succeeded", "ok">>))
     \/ /\ Goto(p, Completing(c, Classified(c.key, "executing")))
        /\ UNCHANGED <<file, ran>>
  /\ UNCHANGED <<tool, action, audit, asked>>

-----------------------------------------------------------------------------
\* complete_tool_action: what is settled stays as it is, and its result is returned.
CompleteRead(p) ==
  LET c == local[p]  row == action[c.key] IN
  /\ c.pc = "completing"
  /\ Goto(p, IF row.status \in Settled
               THEN Completed(c, row.result)
               ELSE [c EXCEPT !.pc = "storing"])
  /\ UNCHANGED <<tool, action, audit, file, asked, ran>>

\* Faulty: the result is recorded again.
AuditLast(k, r) == r

\* INSERT OR IGNORE into tool_runs, unique by action.
AuditOnce(k, r) == IF audit[k] = None THEN r ELSE audit[k]

\* The UPDATE goes by id alone.
CompleteWrite(p) ==
  LET c == local[p] IN
  /\ c.pc = "storing"
  /\ action' = [action EXCEPT ![c.key].status = c.status, ![c.key].result = c.result]
  /\ audit' = [audit EXCEPT ![c.key] = AuditOnce(c.key, c.result)]
  /\ Goto(p, Completed(c, c.result))
  /\ UNCHANGED <<tool, file, asked, ran>>

\* Faulty: one attempt too many.
RetriesOneMore(c) ==
  c.result = "transient" /\ Kind(c.key) \in MayRetry /\ c.key[2] <= MaxRetries + 1

Retries(c) ==
  c.result = "transient" /\ Kind(c.key) \in MayRetry /\ c.key[2] <= MaxRetries

\* Another attempt, an action of its own; or the turn goes on, past a look for
\* uncertain actions. (An exhausted budget ends the turn, see Leave.)
Observe(p) ==
  LET c == local[p] IN
  /\ c.pc = "observing"
  /\ CASE Retries(c)               -> Goto(p, [c EXCEPT !.pc = "preparing",
                                                     !.key = <<@[1], @[2] + 1>>])
       [] ~Retries(c) /\ c.approved -> Goto(p, [Idle EXCEPT !.pc = "resuming"])
       [] OTHER                    -> Checked(p)
  /\ UNCHANGED <<tool, action, audit, file, asked, ran>>

\* The turn ends, is interrupted, or its process dies. (An open transaction is
\* rolled back; nothing else is undone.)
Leave(p) ==
  /\ local[p] # Idle
  /\ Goto(p, Idle)
  /\ UNCHANGED <<tool, action, audit, file, asked, ran>>

-----------------------------------------------------------------------------
\* What the first read asks for, and the UPDATE asks for again.
Undecided(k) ==
  /\ action[k].status \in Unfinished \cup {"uncertain"}
  /\ action[k].resolution = None

\* Faulty: the UPDATE goes by id alone.
AnyRow(k) == TRUE

\* UPDATE ... WHERE status IN (...) AND resolution_json IS NULL.
StillOpen(k) == Undecided(k)

\* resolve_tool_action; the command offers actions with a side effect only.
ResolveRead(o, k, outcome) ==
  /\ local[o] = Idle
  /\ Kind(k) \in SideEffect
  /\ Undecided(k)
  /\ ~(action[k].status = "prepared" /\ outcome = "succeeded")
  /\ Goto(o, [Idle EXCEPT !.pc = "resolving", !.key = k, !.status = outcome])
  /\ UNCHANGED <<tool, action, audit, file, asked, ran>>

ResolveWrite(o) ==
  LET c == local[o] IN
  /\ c.pc = "resolving"
  /\ action' = IF StillOpen(c.key)
                 THEN [action EXCEPT ![c.key].status = c.status, ![c.key].result = "human",
                                     ![c.key].resolution = c.status]
                 ELSE action
  /\ Goto(o, Idle)
  /\ UNCHANGED <<tool, audit, file, asked, ran>>

\* Someone else edits the file, or puts it back.
EditFile(c, content) ==
  /\ tool[c] = "edit" /\ file[c] # content
  /\ file' = [file EXCEPT ![c] = content]
  /\ UNCHANGED <<tool, action, audit, asked, local, ran>>

Turn(p) ==
  \/ List(p)
  \/ \E k \in Keys, seen \in Unfinished : Recover(p, k, seen)
  \/ EndRecovery(p)
  \/ \E c \in Calls : Begin(p, c) \/ Ask(p, c) \/ Approve(p, c)
  \/ Prepare(p)
  \/ Mark(p)
  \/ RunTool(p)
  \/ CheckFile(p)
  \/ ReplaceFile(p)
  \/ CompleteRead(p)
  \/ CompleteWrite(p)
  \/ Observe(p)
  \/ Leave(p)

Next ==
  \/ \E p \in Procs : Turn(p)
  \/ \E o \in Operators :
       \/ \E k \in Keys, outcome \in {"succeeded", "failed"} : ResolveRead(o, k, outcome)
       \/ ResolveWrite(o)
       \/ Leave(o)
  \/ \E c \in Calls, content \in {"old", "other"} : EditFile(c, content)

Spec == Init /\ [][Next]_vars

-----------------------------------------------------------------------------
Local == [pc : {"idle", "resuming", "recovering", "ready", "preparing", "marking", "running",
                "replacing", "completing", "storing", "observing", "resolving"},
          next : {"recovering", "observing"}, key : Keys \cup {None},
          approved : BOOLEAN, shown : Contents, before : Contents,
          status : Settled \cup {None}, result : Results \cup {None},
          todo : SUBSET (Keys \X Unfinished)]

\* The rows and the processes have the shape the schema and the code give them.
TypeOK ==
  /\ tool \in [Calls -> Kinds]
  /\ action \in [Keys -> Action]
  /\ audit \in [Keys -> Results \cup {None}]
  /\ file \in [Calls -> Contents]
  /\ asked \in [call : Calls \cup {None}, shown : Contents]
  /\ local \in [Procs \cup Operators -> Local]
  /\ ran \in [Keys -> Nat]

\* Over turns, retries, deaths at any point and recoveries by other processes, nobody
\* goes on to run an action that has been run, by itself or by another, nor another
\* attempt of a call whose effect must not be repeated. (Two who are both past this
\* point before either runs the tool both run it: the result of Mark is not looked at.)
NoBlindRepeat ==
  [][\A p \in Procs :
       local[p].pc = "preparing" /\ local'[p].pc = "marking"
         => LET k == local[p].key IN
            ran[k] = 0 /\ (k[2] > 1 => Kind(k) \in MayRetry)]_vars

\* What is recorded as succeeded, and not by an operator, was run to its end, though
\* the process that recorded it may be another than the one that ran it.
SuccessIsReal ==
  \A k \in Keys :
    action[k].status = "succeeded" /\ action[k].resolution = None => ran[k] >= 1

\* When an edit is about to be installed, the file holds what the user was shown when
\* asked, were that days and processes ago: whoever changed it since, before or after
\* the approval, is not overwritten. (What is changed after this last look is.)
ApprovedAsShown ==
  [][\A p \in Procs :
       local[p].pc = "running" /\ local'[p].pc = "replacing"
         => file[local[p].key[1]] = local[p].shown]_vars

\* Two operators may settle one action: the resolution that was first stays.
ResolutionOnce ==
  [][\A k \in Keys : action[k].resolution # None
                        => action'[k].resolution = action[k].resolution]_vars

\* A result that was recorded for an action is never replaced, and no action is
\* settled by the program without one.
AuditTrail ==
  [][\A k \in Keys :
       /\ audit[k] # None => audit'[k] = audit[k]
       /\ action[k].status \in Unfinished /\ action'[k].status \in Settled
            => audit'[k] # None \/ action'[k].resolution # None]_vars

-----------------------------------------------------------------------------
\* With one process at a time in the session (Procs a singleton):

\* No action is run twice, whichever process of those that follow one another runs it.
AtMostOnce == \A k \in Keys : ran[k] <= 1

\* Nothing is run, automatically or approved, while an action is uncertain.
UncertainBlocks ==
  \A p \in Procs :
    local[p].pc \in {"preparing", "marking", "running", "replacing"} => Uncertain = {}
==============================================================================
