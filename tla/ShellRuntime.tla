----------------------------- MODULE ShellRuntime -----------------------------
(***************************************************************************)
(* ShellRuntime.run: one command, run by a shell in a process of its own   *)
(* with a time limit. The shell and what it leaves behind (a descendant)   *)
(* write to two pipes, which hold only so much; with an output handler two *)
(* threads read them and hand every line on, without one communicate reads *)
(* them; the user may press Ctrl-C. The threads go on when run has         *)
(* returned.                                                               *)
(*                                                                         *)
(* Lines are counted, not kept. A process that is killed is gone, and a    *)
(* descendant of a living shell is in its tree.                            *)
(***************************************************************************)
EXTENDS Naturals

CONSTANTS
  None,
  Capacity,  \* lines a pipe holds
  MaxLines   \* bound on the lines written to a pipe

ASSUME LinesAssumption == Capacity \in Nat \ {0} /\ MaxLines \in Nat

\* None is none of the values a variable has otherwise.
ASSUME NoneAssumption ==
  None \notin {"running", "zero", "nonzero", "killed", "gone", "timeout", "cancelled"}

VARIABLES
  streamed,  \* on_output is given
  taskkill,  \* the program of that name is there (it is Windows')
  shell,     \* process: how it runs, or has ended
  heir,      \* a descendant of the shell
  pipe,      \* lines in each pipe
  wrote,     \* history: lines that were written to each
  reader,    \* who reads each pipe
  parts,     \* stdout_parts, stderr_parts: lines read from each
  pc,        \* what run does next
  handling,  \* the exception run handles: None, "timeout" or "cancelled"
  result,    \* what run has returned: kind, and lines of each stream
  late,      \* history: run has gone on without waiting for a thread to end
  spared     \* history: taskkill has ended, and not all of the tree with it

vars == <<streamed, taskkill, shell, heir, pipe, wrote, reader, parts, pc, handling, result, late,
          spared>>

Streams == {"stdout", "stderr"}

Zero == [s \in Streams |-> 0]

Init ==
  /\ streamed \in BOOLEAN /\ taskkill \in BOOLEAN
  /\ shell = None /\ heir = None
  /\ pipe = Zero /\ wrote = Zero /\ parts = Zero
  /\ reader = [s \in Streams |-> "off"]
  /\ pc = "start" /\ handling = None /\ result = None /\ late = FALSE
  /\ spared = FALSE

Given == UNCHANGED <<streamed, taskkill, spared>>

Outside == UNCHANGED <<shell, heir, pipe, wrote>>

Main == UNCHANGED <<pc, handling, result, late>>

Reading == UNCHANGED <<reader, parts>>

Stopped == {"done", "raised"}

-----------------------------------------------------------------------------
(* The shell, what it starts, and the pipes. *)

Exited == shell \in {"zero", "nonzero"}

\* The ends of the pipes that are written to are open.
Held == shell = "running" \/ heir = "running"

WriteLine(s) ==
  /\ Held /\ pipe[s] < Capacity /\ wrote[s] < MaxLines
  /\ pipe' = [pipe EXCEPT ![s] = @ + 1] /\ wrote' = [wrote EXCEPT ![s] = @ + 1]
  /\ UNCHANGED <<shell, heir>> /\ Reading /\ Main /\ Given

StartHeir ==
  /\ shell = "running" /\ heir = None
  /\ heir' = "running"
  /\ UNCHANGED <<shell, pipe, wrote>> /\ Reading /\ Main /\ Given

Exit(code) ==
  /\ shell = "running" /\ shell' = code
  /\ UNCHANGED <<heir, pipe, wrote>> /\ Reading /\ Main /\ Given

HeirExits ==
  /\ heir = "running" /\ heir' = "gone"
  /\ UNCHANGED <<shell, pipe, wrote>> /\ Reading /\ Main /\ Given

-----------------------------------------------------------------------------
(* The threads of _start_output_reader, and those of communicate. *)

ReadLine(s) ==
  /\ reader[s] = "reading" /\ pipe[s] > 0
  /\ pipe' = [pipe EXCEPT ![s] = @ - 1] /\ parts' = [parts EXCEPT ![s] = @ + 1]
  /\ reader' = [reader EXCEPT ![s] = IF streamed THEN "showing" ELSE @]
  /\ UNCHANGED <<shell, heir, wrote>> /\ Main /\ Given

\* on_output traces the line and prints it.
Show(s) ==
  /\ reader[s] = "showing"
  /\ reader' = [reader EXCEPT ![s] = "reading"]
  /\ UNCHANGED parts /\ Outside /\ Main /\ Given

\* on_output raises (the database is locked, the terminal cannot show the line), or the line
\* cannot be decoded: the thread is gone, and nobody reads its pipe.
ReaderFails(s) ==
  /\ streamed /\ reader[s] \in {"reading", "showing"}
  /\ reader[s] = "reading" => pipe[s] > 0
  /\ reader' = [reader EXCEPT ![s] = "failed"]
  /\ UNCHANGED parts /\ Outside /\ Main /\ Given

EndOfFile(s) ==
  /\ reader[s] = "reading" /\ pipe[s] = 0 /\ ~Held
  /\ reader' = [reader EXCEPT ![s] = "ended"]
  /\ UNCHANGED parts /\ Outside /\ Main /\ Given

Over(s) == reader[s] \in {"ended", "failed"}

-----------------------------------------------------------------------------
(* run *)

Go(to) == pc' = to /\ UNCHANGED <<handling, result>>

Step(to) == Go(to) /\ UNCHANGED late

Return(kind) ==
  /\ pc' = "done" /\ result' = [kind |-> kind, lines |-> parts] /\ UNCHANGED <<handling, late>>

Launch ==
  /\ pc = "start"
  /\ shell' = "running" /\ reader' = [s \in Streams |-> "reading"]
  /\ Step("wait")
  /\ UNCHANGED <<heir, pipe, wrote, parts>> /\ Given

\* Popen raises an OSError.
LaunchFails == pc = "start" /\ Return("runtime_error") /\ Outside /\ Reading /\ Given

\* wait is done when the shell has ended, communicate when the pipes have as well.
Waited == shell # "running" /\ (streamed \/ \A s \in Streams : Over(s))

\* _completed_result.
ExitKind == IF shell = "zero" THEN "success" ELSE "nonzero_exit"

Wait ==
  /\ pc = "wait" /\ Waited
  /\ IF streamed THEN Step("stdout") ELSE Return(ExitKind)
  /\ Outside /\ Reading /\ Given

\* communicate raises: what it has read cannot be decoded.
CannotDecode ==
  /\ pc \in {"wait", "drain"} /\ Waited /\ ~streamed
  /\ Step("raised") /\ Outside /\ Reading /\ Given

\* The time limit has passed.
TimeOut ==
  /\ pc = "wait" /\ ~Waited
  /\ pc' = "terminate" /\ handling' = "timeout" /\ UNCHANGED <<result, late>>
  /\ Outside /\ Reading /\ Given

\* Ctrl-C in the try block; one that comes while an exception is handled ends run.
Interrupt ==
  /\ pc \notin Stopped \cup {"start"}
  /\ IF handling = None THEN pc' = "terminate" /\ handling' = "cancelled" /\ UNCHANGED result
     ELSE Go("raised")
  /\ UNCHANGED late /\ Outside /\ Reading /\ Given

AfterTerminate == IF streamed THEN "stdout" ELSE "drain"

\* Faulty (see "mutants" in README.md): the shell is killed without what it has started.
TerminateShell ==
  /\ pc = "terminate"
  /\ shell' = (IF shell = "running" THEN "killed" ELSE shell)
  /\ Step(AfterTerminate)
  /\ UNCHANGED <<heir, pipe, wrote>> /\ Reading /\ Given

\* Of a shell that has ended by itself nothing is killed.
NothingToKill == shell # "running" /\ UNCHANGED <<shell, heir, spared>>

\* taskkill takes the tree, or what of it it may; its exit status is not looked at.
KillTree(killed) ==
  /\ shell = "running" /\ taskkill
  /\ shell' = (IF "shell" \in killed THEN "killed" ELSE shell)
  /\ heir' = (IF "heir" \in killed /\ heir = "running" THEN "gone" ELSE heir)
  /\ spared' = (shell' = "running" \/ heir' = "running")

\* There is no taskkill: kill takes the shell alone.
KillShell == shell = "running" /\ ~taskkill /\ shell' = "killed" /\ UNCHANGED <<heir, spared>>

\* _terminate_process_tree.
Terminate ==
  /\ pc = "terminate"
  /\ NothingToKill \/ KillShell \/ \E killed \in SUBSET {"shell", "heir"} : KillTree(killed)
  /\ Step(AfterTerminate)
  /\ UNCHANGED <<streamed, taskkill, pipe, wrote>> /\ Reading

AfterJoin(s) == IF s = "stdout" THEN "stderr" ELSE "collect"

\* Faulty: the thread is waited for as long as it takes.
JoinLong(s) == pc = s /\ Over(s) /\ Step(AfterJoin(s)) /\ Outside /\ Reading /\ Given

\* _join_readers: the thread has ended, or a second has passed.
Join(s) ==
  /\ pc = s /\ Go(AfterJoin(s))
  /\ late' = (late \/ ~Over(s))
  /\ Outside /\ Reading /\ Given

Collect ==
  /\ pc = "collect"
  /\ Return(IF handling = None THEN ExitKind ELSE handling)
  /\ Outside /\ Reading /\ Given

\* _communicate_after_termination: communicate again, with no time limit.
Drain ==
  /\ pc = "drain" /\ Waited
  /\ Return(handling) /\ Outside /\ Reading /\ Given

Running ==
  \/ Launch \/ LaunchFails \/ Wait \/ CannotDecode \/ TimeOut \/ Terminate \/ Collect \/ Drain
  \/ \E s \in Streams : Join(s)

Reads(s) == ReadLine(s) \/ Show(s) \/ EndOfFile(s)

Next ==
  \/ Running \/ Interrupt \/ StartHeir \/ HeirExits
  \/ \E code \in {"zero", "nonzero"} : Exit(code)
  \/ \E s \in Streams : WriteLine(s) \/ Reads(s) \/ ReaderFails(s)

\* Time passes and threads run: limits are reached, and readers read what is there. Nothing
\* is known of the command, nor of the user.
Fairness == WF_vars(Running) /\ \A s \in Streams : WF_vars(Reads(s))

Spec == Init /\ [][Next]_vars /\ Fairness

-----------------------------------------------------------------------------
(* What must hold. *)

Done == pc \in Stopped

\* A command comes to an end within its time, however long it runs or what it leaves behind,
\* and although a thread that reads its output may be gone; only a run without a handler
\* waits for a descendant that outlives its shell, or for a shell that taskkill has not
\* killed, for as long as that takes.
Returns == []<>(Done \/ (~streamed /\ (heir = "running" \/ (shell = "running" /\ spared))))

\* What is reported is so. A command that timed out or was cancelled runs no more, and its
\* descendants do not, unless the shell had ended before them, there is only kill, or
\* taskkill has not done what it was asked for, which nobody notices. One that ended by
\* itself has, and all that it and its descendants have written is reported, unless a thread
\* was late or has failed.
ResultIsTrue ==
  result # None =>
    CASE result.kind \in {"timeout", "cancelled"} ->
           /\ shell = "running" => spared
           /\ heir = "running" => Exited \/ ~taskkill \/ spared
      [] result.kind \in {"success", "nonzero_exit"} ->
           /\ Exited /\ (result.kind = "success" <=> shell = "zero")
           /\ ~late /\ (\A s \in Streams : reader[s] # "failed") => result.lines = wrote
      [] result.kind = "runtime_error" -> shell = None
=============================================================================
