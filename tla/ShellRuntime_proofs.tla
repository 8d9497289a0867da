------------------------- MODULE ShellRuntime_proofs -------------------------
(***************************************************************************)
(* Proofs about ShellRuntime, for pipes of any capacity and any output.    *)
(***************************************************************************)
EXTENDS ShellRuntime, TLAPS

Kinds == {"success", "nonzero_exit", "timeout", "cancelled", "runtime_error"}

Types ==
  /\ streamed \in BOOLEAN /\ taskkill \in BOOLEAN /\ late \in BOOLEAN /\ spared \in BOOLEAN
  /\ shell \in {None, "running", "zero", "nonzero", "killed"}
  /\ heir \in {None, "running", "gone"}
  /\ pipe \in [Streams -> Nat] /\ wrote \in [Streams -> Nat] /\ parts \in [Streams -> Nat]
  /\ reader \in [Streams -> {"off", "reading", "showing", "ended", "failed"}]
  /\ pc \in {"start", "wait", "terminate", "drain", "stdout", "stderr", "collect"} \cup Stopped
  /\ handling \in {None, "timeout", "cancelled"}
  /\ pc # "done" => result = None
  /\ pc = "done" => result \in [kind : Kinds, lines : [Streams -> Nat]]

\* No line is lost on its way, and the end of a pipe is the end of what is written to it.
Pipes ==
  \A s \in Streams :
    /\ wrote[s] = parts[s] + pipe[s]
    /\ reader[s] = "ended" => pipe[s] = 0 /\ ~Held

\* How far the command is, by how far run is.
Progress ==
  /\ pc = "start" => shell = None
  /\ shell = None => heir = None /\ handling = None /\ pc \in {"start", "done"}
  /\ pc = "wait" => handling = None
  /\ pc \in {"terminate", "drain"} => handling # None
  /\ (pc = "terminate" \/ handling = None) => shell # "killed"
  /\ pc \in {"stdout", "stderr", "collect", "drain"} => shell # "running" \/ spared
  /\ spared => handling # None
  /\ ~streamed => pc \notin {"stdout", "stderr", "collect"}

\* What an exception leaves of the tree, once it is terminated.
Terminated ==
  /\ handling # None /\ pc \in {"stdout", "stderr", "collect", "drain"}
  /\ heir = "running"
  => Exited \/ ~taskkill \/ spared

\* Which threads are over, unless one was late.
Joined ==
  /\ pc \in {"stderr", "collect"} => late \/ Over("stdout")
  /\ pc = "collect" => late \/ Over("stderr")

\* What has been returned.
Returned ==
  pc = "done" =>
    /\ result.kind \in {"timeout", "cancelled"} =>
         /\ shell = "running" => spared
         /\ heir = "running" => Exited \/ ~taskkill \/ spared
    /\ result.kind \in {"success", "nonzero_exit"} =>
         /\ Exited /\ (result.kind = "success" <=> shell = "zero")
         /\ ~late => \A s \in Streams :
                       Over(s) /\ (reader[s] = "ended" => result.lines[s] = parts[s])
    /\ result.kind = "runtime_error" => shell = None

Inv == Types /\ Pipes /\ Progress /\ Terminated /\ Joined /\ Returned

-----------------------------------------------------------------------------
\* Nothing has been started and nothing written.
LEMMA InvInit == Init => Inv
<1> SUFFICES ASSUME Init PROVE Inv
  OBVIOUS
<1> USE NoneAssumption DEF Init, Zero
<1>1. Types
  BY DEF Types, Stopped, Streams
<1>2. Pipes
  BY DEF Pipes, Held, Streams
<1>3. Progress /\ Terminated /\ Joined /\ Returned
  BY DEF Progress, Terminated, Joined, Returned, Exited
<1> QED
  BY <1>1, <1>2, <1>3 DEF Inv

\* Every step keeps the types; only what is handled while run winds up is ever returned.
LEMMA TypesKept ==
  ASSUME Inv, [Next]_vars
  PROVE  Types'
<1> USE NoneAssumption DEF Inv, Types, Kinds, Zero, Outside, Main, Reading, Given, Go, Step, Return, Exited, Held, Over, Stopped, Streams
<1>1. ASSUME NEW s \in Streams, WriteLine(s) PROVE Types'
  BY <1>1 DEF WriteLine
<1>2. ASSUME StartHeir PROVE Types'
  BY <1>2 DEF StartHeir
<1>3. ASSUME HeirExits PROVE Types'
  BY <1>3 DEF HeirExits
<1>4. ASSUME NEW code \in {"zero", "nonzero"}, Exit(code) PROVE Types'
  BY <1>4 DEF Exit
<1>5. ASSUME NEW s \in Streams, ReadLine(s) PROVE Types'
  BY <1>5 DEF ReadLine
<1>6. ASSUME NEW s \in Streams, Show(s) PROVE Types'
  BY <1>6 DEF Show
<1>7. ASSUME NEW s \in Streams, EndOfFile(s) PROVE Types'
  BY <1>7 DEF EndOfFile
<1>8. ASSUME NEW s \in Streams, ReaderFails(s) PROVE Types'
  BY <1>8 DEF ReaderFails
<1>9. ASSUME Launch PROVE Types'
  BY <1>9 DEF Launch
<1>10. ASSUME LaunchFails PROVE Types'
  BY <1>10 DEF LaunchFails
<1>11. ASSUME Wait PROVE Types'
  BY <1>11 DEF Wait, Waited, ExitKind
<1>12. ASSUME CannotDecode PROVE Types'
  BY <1>12 DEF CannotDecode, Waited
<1>13. ASSUME TimeOut PROVE Types'
  BY <1>13 DEF TimeOut, Waited
<1>14. ASSUME Interrupt PROVE Types'
  BY <1>14 DEF Interrupt
<1>15. ASSUME Terminate PROVE Types'
  BY <1>15 DEF Terminate, NothingToKill, KillShell, KillTree, AfterTerminate
<1>16. ASSUME NEW s \in Streams, Join(s) PROVE Types'
  BY <1>16 DEF Join, AfterJoin
<1>17. ASSUME Collect PROVE Types'
  BY <1>17 DEF Collect, ExitKind
<1>18. ASSUME Drain PROVE Types'
  BY <1>18 DEF Drain, Waited, Progress
<1>19. ASSUME UNCHANGED vars PROVE Types'
  BY <1>19 DEF vars
<1> QED
  BY <1>1, <1>2, <1>3, <1>4, <1>5, <1>6, <1>7, <1>8, <1>9, <1>10, <1>11, <1>12, <1>13, <1>14, <1>15, <1>16, <1>17, <1>18, <1>19 DEF Next, Running, Reads

\* A line that is written is in its pipe, one that is read is in the parts.
LEMMA PipesKept ==
  ASSUME Inv, [Next]_vars
  PROVE  Pipes'
<1> USE NoneAssumption DEF Inv, Pipes, Types, Outside, Main, Reading, Given, Go, Step, Return, Exited, Held, Over, Stopped, Streams
<1>1. ASSUME NEW s \in Streams, WriteLine(s) PROVE Pipes'
  BY <1>1 DEF WriteLine
<1>2. ASSUME StartHeir PROVE Pipes'
  BY <1>2 DEF StartHeir
<1>3. ASSUME HeirExits PROVE Pipes'
  BY <1>3 DEF HeirExits
<1>4. ASSUME NEW code \in {"zero", "nonzero"}, Exit(code) PROVE Pipes'
  BY <1>4 DEF Exit
<1>5. ASSUME NEW s \in Streams, ReadLine(s) PROVE Pipes'
  BY <1>5 DEF ReadLine
<1>6. ASSUME NEW s \in Streams, Show(s) PROVE Pipes'
  BY <1>6 DEF Show
<1>7. ASSUME NEW s \in Streams, EndOfFile(s) PROVE Pipes'
  BY <1>7 DEF EndOfFile
<1>8. ASSUME NEW s \in Streams, ReaderFails(s) PROVE Pipes'
  BY <1>8 DEF ReaderFails
<1>9. ASSUME Launch PROVE Pipes'
  BY <1>9 DEF Launch
<1>10. ASSUME LaunchFails PROVE Pipes'
  BY <1>10 DEF LaunchFails
<1>11. ASSUME Wait PROVE Pipes'
  BY <1>11 DEF Wait, Waited, ExitKind
<1>12. ASSUME CannotDecode PROVE Pipes'
  BY <1>12 DEF CannotDecode, Waited
<1>13. ASSUME TimeOut PROVE Pipes'
  BY <1>13 DEF TimeOut, Waited
<1>14. ASSUME Interrupt PROVE Pipes'
  BY <1>14 DEF Interrupt
<1>15. ASSUME Terminate PROVE Pipes'
  BY <1>15 DEF Terminate, NothingToKill, KillShell, KillTree, AfterTerminate
<1>16. ASSUME NEW s \in Streams, Join(s) PROVE Pipes'
  BY <1>16 DEF Join, AfterJoin
<1>17. ASSUME Collect PROVE Pipes'
  BY <1>17 DEF Collect, ExitKind
<1>18. ASSUME Drain PROVE Pipes'
  BY <1>18 DEF Drain, Waited
<1>19. ASSUME UNCHANGED vars PROVE Pipes'
  BY <1>19 DEF vars
<1> QED
  BY <1>1, <1>2, <1>3, <1>4, <1>5, <1>6, <1>7, <1>8, <1>9, <1>10, <1>11, <1>12, <1>13, <1>14, <1>15, <1>16, <1>17, <1>18, <1>19 DEF Next, Running, Reads

\* run, the shell and the exception that is handled go on together.
LEMMA ProgressKept ==
  ASSUME Inv, [Next]_vars
  PROVE  Progress'
<1> USE NoneAssumption DEF Inv, Progress, Types, Outside, Main, Reading, Given, Go, Step, Return, Exited, Held, Over, Stopped, Streams
<1>1. ASSUME NEW s \in Streams, WriteLine(s) PROVE Progress'
  BY <1>1 DEF WriteLine
<1>2. ASSUME StartHeir PROVE Progress'
  BY <1>2 DEF StartHeir
<1>3. ASSUME HeirExits PROVE Progress'
  BY <1>3 DEF HeirExits
<1>4. ASSUME NEW code \in {"zero", "nonzero"}, Exit(code) PROVE Progress'
  BY <1>4 DEF Exit
<1>5. ASSUME NEW s \in Streams, ReadLine(s) PROVE Progress'
  BY <1>5 DEF ReadLine
<1>6. ASSUME NEW s \in Streams, Show(s) PROVE Progress'
  BY <1>6 DEF Show
<1>7. ASSUME NEW s \in Streams, EndOfFile(s) PROVE Progress'
  BY <1>7 DEF EndOfFile
<1>8. ASSUME NEW s \in Streams, ReaderFails(s) PROVE Progress'
  BY <1>8 DEF ReaderFails
<1>9. ASSUME Launch PROVE Progress'
  BY <1>9 DEF Launch
<1>10. ASSUME LaunchFails PROVE Progress'
  BY <1>10 DEF LaunchFails
<1>11. ASSUME Wait PROVE Progress'
  BY <1>11 DEF Wait, Waited, ExitKind
<1>12. ASSUME CannotDecode PROVE Progress'
  BY <1>12 DEF CannotDecode, Waited
<1>13. ASSUME TimeOut PROVE Progress'
  BY <1>13 DEF TimeOut, Waited
<1>14. ASSUME Interrupt PROVE Progress'
  BY <1>14 DEF Interrupt
<1>15. ASSUME Terminate PROVE Progress'
  BY <1>15 DEF Terminate, NothingToKill, KillShell, KillTree, AfterTerminate
<1>16. ASSUME NEW s \in Streams, Join(s) PROVE Progress'
  BY <1>16 DEF Join, AfterJoin
<1>17. ASSUME Collect PROVE Progress'
  BY <1>17 DEF Collect, ExitKind
<1>18. ASSUME Drain PROVE Progress'
  BY <1>18 DEF Drain, Waited
<1>19. ASSUME UNCHANGED vars PROVE Progress'
  BY <1>19 DEF vars
<1> QED
  BY <1>1, <1>2, <1>3, <1>4, <1>5, <1>6, <1>7, <1>8, <1>9, <1>10, <1>11, <1>12, <1>13, <1>14, <1>15, <1>16, <1>17, <1>18, <1>19 DEF Next, Running, Reads

\* Once the tree is terminated nothing starts again.
LEMMA TerminatedKept ==
  ASSUME Inv, [Next]_vars
  PROVE  Terminated'
<1> USE NoneAssumption DEF Inv, Terminated, Progress, Types, Outside, Main, Reading, Given, Go, Step, Return, Exited, Held, Over, Stopped, Streams
<1>1. ASSUME NEW s \in Streams, WriteLine(s) PROVE Terminated'
  BY <1>1 DEF WriteLine
<1>2. ASSUME StartHeir PROVE Terminated'
  BY <1>2 DEF StartHeir
<1>3. ASSUME HeirExits PROVE Terminated'
  BY <1>3 DEF HeirExits
<1>4. ASSUME NEW code \in {"zero", "nonzero"}, Exit(code) PROVE Terminated'
  BY <1>4 DEF Exit
<1>5. ASSUME NEW s \in Streams, ReadLine(s) PROVE Terminated'
  BY <1>5 DEF ReadLine
<1>6. ASSUME NEW s \in Streams, Show(s) PROVE Terminated'
  BY <1>6 DEF Show
<1>7. ASSUME NEW s \in Streams, EndOfFile(s) PROVE Terminated'
  BY <1>7 DEF EndOfFile
<1>8. ASSUME NEW s \in Streams, ReaderFails(s) PROVE Terminated'
  BY <1>8 DEF ReaderFails
<1>9. ASSUME Launch PROVE Terminated'
  BY <1>9 DEF Launch
<1>10. ASSUME LaunchFails PROVE Terminated'
  BY <1>10 DEF LaunchFails
<1>11. ASSUME Wait PROVE Terminated'
  BY <1>11 DEF Wait, Waited, ExitKind
<1>12. ASSUME CannotDecode PROVE Terminated'
  BY <1>12 DEF CannotDecode, Waited
<1>13. ASSUME TimeOut PROVE Terminated'
  BY <1>13 DEF TimeOut, Waited
<1>14. ASSUME Interrupt PROVE Terminated'
  BY <1>14 DEF Interrupt
<1>15. ASSUME Terminate PROVE Terminated'
  BY <1>15 DEF Terminate, NothingToKill, KillShell, KillTree, AfterTerminate
<1>16. ASSUME NEW s \in Streams, Join(s) PROVE Terminated'
  BY <1>16 DEF Join, AfterJoin
<1>17. ASSUME Collect PROVE Terminated'
  BY <1>17 DEF Collect, ExitKind
<1>18. ASSUME Drain PROVE Terminated'
  BY <1>18 DEF Drain, Waited
<1>19. ASSUME UNCHANGED vars PROVE Terminated'
  BY <1>19 DEF vars
<1> QED
  BY <1>1, <1>2, <1>3, <1>4, <1>5, <1>6, <1>7, <1>8, <1>9, <1>10, <1>11, <1>12, <1>13, <1>14, <1>15, <1>16, <1>17, <1>18, <1>19 DEF Next, Running, Reads

\* A thread that is over stays over, and Join takes note of one that is not.
LEMMA JoinedKept ==
  ASSUME Inv, [Next]_vars
  PROVE  Joined'
<1> USE NoneAssumption DEF Inv, Joined, Types, Progress, Outside, Main, Reading, Given, Go, Step, Return, Exited, Held, Over, Stopped, Streams
<1>1. ASSUME NEW s \in Streams, WriteLine(s) PROVE Joined'
  BY <1>1 DEF WriteLine
<1>2. ASSUME StartHeir PROVE Joined'
  BY <1>2 DEF StartHeir
<1>3. ASSUME HeirExits PROVE Joined'
  BY <1>3 DEF HeirExits
<1>4. ASSUME NEW code \in {"zero", "nonzero"}, Exit(code) PROVE Joined'
  BY <1>4 DEF Exit
<1>5. ASSUME NEW s \in Streams, ReadLine(s) PROVE Joined'
  BY <1>5 DEF ReadLine
<1>6. ASSUME NEW s \in Streams, Show(s) PROVE Joined'
  BY <1>6 DEF Show
<1>7. ASSUME NEW s \in Streams, EndOfFile(s) PROVE Joined'
  BY <1>7 DEF EndOfFile
<1>8. ASSUME NEW s \in Streams, ReaderFails(s) PROVE Joined'
  BY <1>8 DEF ReaderFails
<1>9. ASSUME Launch PROVE Joined'
  BY <1>9 DEF Launch
<1>10. ASSUME LaunchFails PROVE Joined'
  BY <1>10 DEF LaunchFails
<1>11. ASSUME Wait PROVE Joined'
  BY <1>11 DEF Wait, Waited, ExitKind
<1>12. ASSUME CannotDecode PROVE Joined'
  BY <1>12 DEF CannotDecode, Waited
<1>13. ASSUME TimeOut PROVE Joined'
  BY <1>13 DEF TimeOut, Waited
<1>14. ASSUME Interrupt PROVE Joined'
  BY <1>14 DEF Interrupt
<1>15. ASSUME Terminate PROVE Joined'
  BY <1>15 DEF Terminate, NothingToKill, KillShell, KillTree, AfterTerminate
<1>16. ASSUME NEW s \in Streams, Join(s) PROVE Joined'
  BY <1>16 DEF Join, AfterJoin
<1>17. ASSUME Collect PROVE Joined'
  BY <1>17 DEF Collect, ExitKind
<1>18. ASSUME Drain PROVE Joined'
  BY <1>18 DEF Drain, Waited
<1>19. ASSUME UNCHANGED vars PROVE Joined'
  BY <1>19 DEF vars
<1> QED
  BY <1>1, <1>2, <1>3, <1>4, <1>5, <1>6, <1>7, <1>8, <1>9, <1>10, <1>11, <1>12, <1>13, <1>14, <1>15, <1>16, <1>17, <1>18, <1>19 DEF Next, Running, Reads

\* What was true when run returned stays true, whatever the threads do afterwards.
LEMMA ReturnedKept ==
  ASSUME Inv, [Next]_vars
  PROVE  Returned'
<1> USE NoneAssumption DEF Inv, Returned, Joined, Terminated, Progress, Types, Outside, Main, Reading, Given, Go, Step, Return, Exited, Held, Over, Stopped, Streams
<1>1. ASSUME NEW s \in Streams, WriteLine(s) PROVE Returned'
  BY <1>1 DEF WriteLine
<1>2. ASSUME StartHeir PROVE Returned'
  BY <1>2 DEF StartHeir
<1>3. ASSUME HeirExits PROVE Returned'
  BY <1>3 DEF HeirExits
<1>4. ASSUME NEW code \in {"zero", "nonzero"}, Exit(code) PROVE Returned'
  BY <1>4 DEF Exit
<1>5. ASSUME NEW s \in Streams, ReadLine(s) PROVE Returned'
  BY <1>5 DEF ReadLine
<1>6. ASSUME NEW s \in Streams, Show(s) PROVE Returned'
  BY <1>6 DEF Show
<1>7. ASSUME NEW s \in Streams, EndOfFile(s) PROVE Returned'
  BY <1>7 DEF EndOfFile
<1>8. ASSUME NEW s \in Streams, ReaderFails(s) PROVE Returned'
  BY <1>8 DEF ReaderFails
<1>9. ASSUME Launch PROVE Returned'
  BY <1>9 DEF Launch
<1>10. ASSUME LaunchFails PROVE Returned'
  BY <1>10 DEF LaunchFails
<1>11. ASSUME Wait PROVE Returned'
  BY <1>11 DEF Wait, Waited, ExitKind
<1>12. ASSUME CannotDecode PROVE Returned'
  BY <1>12 DEF CannotDecode, Waited
<1>13. ASSUME TimeOut PROVE Returned'
  BY <1>13 DEF TimeOut, Waited
<1>14. ASSUME Interrupt PROVE Returned'
  BY <1>14 DEF Interrupt
<1>15. ASSUME Terminate PROVE Returned'
  BY <1>15 DEF Terminate, NothingToKill, KillShell, KillTree, AfterTerminate
<1>16. ASSUME NEW s \in Streams, Join(s) PROVE Returned'
  BY <1>16 DEF Join, AfterJoin
<1>17. ASSUME Collect PROVE Returned'
  BY <1>17 DEF Collect, ExitKind
<1>18. ASSUME Drain PROVE Returned'
  BY <1>18 DEF Drain, Waited
<1>19. ASSUME UNCHANGED vars PROVE Returned'
  BY <1>19 DEF vars
<1> QED
  BY <1>1, <1>2, <1>3, <1>4, <1>5, <1>6, <1>7, <1>8, <1>9, <1>10, <1>11, <1>12, <1>13, <1>14, <1>15, <1>16, <1>17, <1>18, <1>19 DEF Next, Running, Reads

-----------------------------------------------------------------------------
\* Every step of the command, of its threads and of run keeps the invariant.
LEMMA InvNext == Inv /\ [Next]_vars => Inv'
  BY TypesKept, PipesKept, ProgressKept, TerminatedKept, JoinedKept, ReturnedKept DEF Inv

\* Threads that are over, none of which has failed, have read all there was.
LEMMA InvImplies == Inv => ResultIsTrue
<1> SUFFICES ASSUME Inv, result # None PROVE ResultIsTrue
  BY DEF ResultIsTrue
<1> USE DEF Inv
<1>1. pc = "done" /\ result.kind \in Kinds /\ result.lines \in [Streams -> Nat]
  BY DEF Types
<1>2. ASSUME result.kind \in {"success", "nonzero_exit"}, ~late,
             \A s \in Streams : reader[s] # "failed"
      PROVE  result.lines = wrote
  <2>1. ASSUME NEW s \in Streams PROVE result.lines[s] = wrote[s]
    <3>1. reader[s] = "ended" /\ result.lines[s] = parts[s]
      BY <1>1, <1>2 DEF Returned, Over
    <3>2. wrote[s] = parts[s] + pipe[s] /\ pipe[s] = 0 /\ parts[s] \in Nat
      BY <3>1 DEF Pipes, Types
    <3> QED
      BY <3>1, <3>2
  <2>2. wrote \in [Streams -> Nat]
    BY DEF Types
  <2> QED
    BY <1>1, <2>1, <2>2
<1> QED
  BY <1>1, <1>2 DEF ResultIsTrue, Returned, Kinds

\* ShellRuntime.run reports what happened: a command that timed out or was cancelled runs no
\* more, unless taskkill has left it (nor do its descendants, where there is a taskkill that
\* has not, and the shell had not ended before them), and one that ended by itself is reported with its own exit and, unless a
\* thread was late or failed, every line that was written.
THEOREM ResultsAreTrue == Spec => []ResultIsTrue
<1>1. Init => Inv
  BY InvInit
<1>2. Inv /\ [Next]_vars => Inv'
  BY InvNext
<1>3. Inv => ResultIsTrue
  BY InvImplies
<1> QED
  BY <1>1, <1>2, <1>3, PTL DEF Spec

-----------------------------------------------------------------------------
(* run is bounded. *)

\* How many steps of its own run may still take, if no exception comes.
Ahead ==
  CASE pc \in Stopped              -> 0
    [] pc \in {"collect", "drain"} -> 1
    [] pc = "stderr"               -> 2
    [] pc = "stdout"               -> 3
    [] pc = "terminate"            -> 4
    [] pc = "wait"                 -> 5
    [] OTHER                       -> 6

\* One exception is handled, and sends run back to terminate; the next one ends it.
StepsLeft == Ahead + (IF handling = None /\ pc \notin Stopped THEN 4 ELSE 0)

\* run has ten steps at most, and none left only when it is done.
RunWithinBound == StepsLeft \in 0 .. 10 /\ (StepsLeft = 0 <=> Done)

\* What run does next, or Ctrl-C makes it do, leaves it fewer steps, and nothing leaves it more.
RunShortens ==
  [][/\ Running \/ Interrupt => StepsLeft' < StepsLeft
     /\ StepsLeft' <= StepsLeft]_vars

\* run comes to its end whatever the command does: every step it takes, of ten at most,
\* leaves it fewer, a second Ctrl-C included, and nothing the command, its descendants or
\* the threads that read do adds one.
THEOREM RunIsShort == Spec => []RunWithinBound /\ RunShortens
<1>1. Types => RunWithinBound
  BY NoneAssumption DEF Types, RunWithinBound, StepsLeft, Ahead, Done, Stopped
<1>2. Inv /\ [Next]_vars => [/\ Running \/ Interrupt => StepsLeft' < StepsLeft
                             /\ StepsLeft' <= StepsLeft]_vars
  <2> SUFFICES ASSUME Inv, [Next]_vars
               PROVE  /\ Running \/ Interrupt => StepsLeft' < StepsLeft
                      /\ StepsLeft' <= StepsLeft
    OBVIOUS
  <2> USE NoneAssumption DEF StepsLeft, Ahead, Stopped, Go, Step, Return
  <2>1. Types /\ Progress
    BY DEF Inv, Types
  <2>2. ASSUME Launch \/ LaunchFails PROVE StepsLeft' < StepsLeft
    BY <2>2 DEF Launch, LaunchFails
  <2>3. ASSUME Wait \/ CannotDecode \/ TimeOut PROVE StepsLeft' < StepsLeft
    BY <2>1, <2>3 DEF Wait, CannotDecode, TimeOut, Progress
  <2>4. ASSUME Terminate PROVE StepsLeft' < StepsLeft
    BY <2>4 DEF Terminate, NothingToKill, KillShell, KillTree, AfterTerminate
  <2>5. ASSUME NEW s \in Streams, Join(s) PROVE StepsLeft' < StepsLeft
    BY <2>5 DEF Join, AfterJoin, Streams
  <2>6. ASSUME Collect \/ Drain PROVE StepsLeft' < StepsLeft
    BY <2>6 DEF Collect, Drain
  <2>7. ASSUME Interrupt PROVE StepsLeft' < StepsLeft
    BY <2>1, <2>7 DEF Interrupt
  <2>8. ASSUME Running \/ Interrupt PROVE StepsLeft' < StepsLeft
    BY <2>2, <2>3, <2>4, <2>5, <2>6, <2>7, <2>8 DEF Running
  <2>9. CASE UNCHANGED <<pc, handling>>
    BY <2>1, <2>8, <2>9
  <2>10. StepsLeft \in Nat /\ StepsLeft' \in Nat
    OBVIOUS
  <2>11. Running \/ Interrupt \/ UNCHANGED <<pc, handling>>
    BY DEF Next, StartHeir, HeirExits, Exit, WriteLine, Reads, ReadLine, Show, EndOfFile,
           ReaderFails, Main, vars
  <2> HIDE DEF StepsLeft
  <2> QED
    BY <2>8, <2>9, <2>10, <2>11
<1>3. Inv => Types
  BY DEF Inv
<1> QED
  BY <1>1, <1>2, <1>3, InvInit, InvNext, PTL DEF Spec, RunShortens
==============================================================================
