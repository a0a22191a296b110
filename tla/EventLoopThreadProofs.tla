----------------------- MODULE EventLoopThreadProofs -----------------------
(***************************************************************************)
(* The hand-over between the owner of an EventLoopThread and the thread     *)
(* inside is safe for any number of tasks.                                  *)
(***************************************************************************)
EXTENDS EventLoopThread, TLAPS

\* The provers a step is tried with, and their time limits.
USE SMTT(30), ZenonT(60)

\* Where the thread has published its loop, and where the EventLoop exists.
Published == {"enter", "loop", "exit", "finished"}
Existing == {"publish", "enter", "loop", "exit"}

\* What relates the places of the two threads.
\*   Handshake: mutex_ keeps the thread at the beginning of ThreadFunc until
\*     started_ is set.
\*   Publication: loop_ and the EventLoop follow the place of the thread,
\*     which meets EncThread::run only behind ~EventLoopThread.
\*   Ending: Loop() returns only after a Quit(), and before the destructor
\*     only a task calls it.
Handshake ==
  /\ mutex_ <=> opc = "starting"
  /\ opc = "constructed" => wpc = "none"
  /\ opc = "starting" => wpc = "created"
  /\ wpc # "none" => started_ \/ opc = "starting"
  /\ wpc # "cond_wait"

Publication ==
  /\ loop_ => wpc \in Published
  /\ wpc \in {"enter", "loop", "exit"} => loop_
  /\ wpc \in Existing => alive
  /\ opc \in {"constructed", "starting", "started", "waiting", "using", "wakeup"}
       => derived
  /\ derived => wpc # "base_run" /\ (wpc = "finished" => loop_)
  /\ notified => loop_
  /\ got = "loop" => loop_
  /\ got = "null" => spurious
  /\ opc \in {"constructed", "starting", "started", "waiting"} => got = "none"

Ending ==
  /\ lpc = "out" <=> wpc # "loop"
  /\ derived /\ opc # "wakeup" /\ quit_ => task_quit
  /\ derived /\ opc # "wakeup" /\ wpc \in {"exit", "finished"} => task_quit
  /\ "Quit" \in misuse => task_quit
  /\ "run" \in misuse => ~derived /\ got # "loop"

IInv == ThreadTypeOK /\ Handshake /\ Publication /\ Ending

\* A thread object just constructed satisfies the inductive invariant.
LEMMA InitIInv == Init => IInv
<1> SUFFICES ASSUME Init PROVE IInv
  OBVIOUS
<1> USE TaskAssumption DEF Init, LoopInit
<1>0. TypeOK
  <2>1. queue \in Seq(1..MaxTasks) /\ made \in 0..MaxTasks /\ wakeup_fd_ \in Nat
    OBVIOUS
  <2> QED  BY <2>1, ZenonT(60) DEF TypeOK
<1>1. ThreadTypeOK  BY <1>0, ZenonT(60) DEF ThreadTypeOK
<1>2. Handshake     BY ZenonT(60) DEF Handshake
<1>3. Publication   BY ZenonT(60) DEF Publication, Published, Existing
<1>4. Ending        BY ZenonT(60) DEF Ending
<1> QED  BY <1>1, <1>2, <1>3, <1>4, ZenonT(60) DEF IInv

\* Every step of the owner, the thread and its loop keeps the inductive
\* invariant.
LEMMA NextIInv == IInv /\ [Next]_vars => IInv'
<1> SUFFICES ASSUME IInv, [Next]_vars PROVE IInv'
  OBVIOUS
<1> USE DEF IInv, loopVars
<1>1. CASE Start
  <2> USE <1>1 DEF Start
  <2>0. TypeOK'        BY TaskAssumption, ZenonT(60) DEF TypeOK, ThreadTypeOK
  <2>1. ThreadTypeOK'  BY <2>0, ZenonT(60) DEF ThreadTypeOK
  <2>2. Handshake'     BY ZenonT(60) DEF Handshake, ThreadTypeOK
  <2>3. Publication'
    BY ZenonT(60) DEF Publication, Handshake, Published, Existing, ThreadTypeOK
  <2>4. Ending'
    BY ZenonT(60) DEF Ending, Publication, Handshake, Published, Existing, ThreadTypeOK, TypeOK
  <2> QED  BY <2>1, <2>2, <2>3, <2>4, ZenonT(60)
<1>2. CASE StartReturn
  <2> USE <1>2 DEF StartReturn
  <2>0. TypeOK'        BY TaskAssumption, ZenonT(60) DEF TypeOK, ThreadTypeOK
  <2>1. ThreadTypeOK'  BY <2>0, ZenonT(60) DEF ThreadTypeOK
  <2>2. Handshake'     BY ZenonT(60) DEF Handshake, ThreadTypeOK
  <2>3. Publication'
    BY ZenonT(60) DEF Publication, Handshake, Published, Existing, ThreadTypeOK
  <2>4. Ending'
    BY ZenonT(60) DEF Ending, Publication, Handshake, Published, Existing, ThreadTypeOK, TypeOK
  <2> QED  BY <2>1, <2>2, <2>3, <2>4, ZenonT(60)
<1>3. CASE GetLoopInThread
  <2> USE <1>3 DEF GetLoopInThread
  <2>0. TypeOK'        BY TaskAssumption, ZenonT(60) DEF TypeOK, ThreadTypeOK
  <2>1. ThreadTypeOK'  BY <2>0 DEF ThreadTypeOK
  <2>2. Handshake'     BY ZenonT(60) DEF Handshake, ThreadTypeOK
  <2>3. Publication'
    BY ZenonT(60) DEF Publication, Handshake, Published, Existing, ThreadTypeOK
  <2>4. Ending'
    BY ZenonT(60) DEF Ending, Publication, Handshake, Published, Existing, ThreadTypeOK, TypeOK
  <2> QED  BY <2>1, <2>2, <2>3, <2>4, ZenonT(60)
<1>4. CASE GetLoopReturn
  <2> USE <1>4 DEF GetLoopReturn
  <2>0. TypeOK'        BY TaskAssumption, ZenonT(60) DEF TypeOK, ThreadTypeOK
  <2>1. ThreadTypeOK'  BY <2>0 DEF ThreadTypeOK
  <2>2. Handshake'     BY ZenonT(60) DEF Handshake, ThreadTypeOK
  <2>3. Publication'
    BY ZenonT(60) DEF Publication, Handshake, Published, Existing, ThreadTypeOK
  <2>4. Ending'
    BY ZenonT(60) DEF Ending, Publication, Handshake, Published, Existing, ThreadTypeOK, TypeOK
  <2> QED  BY <2>1, <2>2, <2>3, <2>4, ZenonT(60)
<1>5. CASE SpuriousWakeup
  <2> USE <1>5 DEF SpuriousWakeup
  <2>0. TypeOK'        BY TaskAssumption, ZenonT(60) DEF TypeOK, ThreadTypeOK
  <2>1. ThreadTypeOK'  BY <2>0 DEF ThreadTypeOK
  <2>2. Handshake'     BY ZenonT(60) DEF Handshake, ThreadTypeOK
  <2>3. Publication'
    BY ZenonT(60) DEF Publication, Handshake, Published, Existing, ThreadTypeOK
  <2>4. Ending'
    BY ZenonT(60) DEF Ending, Publication, Handshake, Published, Existing, ThreadTypeOK, TypeOK
  <2> QED  BY <2>1, <2>2, <2>3, <2>4, ZenonT(60)
<1>6. CASE Post
  <2> USE <1>6 DEF Post, QueueInLoop, Uses
  <2>0. TypeOK'        BY TaskAssumption DEF TypeOK, ThreadTypeOK
  <2>1. ThreadTypeOK'  BY <2>0 DEF ThreadTypeOK
  <2>2. Handshake'     BY ZenonT(60) DEF Handshake, ThreadTypeOK
  <2>3. Publication'
    BY ZenonT(60) DEF Publication, Handshake, Published, Existing, ThreadTypeOK
  <2>4. Ending'
    BY ZenonT(60) DEF Ending, Publication, Handshake, Published, Existing, ThreadTypeOK, TypeOK
  <2> QED  BY <2>1, <2>2, <2>3, <2>4, ZenonT(60)
<1>7. CASE DestroyQuit
  <2> USE <1>7 DEF DestroyQuit, MayDestroy, Quit, Uses
  <2>0. TypeOK'        BY TaskAssumption, ZenonT(60) DEF TypeOK, ThreadTypeOK
  <2>1. ThreadTypeOK'  BY <2>0 DEF ThreadTypeOK
  <2>2. Handshake'     BY ZenonT(60) DEF Handshake, ThreadTypeOK
  <2>3. Publication'
    BY ZenonT(60) DEF Publication, Handshake, Published, Existing, ThreadTypeOK
  <2>4. Ending'
    BY ZenonT(60) DEF Ending, Publication, Handshake, Published, Existing, ThreadTypeOK, TypeOK
  <2> QED  BY <2>1, <2>2, <2>3, <2>4, ZenonT(60)
<1>8. CASE DestroyWakeup
  <2> USE <1>8 DEF DestroyWakeup, Wakeup, eventfd_write, Uses
  <2>0. TypeOK'        BY TaskAssumption DEF TypeOK, ThreadTypeOK
  <2>1. ThreadTypeOK'
    <3>1. derived' \in BOOLEAN /\ early' \in BOOLEAN  BY ZenonT(60) DEF ThreadTypeOK
    <3> QED  BY <2>0, <3>1 DEF ThreadTypeOK
  <2>2. Handshake'     BY ZenonT(60) DEF Handshake, ThreadTypeOK
  <2>3. Publication'
    BY ZenonT(60) DEF Publication, Handshake, Published, Existing, ThreadTypeOK
  <2>4. Ending'
    BY ZenonT(60) DEF Ending, Publication, Handshake, Published, Existing, ThreadTypeOK, TypeOK
  <2> QED  BY <2>1, <2>2, <2>3, <2>4, ZenonT(60)
<1>9. CASE DestroyNoLoop
  <2> USE <1>9 DEF DestroyNoLoop, MayDestroy
  <2>0. TypeOK'        BY TaskAssumption, ZenonT(60) DEF TypeOK, ThreadTypeOK
  <2>1. ThreadTypeOK'
    <3>1. derived' \in BOOLEAN  BY ZenonT(60)
    <3>2. early' \in BOOLEAN    OBVIOUS
    <3> QED  BY <2>0, <3>1, <3>2 DEF ThreadTypeOK
  <2>2. Handshake'     BY ZenonT(60) DEF Handshake, ThreadTypeOK
  <2>3. Publication'
    BY ZenonT(60) DEF Publication, Handshake, Published, Existing, ThreadTypeOK
  <2>4. Ending'
    BY ZenonT(60) DEF Ending, Publication, Handshake, Published, Existing, ThreadTypeOK, TypeOK
  <2> QED  BY <2>1, <2>2, <2>3, <2>4, ZenonT(60)
<1>10. CASE DestroyBase
  <2> USE <1>10 DEF DestroyBase
  <2>0. TypeOK'        BY TaskAssumption, ZenonT(60) DEF TypeOK, ThreadTypeOK
  <2>1. ThreadTypeOK'
    <3>1. quited_' \in BOOLEAN  BY ZenonT(60) DEF ThreadTypeOK
    <3> QED  BY <2>0, <3>1 DEF ThreadTypeOK
  <2>2. Handshake'     BY ZenonT(60) DEF Handshake, ThreadTypeOK
  <2>3. Publication'
    BY ZenonT(60) DEF Publication, Handshake, Published, Existing, ThreadTypeOK
  <2>4. Ending'
    BY ZenonT(60) DEF Ending, Publication, Handshake, Published, Existing, ThreadTypeOK, TypeOK
  <2> QED  BY <2>1, <2>2, <2>3, <2>4, ZenonT(60)
<1>11. CASE Joined
  <2> USE <1>11 DEF Joined
  <2>0. TypeOK'        BY TaskAssumption, ZenonT(60) DEF TypeOK, ThreadTypeOK
  <2>1. ThreadTypeOK'  BY <2>0 DEF ThreadTypeOK
  <2>2. Handshake'     BY ZenonT(60) DEF Handshake, ThreadTypeOK
  <2>3. Publication'
    BY ZenonT(60) DEF Publication, Handshake, Published, Existing, ThreadTypeOK
  <2>4. Ending'
    BY ZenonT(60) DEF Ending, Publication, Handshake, Published, Existing, ThreadTypeOK, TypeOK
  <2> QED  BY <2>1, <2>2, <2>3, <2>4, ZenonT(60)
<1>12. CASE ThreadFunc
  <2> USE <1>12 DEF ThreadFunc, WorkerStep
  <2>0. TypeOK'        BY TaskAssumption, ZenonT(60) DEF TypeOK, ThreadTypeOK
  <2>1. ThreadTypeOK'  BY <2>0 DEF ThreadTypeOK
  <2>2. Handshake'     BY ZenonT(60) DEF Handshake, ThreadTypeOK
  <2>3. Publication'
    BY ZenonT(60) DEF Publication, Handshake, Published, Existing, ThreadTypeOK
  <2>4. Ending'
    BY ZenonT(60) DEF Ending, Publication, Handshake, Published, Existing, ThreadTypeOK, TypeOK
  <2> QED  BY <2>1, <2>2, <2>3, <2>4, ZenonT(60)
<1>13. CASE Run
  <2> USE <1>13 DEF Run, WorkerStep
  <2>0. TypeOK'        BY TaskAssumption, ZenonT(60) DEF TypeOK, ThreadTypeOK
  <2>1. ThreadTypeOK'  BY <2>0 DEF ThreadTypeOK
  <2>2. Handshake'     BY ZenonT(60) DEF Handshake, ThreadTypeOK
  <2>3. Publication'
    BY ZenonT(60) DEF Publication, Handshake, Published, Existing, ThreadTypeOK
  <2>4. Ending'
    BY ZenonT(60) DEF Ending, Publication, Handshake, Published, Existing, ThreadTypeOK, TypeOK
  <2> QED  BY <2>1, <2>2, <2>3, <2>4, ZenonT(60)
<1>14. CASE BaseRun
  <2> USE <1>14 DEF BaseRun, WorkerStep
  <2>0. TypeOK'        BY TaskAssumption, ZenonT(60) DEF TypeOK, ThreadTypeOK
  <2>1. ThreadTypeOK'  BY <2>0 DEF ThreadTypeOK
  <2>2. Handshake'     BY ZenonT(60) DEF Handshake, ThreadTypeOK
  <2>3. Publication'
    BY ZenonT(60) DEF Publication, Handshake, Published, Existing, ThreadTypeOK
  <2>4. Ending'
    BY ZenonT(60) DEF Ending, Publication, Handshake, Published, Existing, ThreadTypeOK, TypeOK
  <2> QED  BY <2>1, <2>2, <2>3, <2>4, ZenonT(60)
<1>15. CASE Publish
  <2> USE <1>15 DEF Publish, WorkerStep, Uses
  <2>0. TypeOK'        BY TaskAssumption, ZenonT(60) DEF TypeOK, ThreadTypeOK
  <2>1. ThreadTypeOK'  BY <2>0 DEF ThreadTypeOK
  <2>2. Handshake'     BY ZenonT(60) DEF Handshake, ThreadTypeOK
  <2>3. Publication'
    BY ZenonT(60) DEF Publication, Handshake, Published, Existing, ThreadTypeOK
  <2>4. Ending'
    BY ZenonT(60) DEF Ending, Publication, Handshake, Published, Existing, ThreadTypeOK, TypeOK
  <2> QED  BY <2>1, <2>2, <2>3, <2>4, ZenonT(60)
<1>16. CASE RunLoop
  <2> USE <1>16 DEF RunLoop, WorkerStep, LoopEnter
  <2>0. TypeOK'        BY TaskAssumption, ZenonT(60) DEF TypeOK, ThreadTypeOK
  <2>1. ThreadTypeOK'  BY <2>0 DEF ThreadTypeOK
  <2>2. Handshake'     BY ZenonT(60) DEF Handshake, ThreadTypeOK
  <2>3. Publication'
    BY ZenonT(60) DEF Publication, Handshake, Published, Existing, ThreadTypeOK
  <2>4. Ending'
    BY ZenonT(60) DEF Ending, Publication, Handshake, Published, Existing, ThreadTypeOK, TypeOK
  <2> QED  BY <2>1, <2>2, <2>3, <2>4, ZenonT(60)
<1>17. CASE InLoop
  <2> USE <1>17 DEF InLoop, WorkerStep, LoopThread, LoopCheck, LoopPoll, NoTask, RunTask
  <2>0. TypeOK'
    <3>1. CASE LoopCheck \/ LoopPoll \/ NoTask
      BY <3>1, ZenonT(60) DEF TypeOK, ThreadTypeOK
    <3>2. CASE RunTask
      <4> DEFINE S == 1..MaxTasks
      <4>0. /\ queue \in Seq(S) /\ queue # <<>> /\ ran \subseteq S
            /\ made \in 0..MaxTasks /\ ran' = ran \cup {Head(queue)}
            /\ \/ queue' = Tail(queue) /\ made' = made
               \/ /\ made < MaxTasks /\ made' = made + 1
                  /\ queue' = Append(Tail(queue), made + 1)
        BY <3>2, ZenonT(60) DEF TypeOK, ThreadTypeOK
      <4>1. queue' \in Seq(S) /\ made' \in 0..MaxTasks
        <5>1. made < MaxTasks => made + 1 \in S
          BY <4>0, TaskAssumption
        <5>2. made < MaxTasks => made + 1 \in 0..MaxTasks
          BY <4>0, TaskAssumption
        <5> HIDE DEF S
        <5> QED
          BY <4>0, <5>1, <5>2
      <4>2. ran' \subseteq S
        <5> HIDE DEF S
        <5> QED
          BY <4>0
      <4>3. quit_' \in BOOLEAN /\ task_quit' \in BOOLEAN
        BY <3>2, ZenonT(60) DEF TypeOK, ThreadTypeOK
      <4> QED
        BY <3>2, <4>1, <4>2, <4>3, ZenonT(60) DEF TypeOK, ThreadTypeOK
    <3> QED
      BY <3>1, <3>2, ZenonT(60)
  <2>1. ThreadTypeOK'  BY <2>0 DEF ThreadTypeOK
  <2>2. Handshake'     BY ZenonT(60) DEF Handshake, ThreadTypeOK
  <2>3. Publication'
    BY ZenonT(60) DEF Publication, Handshake, Published, Existing, ThreadTypeOK
  <2>4. Ending'
    BY DEF Ending, Publication, Handshake, Published, Existing, ThreadTypeOK, TypeOK
  <2> QED  BY <2>1, <2>2, <2>3, <2>4, ZenonT(60)
<1>18. CASE RunReturn
  <2> USE <1>18 DEF RunReturn, WorkerStep
  <2>0. TypeOK'        BY TaskAssumption, ZenonT(60) DEF TypeOK, ThreadTypeOK
  <2>1. ThreadTypeOK'
    <3>1. alive' \in BOOLEAN  BY ZenonT(60) DEF ThreadTypeOK
    <3> QED  BY <2>0, <3>1 DEF ThreadTypeOK
  <2>2. Handshake'     BY ZenonT(60) DEF Handshake, ThreadTypeOK
  <2>3. Publication'
    BY ZenonT(60) DEF Publication, Handshake, Published, Existing, ThreadTypeOK
  <2>4. Ending'
    BY ZenonT(60) DEF Ending, Publication, Handshake, Published, Existing, ThreadTypeOK, TypeOK
  <2> QED  BY <2>1, <2>2, <2>3, <2>4, ZenonT(60)
<1>19. CASE UNCHANGED vars
  <2> USE <1>19 DEF vars, threadVars
  <2>0. TypeOK'        BY TaskAssumption, ZenonT(60) DEF TypeOK, ThreadTypeOK
  <2>1. ThreadTypeOK'  BY <2>0 DEF ThreadTypeOK
  <2>2. Handshake'     BY ZenonT(60) DEF Handshake, ThreadTypeOK
  <2>3. Publication'
    BY ZenonT(60) DEF Publication, Handshake, Published, Existing, ThreadTypeOK
  <2>4. Ending'
    BY ZenonT(60) DEF Ending, Publication, Handshake, Published, Existing, ThreadTypeOK, TypeOK
  <2> QED  BY <2>1, <2>2, <2>3, <2>4, ZenonT(60)
<1> QED
  BY <1>1, <1>2, <1>3, <1>4, <1>5, <1>6, <1>7, <1>8, <1>9, <1>10,
     <1>11, <1>12, <1>13, <1>14, <1>15, <1>16, <1>17, <1>18, <1>19, ZenonT(60)
  DEF Next, Owner, OwnerContinues, Worker, Terminated

\* The inductive invariant holds in every state of the owner and the thread.
LEMMA AlwaysIInv == Spec => []IInv
BY InitIInv, NextIInv, PTL DEF Spec

\* Type correctness of the two threads and the loop.
THEOREM ThreadTypeCorrect == Spec => []ThreadTypeOK
BY AlwaysIInv, PTL DEF IInv

\* Start, GetLoopInThread, run and the destructor hand over a thread that has
\* been started and a loop that exists, for any number of tasks.
THEOREM HandoverCorrect == Spec => []LoopExists
<1>1. IInv => LoopExists
  BY ZenonT(60) DEF IInv, ThreadTypeOK, Handshake, Publication, Ending, Published,
         Existing, LoopExists
<1> QED
  BY <1>1, AlwaysIInv, PTL
=============================================================================
