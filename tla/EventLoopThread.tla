-------------------------- MODULE EventLoopThread --------------------------
(***************************************************************************)
(* The life of an EventLoopThread: the thread that owns the object starts   *)
(* it, fetches the loop, posts tasks and destroys it; the thread inside     *)
(* (EncThread::ThreadFunc) makes the EventLoop, publishes it in loop_, runs  *)
(* Loop() and destroys the EventLoop when Loop() returns.                   *)
(***************************************************************************)
EXTENDS EventLoop

VARIABLES
  opc,         \* where the owner is
  wpc,         \* where the thread is
  started_,    \* EncThread::started_
  quited_,     \* EncThread::quited_
  mutex_,      \* EncThread::mutex_ is locked (by Start)
  loop_,       \* EventLoopThread::loop_ is not null
  notified,    \* cond_ has been notified
  got,         \* what GetLoopInThread returned
  alive,       \* the EventLoop exists
  derived,     \* the EventLoopThread part of the object exists
  misuse,      \* history: the calls that used something destroyed
  spurious,    \* history: cond_.wait has returned without a notification
  early        \* history: the destructor began before Loop() did

threadVars == <<opc, wpc, started_, quited_, mutex_, loop_, notified, got,
                alive, derived, misuse, spurious, early>>
vars == <<loopVars, threadVars>>

ThreadTypeOK ==
  /\ TypeOK
  /\ opc \in {"constructed", "starting", "started", "waiting", "using", "wakeup",
              "base", "joining", "done"}
  /\ wpc \in {"none", "created", "cond_wait", "run", "base_run",
              "publish", "enter", "loop", "exit", "finished"}
  /\ started_ \in BOOLEAN /\ quited_ \in BOOLEAN /\ mutex_ \in BOOLEAN
  /\ loop_ \in BOOLEAN /\ notified \in BOOLEAN /\ alive \in BOOLEAN
  /\ derived \in BOOLEAN /\ spurious \in BOOLEAN /\ early \in BOOLEAN
  /\ misuse \subseteq {"QueueInLoop", "Quit", "Wakeup", "run"}
  /\ got \in {"none", "loop", "null"}

Init ==
  /\ LoopInit
  /\ opc = "constructed" /\ wpc = "none"
  /\ started_ = FALSE /\ quited_ = FALSE /\ mutex_ = FALSE
  /\ loop_ = FALSE /\ notified = FALSE /\ got = "none"
  /\ alive = FALSE /\ derived = TRUE /\ misuse = {}
  /\ spurious = FALSE /\ early = FALSE

\* A call uses an object, which exists or not.
Uses(call, exists) == misuse' = IF exists THEN misuse ELSE misuse \cup {call}

-----------------------------------------------------------------------------
(* The owner.                                                               *)

\* EncThread::Start holds mutex_ from before the thread exists until
\* started_ is set.
Start ==
  /\ opc = "constructed" /\ opc' = "starting"
  /\ mutex_' = TRUE
  /\ wpc' = "created"
  /\ UNCHANGED <<loopVars, started_, quited_, loop_, notified, got, alive,
                 derived, misuse, spurious, early>>

StartReturn ==
  /\ opc = "starting" /\ opc' = "started"
  /\ started_' = TRUE
  /\ wpc' = IF wpc = "cond_wait" THEN "run" ELSE wpc
  /\ mutex_' = FALSE
  /\ UNCHANGED <<loopVars, quited_, loop_, notified, got, alive, derived,
                 misuse, spurious, early>>

\* GetLoopInThread.  A wait that ends is not followed by another look.
GetLoopInThread ==
  /\ opc = "started"
  /\ IF loop_ THEN opc' = "using" /\ got' = "loop"
     ELSE opc' = "waiting" /\ UNCHANGED got
  /\ UNCHANGED <<loopVars, wpc, started_, quited_, mutex_, loop_, notified,
                 alive, derived, misuse, spurious, early>>

GetLoopReturn ==
  /\ opc = "waiting" /\ notified
  /\ opc' = "using"
  /\ got' = IF loop_ THEN "loop" ELSE "null"
  /\ UNCHANGED <<loopVars, wpc, started_, quited_, mutex_, loop_, notified,
                 alive, derived, misuse, spurious, early>>

\* std::condition_variable::wait may return for no reason.
SpuriousWakeup ==
  /\ opc = "waiting" /\ ~notified
  /\ opc' = "using"
  /\ got' = IF loop_ THEN "loop" ELSE "null"
  /\ spurious' = TRUE
  /\ UNCHANGED <<loopVars, wpc, started_, quited_, mutex_, loop_, notified,
                 alive, derived, misuse, early>>

\* The owner posts to the loop it got.
Post ==
  /\ opc = "using" /\ got = "loop"
  /\ QueueInLoop
  /\ Uses("QueueInLoop", alive)
  /\ UNCHANGED <<opc, wpc, started_, quited_, mutex_, loop_, notified, got,
                 alive, derived, spurious, early>>

BeforeLoop == {"created", "cond_wait", "run", "publish", "enter"}

MayDestroy == opc \in {"constructed", "started", "using"}

\* ~EventLoopThread with a loop: Quit(), and Wakeup() as its second step.
DestroyQuit_Missing ==
  /\ MayDestroy /\ loop_
  /\ opc' = "base" /\ derived' = FALSE
  /\ early' = (wpc \in BeforeLoop)
  /\ UNCHANGED <<loopVars, wpc, started_, quited_, mutex_, loop_, notified,
                 got, alive, misuse, spurious>>

DestroyQuit ==
  /\ MayDestroy /\ loop_
  /\ Quit
  /\ opc' = "wakeup"
  /\ Uses("Quit", alive)
  /\ early' = (wpc \in BeforeLoop)
  /\ UNCHANGED <<wpc, started_, quited_, mutex_, loop_, notified, got, alive,
                 derived, spurious>>

DestroyWakeup ==
  /\ opc = "wakeup"
  /\ Wakeup
  /\ opc' = "base" /\ derived' = FALSE
  /\ Uses("Wakeup", alive)
  /\ UNCHANGED <<wpc, started_, quited_, mutex_, loop_, notified, got, alive,
                 spurious, early>>

\* ~EventLoopThread without a loop.
DestroyNoLoop ==
  /\ MayDestroy /\ ~loop_
  /\ opc' = "base" /\ derived' = FALSE
  /\ early' = (wpc \in BeforeLoop)
  /\ UNCHANGED <<loopVars, wpc, started_, quited_, mutex_, loop_, notified,
                 got, alive, misuse, spurious>>

\* ~EncThread
DestroyBase ==
  /\ opc = "base"
  /\ IF wpc = "none" THEN opc' = "done" /\ UNCHANGED quited_
     ELSE opc' = "joining" /\ quited_' = TRUE
  /\ UNCHANGED <<loopVars, wpc, started_, mutex_, loop_, notified, got, alive,
                 derived, misuse, spurious, early>>

Joined ==
  /\ opc = "joining" /\ wpc = "finished"
  /\ opc' = "done"
  /\ UNCHANGED <<loopVars, wpc, started_, quited_, mutex_, loop_, notified, got,
                 alive, derived, misuse, spurious, early>>

-----------------------------------------------------------------------------
(* The thread.                                                              *)

WorkerStep(from, to) ==
  /\ wpc = from /\ wpc' = to
  /\ UNCHANGED <<opc, started_, quited_, mutex_, got, derived, spurious, early>>

\* EncThread::ThreadFunc.  (It would look at quited_ after a wait, and there
\* is none: LoopExists.)
ThreadFunc ==
  /\ ~mutex_
  /\ WorkerStep("created", IF started_ THEN "run" ELSE "cond_wait")
  /\ UNCHANGED <<loopVars, loop_, notified, alive, misuse>>

\* run() is virtual: once ~EventLoopThread is through it is EncThread::run.
Run ==
  /\ WorkerStep("run", IF derived THEN "publish" ELSE "base_run")
  /\ alive' = derived
  /\ UNCHANGED <<loopVars, loop_, notified, misuse>>

BaseRun ==
  /\ quited_
  /\ WorkerStep("base_run", "finished")
  /\ UNCHANGED <<loopVars, loop_, notified, alive, misuse>>

\* EventLoopThread::run up to Loop(), and from there.
Publish_NoNotify ==
  /\ WorkerStep("publish", "enter")
  /\ loop_' = TRUE
  /\ Uses("run", derived)
  /\ UNCHANGED <<loopVars, notified, alive>>

Publish ==
  /\ WorkerStep("publish", "enter")
  /\ loop_' = TRUE
  /\ notified' = (opc = "waiting")
  /\ Uses("run", derived)
  /\ UNCHANGED <<loopVars, alive>>

RunLoop ==
  /\ WorkerStep("enter", "loop")
  /\ LoopEnter
  /\ UNCHANGED <<loop_, notified, alive, misuse>>

InLoop ==
  /\ wpc = "loop" /\ LoopThread
  /\ WorkerStep("loop", IF lpc' = "out" THEN "exit" ELSE "loop")
  /\ UNCHANGED <<loop_, notified, alive, misuse>>

\* ~EventLoop; loop_ keeps pointing to it.
RunReturn ==
  /\ WorkerStep("exit", "finished")
  /\ alive' = FALSE
  /\ UNCHANGED <<loopVars, loop_, notified, misuse>>

-----------------------------------------------------------------------------
Worker ==
  \/ ThreadFunc
  \/ Run \/ BaseRun
  \/ Publish \/ RunLoop \/ InLoop \/ RunReturn

\* What the owner does not choose: the rest of the calls it has begun.
OwnerContinues ==
  \/ StartReturn \/ GetLoopReturn
  \/ DestroyWakeup \/ DestroyBase \/ Joined

Owner ==
  \/ Start \/ GetLoopInThread \/ SpuriousWakeup \/ Post
  \/ DestroyQuit \/ DestroyNoLoop
  \/ OwnerContinues

\* The object is gone and its thread has ended.
Terminated == opc = "done" /\ UNCHANGED vars

Next == Worker \/ Owner \/ Terminated

Spec == Init /\ [][Next]_vars
FairSpec == Spec /\ WF_vars(Worker) /\ WF_vars(OwnerContinues)

-----------------------------------------------------------------------------
\* What the two threads hand each other is there.  The thread cannot see
\* started_ unset, so no notification of condition_ can be missed.
\* GetLoopInThread returns a loop, unless its wait ends for no reason.  As
\* long as no task calls Quit(), that loop exists until the destructor begins
\* and when the destructor calls Quit(); and run() has the object it publishes
\* the loop in.
LoopExists ==
  /\ wpc # "cond_wait"
  /\ got = "null" => spurious
  /\ opc = "using" /\ got = "loop" => alive \/ task_quit
  /\ "Quit" \in misuse => task_quit
  /\ "run" \in misuse => got # "loop"

\* GetLoopInThread returns.
GetLoopReturns == opc = "waiting" ~> opc = "using"

\* The destructor returns, unless it began when the thread was on its way
\* to Loop(); and then too if the thread finds EncThread::run instead.
DestructorReturns ==
  /\ opc \in {"wakeup", "base", "joining"}
  /\ ~early \/ wpc = "base_run"
  ~> opc = "done"

\* "notifiy the loop exit.": the Quit() of the destructor ends the loop that
\* the owner got, and so the join of the thread, and the destructor returns.
DestructorAlwaysReturns == opc = "wakeup" /\ got = "loop" ~> opc = "done"
=============================================================================
