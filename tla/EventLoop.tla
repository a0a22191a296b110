----------------------------- MODULE EventLoop -----------------------------
(***************************************************************************)
(* An EventLoop as a scheduler of tasks: Loop, RunTaskFuncs, RunInLoop,     *)
(* QueueInLoop, Quit, Wakeup and HandleWakeupEvent.  The I/O channels are   *)
(* in ChannelLoop; queue_task_funcs_ is the first-in-first-out queue that   *)
(* TaskQueue implements.  Tasks are numbered in the order they are queued.  *)
(*                                                                         *)
(* These are the actions of the loop's thread and of the threads that use   *)
(* it; EventLoopThread puts them together for a loop in its own thread.     *)
(***************************************************************************)
EXTENDS Naturals, Sequences

CONSTANT MaxTasks    \* bound: tasks made

ASSUME TaskAssumption == MaxTasks \in Nat

VARIABLES
  quit_,        \* EventLoop::quit_
  lpc,          \* where the loop's thread is
  queue,        \* queue_task_funcs_
  made,         \* history: tasks made so far
  ran,          \* history: the tasks that have run
  task_quit,    \* history: a task has called Quit
  wakeup_fd_    \* the counter of the eventfd

loopVars == <<quit_, lpc, queue, made, ran, task_quit, wakeup_fd_>>

TypeOK ==
  /\ quit_ \in BOOLEAN
  /\ lpc \in {"out", "check", "poll", "task"}
  /\ queue \in Seq(1..MaxTasks)
  /\ made \in 0..MaxTasks
  /\ ran \subseteq 1..MaxTasks
  /\ task_quit \in BOOLEAN
  /\ wakeup_fd_ \in Nat

\* The constructor.
LoopInit ==
  /\ quit_ = FALSE
  /\ lpc = "out"
  /\ queue = <<>>
  /\ made = 0
  /\ ran = {}
  /\ task_quit = FALSE
  /\ wakeup_fd_ = 0

-----------------------------------------------------------------------------
(* The thread that owns the loop.                                           *)

LoopEnter ==
  /\ lpc = "out"
  /\ lpc' = "check"
  /\ quit_' = FALSE
  /\ UNCHANGED <<queue, made, ran, task_quit, wakeup_fd_>>

\* while (!quit_).  The slip ends the loop with the first task.
LoopCheck_OneTask ==
  /\ lpc = "check"
  /\ lpc' = IF quit_ \/ ran # {} THEN "out" ELSE "poll"
  /\ UNCHANGED <<quit_, queue, made, ran, task_quit, wakeup_fd_>>

LoopCheck ==
  /\ lpc = "check"
  /\ lpc' = IF quit_ THEN "out" ELSE "poll"
  /\ UNCHANGED <<quit_, queue, made, ran, task_quit, wakeup_fd_>>

\* Poll(0) never blocks.  HandleWakeupEvent would ask read(2) for 4 bytes of
\* the eventfd, which fails (EINVAL) and changes nothing.
LoopPoll_Reset ==
  /\ lpc = "poll" /\ lpc' = "task"
  /\ quit_' = FALSE
  /\ UNCHANGED <<queue, made, ran, task_quit, wakeup_fd_>>

LoopPoll ==
  /\ lpc = "poll"
  /\ lpc' = "task"
  /\ UNCHANGED <<quit_, queue, made, ran, task_quit, wakeup_fd_>>

\* RunTaskFuncs with nothing to do.  The slip calls the empty Functor, 0.
NoTask_Runs ==
  /\ lpc = "task" /\ queue = <<>>
  /\ lpc' = "check"
  /\ ran' = ran \cup {0}
  /\ UNCHANGED <<quit_, queue, made, task_quit, wakeup_fd_>>

NoTask ==
  /\ lpc = "task" /\ queue = <<>>
  /\ lpc' = "check"
  /\ UNCHANGED <<quit_, queue, made, ran, task_quit, wakeup_fd_>>

\* RunTaskFuncs runs one task, which may call Quit, or queue a task.
\* (RunInLoop in this thread is a plain call.)
RunTask_Lost ==
  /\ lpc = "task" /\ queue # <<>>
  /\ lpc' = "check"
  /\ queue' = Tail(queue)
  /\ ran' = IF quit_ THEN ran ELSE ran \cup {Head(queue)}
  /\ UNCHANGED <<quit_, made, task_quit, wakeup_fd_>>

RunTask ==
  /\ lpc = "task" /\ queue # <<>>
  /\ lpc' = "check"
  /\ ran' = ran \cup {Head(queue)}
  /\ \/ queue' = Tail(queue) /\ UNCHANGED <<quit_, task_quit, made>>
     \/ queue' = Tail(queue) /\ quit_' = TRUE /\ task_quit' = TRUE /\ UNCHANGED made
     \/ /\ made < MaxTasks /\ made' = made + 1
        /\ queue' = Append(Tail(queue), made + 1)
        /\ UNCHANGED <<quit_, task_quit>>
  /\ UNCHANGED wakeup_fd_

-----------------------------------------------------------------------------
(* Other threads.                                                           *)

\* RunInLoop in another thread is QueueInLoop.  Neither wakes the loop up.
QueueInLoop ==
  /\ made < MaxTasks
  /\ made' = made + 1
  /\ queue' = Append(queue, made + 1)
  /\ UNCHANGED <<quit_, lpc, ran, task_quit, wakeup_fd_>>

\* The first step of Quit in another thread; the second is Wakeup.
Quit ==
  /\ quit_' = TRUE
  /\ UNCHANGED <<lpc, queue, made, ran, task_quit, wakeup_fd_>>

\* write(2) of n bytes to an eventfd adds to its counter, or fails with
\* EINVAL when n is less than 8.
eventfd_write(n) == IF n < 8 THEN wakeup_fd_ ELSE wakeup_fd_ + 1

\* Wakeup writes a uint32_t.
Wakeup ==
  /\ wakeup_fd_' = eventfd_write(4)
  /\ UNCHANGED <<quit_, lpc, queue, made, ran, task_quit>>

-----------------------------------------------------------------------------
LoopThread == LoopCheck \/ LoopPoll \/ NoTask \/ RunTask

-----------------------------------------------------------------------------
\* Quit() ends a Loop() that has begun, whoever calls it and although the
\* write of Wakeup() fails: Poll(0) does not block.
QuitReturns == quit_ /\ lpc # "out" ~> lpc = "out"

\* A queued task runs, unless Loop() returns before its turn; then it is
\* still in the queue.  A loop that is entered again would run it; run() of
\* EventLoopThread destroys its loop, and the task with it.
QueuedIsRun ==
  \A t \in 1..MaxTasks :
    /\ t <= made ~> t \in ran \/ lpc = "out"
    /\ [](t <= made => t \in ran \/ \E i \in 1..Len(queue) : queue[i] = t)
=============================================================================
