----------------------------- MODULE TcpServer -----------------------------
(***************************************************************************)
(* TcpServer with its TcpAcceptor, the choice of a loop by                  *)
(* EventLoopThreadPool, and all the connections of the server: the table    *)
(* connections_ keyed by descriptor, the loops that establish and remove    *)
(* connections, and the process's descriptor table they all draw from.      *)
(*                                                                         *)
(* A connection is reduced to the stages of ConnectionLife.  Loop 0 is      *)
(* server_loop_, loops 1, 2, ... are those of the pool.  AcceptHandle makes *)
(* one step per system call, for the other threads open and close           *)
(* descriptors in between.  QueueInLoop is an atomic append here.           *)
(***************************************************************************)
EXTENDS Integers, Sequences

CONSTANTS
  ThreadNums,            \* what SetThreadNum may be given
  hardware_concurrency,  \* of std::thread
  LowFds,                \* descriptors the application has opened earlier
  FdLimit,               \* descriptor numbers the process may use
  AcceptErrors,          \* errors of accept(2) besides EAGAIN and EMFILE, and
                         \* those of open(2) that are among them
  MaxArrivals,           \* bound: clients that connect
  MaxCloses,             \* bound: calls of close_cb_ per connection
  MaxOpens               \* bound: descriptors the application opens later

ASSUME ServerAssumption ==
  /\ ThreadNums \subseteq Nat
  /\ {hardware_concurrency, LowFds, FdLimit, MaxArrivals, MaxCloses,
      MaxOpens} \subseteq Nat
  /\ LowFds + 2 <= FdLimit

Fds == 0..(FdLimit - 1)
Conns == 1..MaxArrivals
Loops == 0..hardware_concurrency

\* What a descriptor refers to: nothing, the listening socket, /dev/null, a
\* file of the application, a connection that recovery has accepted, or the
\* socket of the connection with that number.
Free == 0
Listening == -1
DevNull == -2
App == -3
Dropped == -4

\* The constructor opens the socket and then /dev/null; idle_fd_ is never
\* assigned again.
socket_ == LowFds
idle_fd_ == LowFds + 1

NoConn == 0
Do(name, c) == [op |-> name, conn |-> c]
Task ==
  {Do("Listen", NoConn)} \cup
  [op : {"ConnectEstablished", "RemoveConnectionInLoop", "ConnectDestoryed"},
   conn : Conns]

VARIABLES
  thread_num_, started_,
  loop_list_,      \* number of loops in the pool
  files,           \* the descriptor table of the process
  listening,       \* Listen has run
  ready,           \* the listening socket is on epoll's ready list
  backlog,         \* connections waiting to be accepted
  arrivals,        \* clients that have connected so far
  spc,             \* where loop 0 is in AcceptHandle, or "loop"
  connections_,    \* TcpServer::connections_
  list,            \* evt_channel_list_ of the loops: a number has one loop
  conns,           \* TcpConnection objects created so far
  fd_,             \* their descriptors
  state_,          \* their states
  closes,          \* calls of close_cb_
  held,            \* connections the application holds a shared_ptr to
  gone,            \* destroyed connections
  queue,           \* queue_task_funcs_ of every loop
  exists,          \* ~TcpServer has not run
  opens, disturbed \* see the application's part below

config == <<thread_num_, started_, loop_list_>>
socket == <<listening, ready, backlog, arrivals>>
objects == <<conns, fd_, state_, closes>>
app == <<opens, disturbed>>
vars == <<config, files, socket, spc, connections_, list, objects, held, gone,
          queue, exists, app>>

Flags ==
  /\ started_ \in BOOLEAN /\ listening \in BOOLEAN /\ ready \in BOOLEAN
  /\ exists \in BOOLEAN /\ disturbed \in BOOLEAN
Counts ==
  /\ thread_num_ \in Loops /\ loop_list_ \in Loops
  /\ backlog \in 0..MaxArrivals /\ arrivals \in 0..MaxArrivals
  /\ conns \in 0..MaxArrivals /\ opens \in 0..MaxOpens
Tables ==
  /\ files \in [Fds -> -4..MaxArrivals]
  /\ connections_ \in [Fds -> Conns \cup {NoConn}]
  /\ list \in [Fds -> Conns \cup {NoConn}]
  /\ fd_ \in [Conns -> Fds]
  /\ state_ \in [Conns -> {"CONNECTING", "CONNECTED", "DISCONNECTED"}]
  /\ closes \in [Conns -> 0..MaxCloses]
  /\ held \subseteq Conns /\ gone \subseteq Conns
TypeOK ==
  /\ Flags /\ Counts /\ Tables
  /\ spc \in {"loop", "accept", "close", "reaccept", "reclose", "reopen"}
  /\ queue \in [Loops -> Seq(Task)]

Init ==
  /\ thread_num_ = 0 /\ started_ = FALSE /\ loop_list_ = 0
  /\ files = [f \in Fds |-> IF f < LowFds THEN App
                            ELSE IF f = socket_ THEN Listening
                            ELSE IF f = idle_fd_ THEN DevNull ELSE Free]
  /\ listening = FALSE /\ ready = FALSE /\ backlog = 0 /\ arrivals = 0
  /\ spc = "loop"
  /\ connections_ = [f \in Fds |-> NoConn]
  /\ list = [f \in Fds |-> NoConn]
  /\ conns = 0
  /\ fd_ = [c \in Conns |-> 0]
  /\ state_ = [c \in Conns |-> "CONNECTING"]
  /\ closes = [c \in Conns |-> 0]
  /\ held = {} /\ gone = {}
  /\ queue = [l \in Loops |-> <<>>]
  /\ exists = TRUE
  /\ opens = 0 /\ disturbed = FALSE

-----------------------------------------------------------------------------
(* Descriptors and shared_ptrs.                                             *)

\* open(2), socket(2) and accept(2) use the lowest free number.
FreeFds == {f \in Fds : files[f] = Free}
Lowest == CHOOSE f \in FreeFds : \A g \in FreeFds : f <= g

\* GetEventLoopFromPoolForHash: index of the loop of a descriptor.
LoopOf(f) == IF loop_list_ = 0 THEN 0 ELSE 1 + (f % loop_list_)

\* A slip: a queued task holds no shared_ptr.
Unreferenced_NoTasks(table, q, h) ==
  {c \in 1..conns : c \notin h /\ \A f \in Fds : table[f] # c}

\* The connections no shared_ptr refers to, when the table, the queues and
\* the application are as given.
Unreferenced(table, q, h) ==
  {c \in 1..conns :
     /\ \A f \in Fds : table[f] # c
     /\ \A l \in Loops : \A i \in 1..Len(q[l]) : q[l][i].conn # c
     /\ c \notin h}

\* A step that may drop shared_ptrs: ~TcpConnection runs ~Socket, which
\* closes the number the object was created with.  fs is what the step has
\* otherwise made of the descriptor table.
Drop(table, q, h, fs) ==
  LET dead == Unreferenced(table, q, h)
  IN  /\ connections_' = table /\ queue' = q /\ held' = h
      /\ gone' = dead
      /\ files' = [f \in Fds |-> IF \E c \in dead \ gone : fd_[c] = f
                                 THEN Free ELSE fs[f]]

-----------------------------------------------------------------------------
(* Setting up.                                                              *)

\* A slip: the number of threads is not capped.
SetThreadNum_NoCap(n) ==
  /\ exists /\ ~started_
  /\ thread_num_' = n
  /\ UNCHANGED <<started_, loop_list_, files, socket, spc, connections_, list,
                 objects, held, gone, queue, exists, app>>

SetThreadNum(n) ==
  /\ exists /\ ~started_
  /\ thread_num_' = IF n > hardware_concurrency THEN hardware_concurrency ELSE n
  /\ UNCHANGED <<started_, loop_list_, files, socket, spc, connections_, list,
                 objects, held, gone, queue, exists, app>>

\* EventLoopThreadPool::Initialize starts the threads and waits for their
\* loops.
Initialize == loop_list_' = thread_num_

\* A second Start, or a weak compare-exchange that fails, changes nothing.
Start ==
  /\ exists /\ ~started_
  /\ started_' = TRUE
  /\ Initialize
  /\ queue' = [queue EXCEPT ![0] = Append(@, Do("Listen", NoConn))]
  /\ UNCHANGED <<thread_num_, files, socket, spc, connections_, list, objects,
                 held, gone, exists, app>>

-----------------------------------------------------------------------------
(* Clients, and AcceptHandle in loop 0.  accept(2) takes a number before it *)
(* looks for a connection: a full table is EMFILE even with nothing to do.  *)

Arrive ==
  /\ exists /\ listening /\ arrivals < MaxArrivals
  /\ arrivals' = arrivals + 1 /\ backlog' = backlog + 1 /\ ready' = TRUE
  /\ UNCHANGED <<config, files, listening, spc, connections_, list, objects,
                 held, gone, queue, exists, app>>

AcceptEvent ==
  /\ exists /\ spc = "loop" /\ ready /\ backlog > 0
  /\ ready' = FALSE /\ spc' = "accept"
  /\ UNCHANGED <<config, files, listening, backlog, arrivals, connections_,
                 list, objects, held, gone, queue, exists, app>>

\* TcpServer::NewConnected for descriptor f.  An entry of the table that is
\* already there is replaced.
NewConnected(f) ==
  LET c == conns + 1
      l == LoopOf(f)
      table == [connections_ EXCEPT ![f] = c]
      q == [queue EXCEPT ![l] = Append(@, Do("ConnectEstablished", c))]
  IN  /\ conns' = c
      /\ fd_' = [fd_ EXCEPT ![c] = f]
      /\ Drop(table, q, held, [files EXCEPT ![f] = c])

\* A slip: AcceptHandle returns after one connection.
AcceptNew_Once ==
  /\ spc = "accept" /\ FreeFds # {} /\ backlog > 0
  /\ NewConnected(Lowest)
  /\ backlog' = backlog - 1
  /\ spc' = "loop"
  /\ UNCHANGED <<config, listening, ready, arrivals, list, state_, closes,
                 exists, app>>

AcceptNew ==
  /\ spc = "accept" /\ FreeFds # {} /\ backlog > 0
  /\ NewConnected(Lowest)
  /\ backlog' = backlog - 1
  /\ UNCHANGED <<config, listening, ready, arrivals, spc, list, state_, closes,
                 exists, app>>

\* EAGAIN: nothing is waiting.
AcceptAgain ==
  /\ spc = "accept" /\ FreeFds # {} /\ backlog = 0
  /\ spc' = "loop"
  /\ UNCHANGED <<config, files, socket, connections_, list, objects, held,
                 gone, queue, exists, app>>

\* accept(2) may fail although a number is free.  Some errors report, and
\* take away, a connection that broke while it was waiting; the others
\* (ENFILE, ENOMEM, ENOBUFS, EINTR...) take nothing, and may come when
\* nothing waits.
TakingErrors == {"ECONNABORTED", "EPROTO", "EPERM"}

AcceptError(e) ==
  /\ FreeFds # {}
  /\ IF e \in TakingErrors
     THEN backlog > 0 /\ backlog' = backlog - 1
     ELSE UNCHANGED backlog

\* Any error but EAGAIN leads to the recovery: its condition is always true.
AcceptFails ==
  /\ spc = "accept"
  /\ \/ FreeFds = {} /\ UNCHANGED backlog
     \/ \E e \in AcceptErrors : AcceptError(e)
  /\ spc' = "close"
  /\ UNCHANGED <<config, files, listening, ready, arrivals, connections_, list,
                 objects, held, gone, queue, exists, app>>

\* One system call of the recovery.  close(2) of a free number is EBADF.
Recover(from, to, fs) ==
  /\ spc = from /\ spc' = to
  /\ files' = fs
  /\ UNCHANGED <<config, listening, ready, arrivals, connections_, list,
                 objects, held, gone, queue, exists, app>>

CloseIdle(from, to) ==
  /\ Recover(from, to, [files EXCEPT ![idle_fd_] = Free])
  /\ UNCHANGED backlog

Reaccept ==
  \/ /\ FreeFds # {} /\ backlog > 0
     /\ Recover("reaccept", "reclose", [files EXCEPT ![Lowest] = Dropped])
     /\ backlog' = backlog - 1
  \/ /\ Recover("reaccept", "reclose", files)
     /\ \/ (FreeFds = {} \/ backlog = 0) /\ UNCHANGED backlog
        \/ \E e \in AcceptErrors : AcceptError(e)

\* A slip: the reserve is not opened again.
Reopen_Missing == Recover("reopen", "accept", files) /\ UNCHANGED backlog

Reopen ==
  /\ Recover("reopen", "accept",
             IF FreeFds = {} THEN files ELSE [files EXCEPT ![Lowest] = DevNull])
  /\ UNCHANGED backlog

\* open(2) may fail for want of files or memory in the whole system; its
\* result is not looked at, and the reserve is gone.
ReopenFails ==
  /\ {"ENFILE", "ENOMEM"} \cap AcceptErrors # {}
  /\ spc = "reopen" /\ spc' = "accept"
  /\ disturbed' = TRUE
  /\ UNCHANGED <<config, files, socket, connections_, list, objects, held,
                 gone, queue, exists, opens>>

AcceptHandle ==
  \/ AcceptEvent \/ AcceptNew \/ AcceptAgain \/ AcceptFails
  \/ CloseIdle("close", "reaccept") \/ Reaccept
  \/ CloseIdle("reclose", "reopen") \/ Reopen \/ ReopenFails

-----------------------------------------------------------------------------
(* The loops: tasks, one per round, and the end of a connection.  Loop 0    *)
(* does neither while it is in AcceptHandle, nor after ~TcpServer, before   *)
(* which Loop() has returned.                                               *)

Runs(l) == IF l = 0 THEN exists /\ spc = "loop" ELSE l <= loop_list_

Task1(l, op) == Runs(l) /\ queue[l] # <<>> /\ Head(queue[l]).op = op

Listen ==
  /\ Task1(0, "Listen")
  /\ listening' = TRUE /\ ready' = TRUE
  /\ queue' = [queue EXCEPT ![0] = Tail(@)]
  /\ UNCHANGED <<config, files, backlog, arrivals, spc, connections_, list,
                 objects, held, gone, exists, app>>

\* conn_status_cb_ gives the application the connection; it may keep it.
ConnectEstablished(l) ==
  /\ Task1(l, "ConnectEstablished")
  /\ LET c == Head(queue[l]).conn
         q == [queue EXCEPT ![l] = Tail(@)]
     IN  /\ state_' = [state_ EXCEPT ![c] = "CONNECTED"]
         /\ list' = [list EXCEPT ![fd_[c]] = c]
         /\ \E h \in {held, held \cup {c}} : Drop(connections_, q, h, files)
  /\ UNCHANGED <<config, socket, spc, conns, fd_, closes, exists, app>>

\* TcpServer::RemoveConnectionInLoop, with the queues as the caller leaves
\* them.  Slips: the connection is not erased; the reference is dropped
\* before the connection's loop is done with it.
RemoveConnectionInLoop_NoErase(c, q) ==
  LET l == LoopOf(fd_[c])
  IN  Drop(connections_,
           [q EXCEPT ![l] = Append(@, Do("ConnectDestoryed", c))], held, files)
RemoveConnectionInLoop_NoQueue(c, q) ==
  Drop([connections_ EXCEPT ![fd_[c]] = NoConn], q, held, files)

RemoveConnectionInLoop(c, q) ==
  LET l == LoopOf(fd_[c])
  IN  Drop([connections_ EXCEPT ![fd_[c]] = NoConn],
           [q EXCEPT ![l] = Append(@, Do("ConnectDestoryed", c))], held, files)

RunRemoveConnection ==
  /\ Task1(0, "RemoveConnectionInLoop")
  /\ RemoveConnectionInLoop(Head(queue[0]).conn,
                            [queue EXCEPT ![0] = Tail(@)])
  /\ UNCHANGED <<config, socket, spc, list, objects, exists, app>>

ConnectDestoryed(l) ==
  /\ Task1(l, "ConnectDestoryed")
  /\ LET c == Head(queue[l]).conn
     IN  /\ list' = [list EXCEPT ![fd_[c]] = NoConn]
         /\ Drop(connections_, [queue EXCEPT ![l] = Tail(@)], held, files)
  /\ UNCHANGED <<config, socket, spc, objects, exists, app>>

\* TcpConnection::CloseHandler in the connection's loop, and close_cb_, which
\* is TcpServer::RemoveConnection.  A registered channel may be closed again.
\* A loop of the pool may get here after ~TcpServer too, for a connection
\* the application holds or a queued task: close_cb_ is bound to a raw this,
\* and what is modelled of the use of the destroyed server is the build in
\* which its server_loop_ can still be read: the task goes to a queue that
\* nobody empties.
CloseHandler(c) ==
  /\ Runs(LoopOf(fd_[c]))
  /\ list[fd_[c]] = c /\ c \notin gone /\ closes[c] < MaxCloses
  /\ state_' = [state_ EXCEPT ![c] = "DISCONNECTED"]
  /\ closes' = [closes EXCEPT ![c] = @ + 1]
  /\ IF loop_list_ = 0
     THEN RemoveConnectionInLoop(c, queue)
     ELSE /\ queue' = [queue EXCEPT ![0] =
                         Append(@, Do("RemoveConnectionInLoop", c))]
          /\ UNCHANGED <<connections_, held, gone, files>>
  /\ UNCHANGED <<config, socket, spc, list, conns, fd_, exists, app>>

Loop(l) ==
  \/ ConnectEstablished(l) \/ ConnectDestoryed(l)
  \/ l = 0 /\ (Listen \/ RunRemoveConnection \/ AcceptHandle)

-----------------------------------------------------------------------------
(* The application: it drops its shared_ptrs, opens and closes descriptors  *)
(* of its own, and destroys the server after server_loop_ has returned.     *)
(* disturbed remembers that a number up to idle_fd_ changed hands, or that  *)
(* the reserve could not be opened again.                                   *)

Release(c) ==
  /\ c \in held
  /\ Drop(connections_, queue, held \ {c}, files)
  /\ UNCHANGED <<config, socket, spc, list, objects, exists, app>>

AppOpen ==
  /\ opens < MaxOpens /\ FreeFds # {}
  /\ opens' = opens + 1
  /\ files' = [files EXCEPT ![Lowest] = App]
  /\ disturbed' = (disturbed \/ Lowest <= idle_fd_)
  /\ UNCHANGED <<config, socket, spc, connections_, list, objects, held, gone,
                 queue, exists>>

AppClose(f) ==
  /\ files[f] = App
  /\ files' = [files EXCEPT ![f] = Free]
  /\ disturbed' = (disturbed \/ f <= idle_fd_)
  /\ UNCHANGED <<config, socket, spc, connections_, list, objects, held, gone,
                 queue, exists, opens>>

\* ~TcpServer: connections_, then acceptor_ with its two descriptors.
DestroyServer ==
  /\ exists /\ spc = "loop"
  /\ exists' = FALSE
  /\ Drop([f \in Fds |-> NoConn], queue, held,
          [files EXCEPT ![socket_] = Free, ![idle_fd_] = Free])
  /\ UNCHANGED <<config, socket, spc, list, objects, app>>

Environment ==
  \/ \E n \in ThreadNums : SetThreadNum(n)
  \/ Start \/ Arrive
  \/ \E c \in Conns : CloseHandler(c) \/ Release(c)
  \/ AppOpen \/ \E f \in Fds : AppClose(f)
  \/ DestroyServer

Next == Environment \/ \E l \in Loops : Loop(l)

Spec == Init /\ [][Next]_vars

\* The loops go round.  Nothing is assumed of the environment.
FairSpec == Spec /\ \A l \in Loops : WF_vars(Loop(l))

-----------------------------------------------------------------------------
Created == 1..conns
Alive == Created \ gone

\* connections_ holds every connection that is not closed, under its number:
\* erase() by number never hits another connection, although a number is
\* reused and close_cb_ may be called again late.
TableIsExact ==
  disturbed \/
    /\ \A f \in Fds : connections_[f] # NoConn =>
         connections_[f] \in Alive /\ fd_[connections_[f]] = f
    /\ exists => \A c \in Alive : state_[c] # "DISCONNECTED" =>
                                    connections_[fd_[c]] = c

\* A connection has its descriptor to itself for as long as the object
\* exists: neither the recovery of AcceptHandle, which closes idle_fd_ twice,
\* nor another connection's destructor closes it.  Outside the recovery
\* idle_fd_ is /dev/null and nothing that the recovery accepted is left open,
\* although it keeps neither the accepted nor the reopened descriptor.  All
\* of it holds for as long as the application has not opened or closed a
\* number up to idle_fd_ and open(2) has not failed to bring it back.
DescriptorsAreKept ==
  ~disturbed =>
    /\ \A c \in Alive : files[fd_[c]] = c
    /\ exists /\ spc \in {"loop", "accept"} =>
         files[idle_fd_] = DevNull /\ \A f \in Fds : files[f] # Dropped

\* A call of accept(2) that fails and takes nothing, although a number is
\* free: the system is out of files or memory, or a signal came.
AcceptRefused ==
  /\ FreeFds # {} /\ UNCHANGED backlog
  /\ \/ spc = "accept" /\ spc' = "close"
     \/ spc = "reaccept" /\ backlog > 0 /\ spc' = "reclose"

\* Every connection that arrives is accepted, or dropped by the recovery,
\* although the listening channel is edge-triggered and AcceptHandle, alone
\* in coming back to it, ends at EAGAIN only.  Errors of accept(2) delay it,
\* and nothing can be promised if they never end.
ArrivalIsHandled ==
  \/ []<><<AcceptRefused>>_vars
  \/ backlog > 0 /\ exists ~> backlog = 0 \/ ~exists

\* A closed connection nobody holds is destroyed and its descriptor closed,
\* unless AcceptHandle never returns.  That happens: with no free number left
\* accept(2) says EMFILE, never EAGAIN, so the loop goes round the recovery
\* until another thread gives a number back, and loop 0, which is to remove
\* the closed connections, does not get to it.  Errors such as ENFILE have
\* the same effect for as long as they last.
ClosedIsReleased ==
  \/ []<><<AcceptRefused>>_vars
  \/ \A c \in Conns :
       state_[c] = "DISCONNECTED" /\ c \notin held ~>
         \/ c \in gone \/ ~exists
         \/ [](spc # "loop" /\ FreeFds \subseteq {idle_fd_})

\* The stage a connection is in.
Stage(c) ==
  IF c \in gone THEN "gone"
  ELSE IF c \notin Created \/ state_[c] = "CONNECTING" THEN "new"
  ELSE IF connections_[fd_[c]] = c
       THEN IF state_[c] = "CONNECTED" THEN "open" ELSE "closed"
  ELSE IF list[fd_[c]] = c THEN "erased" ELSE "removed"

\* Every connection goes through the stages of ConnectionLife, the same ones
\* that TcpConnection goes through in detail: in particular it is destroyed
\* only after its channel has left the poller, and removed from the table
\* only after it was closed.  ~TcpServer, which destroys registered
\* connections, is not covered; a repeated call of close_cb_ is no step.
Closes(c) == IF closes[c] = 0 THEN 0 ELSE 1
Life(c) == INSTANCE ConnectionLife WITH stage <- Stage(c), closes <- Closes(c)
LifeIsKept ==
  [][\A c \in Conns : \/ ~exists' \/ disturbed'
                      \/ Life(c)!Next
                      \/ UNCHANGED <<Stage(c), Closes(c)>>]_vars
=============================================================================
