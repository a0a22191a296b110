--------------------------- MODULE TcpConnection ---------------------------
(***************************************************************************)
(* One TcpConnection from the moment TcpServer::NewConnected has created    *)
(* it to its destruction: the thread of its event loop (polling, the        *)
(* handlers of its channel, the tasks queued for it), a thread of the       *)
(* application that calls its public functions, the thread of the server's  *)
(* loop that removes it, and the kernel's socket with the peer behind it.   *)
(*                                                                         *)
(* A handler is one step, except where the code hands control to somebody   *)
(* else in between: ReadHandler makes one step per read(2) and one per      *)
(* message callback, Shutdown and ForceClose one per compare-exchange and   *)
(* one per QueueInLoop.  Bytes are numbered in the order in which           *)
(* SendInLoop takes them.  QueueInLoop is an atomic append here.            *)
(***************************************************************************)
EXTENDS EpollPoller, Naturals, Sequences

CONSTANTS
  channel_, fd_,     \* the connection's channel and descriptor
  Setups,            \* how the server may be set up: sets of SetupFlags
  highWaterMark_,    \* static highWaterMark_ of SendInLoop, in bytes
  UserCalls,         \* what the application's thread may call
  CallbackCalls,     \* what msg_cb_ may call
  PeerEnds,          \* how the peer may end the connection: "FIN", "RST"
  MsgSizes,          \* sizes of messages given to Send
  SndBuf,            \* bytes the kernel's send buffer holds
  MaxCalls,          \* bound: calls of Send, StartRead and StopRead
  MaxChunks,         \* bound: reads' worth of data the peer sends
  MaxQueue           \* bound: queue length at which the application waits

\* server_loop_ is the connection's loop (no thread pool); which of msg_cb_,
\* written_cb_ and high_water_cb_ are set.
SetupFlags == {"same_loop", "msg_cb_", "written_cb_", "high_water_cb_"}

ASSUME ConnectionAssumption ==
  /\ Channels = {channel_} /\ Fds = {fd_} /\ Fd[channel_] = fd_
  /\ Setups \subseteq SUBSET SetupFlags
  /\ MsgSizes \subseteq Nat \ {0}
  /\ {SndBuf, highWaterMark_, MaxCalls, MaxChunks, MaxQueue} \subseteq Nat

VARIABLES
  setup,           \* how the server is set up
  state_,          \* TcpConnection::state_
  poller,          \* its channel in the poller of its loop
  write_buffer_,   \* the bytes in write_buffer_
  queue,           \* queue_task_funcs_ of the connection's loop
  server_queue,    \* RemoveConnectionInLoop tasks queued at server_loop_
  connections_,    \* TcpServer::connections_ holds the connection
  held,            \* the application holds a shared_ptr to it
  pc,              \* what the loop thread does next
  recieved_events, \* EventChannel::recieved_events
  upc,             \* where the application's thread is in Shutdown/ForceClose
  sock,            \* the kernel's socket
  calls,           \* calls of Send, StartRead and StopRead so far
  accepted,        \* history: bytes SendInLoop has taken responsibility for
  wire,            \* history: bytes given to the kernel
  closes,          \* history: calls of close_cb_, 2 standing for more
  alive            \* the object exists

conn == <<state_, poller, write_buffer_>>
rest == <<setup, held, upc, calls, alive>>
hist == <<accepted, wire, closes>>
vars == <<setup, state_, poller, write_buffer_, queue, server_queue, connections_,
          held, pc, recieved_events, upc, sock, calls, accepted,
          wire, closes, alive>>

ConnState == {"CONNECTING", "CONNECTED", "DISCONNECTING", "DISCONNECTED"}
Calls == {"Send", "StartRead", "StopRead", "Shutdown", "ForceClose"}

Task ==
  [op : {"ConnectEstablished", "ConnectDestoryed", "StartReadInLoop",
         "StopReadInLoop", "ShutdownInLoop", "ForceCloseInLoop",
         "written_cb_", "high_water_cb_"}]
  \cup [op : {"SendInLoop"}, size : MsgSizes]

Do(name) == [op |-> name]

Events == {"IN", "OUT", "HUP", "ERR"}

\* What is to be read and was ever sent by the peer, what is to be taken by
\* it, its end, its reset, SO_ERROR, and whether the FIN has been sent.
Socket == [rcv : 0..MaxChunks, sent : 0..MaxChunks, snd : 0..SndBuf,
           rdhup : BOOLEAN, rst : BOOLEAN, err : BOOLEAN, fin : BOOLEAN]

TypeOK ==
  /\ setup \in Setups
  /\ state_ \in ConnState
  /\ poller \in PollerType
  /\ write_buffer_ \in Seq(Nat)
  /\ queue \in Seq(Task)
  /\ server_queue \in Nat
  /\ connections_ \in BOOLEAN /\ held \in BOOLEAN /\ alive \in BOOLEAN
  /\ pc \in {"poll", "close", "error", "read", "message", "write", "task"}
  /\ recieved_events \subseteq Events
  /\ upc \in {"idle", "shutdown", "force1", "force2", "force3"}
  /\ sock \in Socket
  /\ calls \in 0..MaxCalls
  /\ accepted \in Nat
  /\ wire \in Seq(Nat)
  /\ closes \in 0..2

\* NewConnected has put the connection into connections_ and queued
\* ConnectEstablished; the socket is connected.
Init ==
  /\ setup \in Setups
  /\ state_ = "CONNECTING"
  /\ poller = NewPoller
  /\ write_buffer_ = <<>>
  /\ queue = <<Do("ConnectEstablished")>>
  /\ server_queue = 0
  /\ connections_ = TRUE
  /\ held = FALSE
  /\ pc = "poll"
  /\ recieved_events = {}
  /\ upc = "idle"
  /\ sock = [rcv |-> 0, sent |-> 0, snd |-> 0, rdhup |-> FALSE,
             rst |-> FALSE, err |-> FALSE, fin |-> FALSE]
  /\ calls = 0
  /\ accepted = 0
  /\ wire = <<>>
  /\ closes = 0
  /\ alive = TRUE

-----------------------------------------------------------------------------
(* The kernel's socket and the peer.                                        *)

\* A wakeup of the socket puts a watched descriptor on the ready list.
Edge ==
  poller' = IF poller.data[fd_] = NoChannel
            THEN poller ELSE [poller EXCEPT !.ready = {fd_}]

PeerStep(s) ==
  /\ alive /\ ~sock.rst
  /\ sock' = s
  /\ Edge
  /\ UNCHANGED <<state_, write_buffer_, queue, server_queue, connections_, pc,
                 recieved_events, rest, hist>>

PeerData ==
  /\ sock.sent < MaxChunks /\ ~sock.rdhup
  /\ PeerStep([sock EXCEPT !.rcv = @ + 1, !.sent = @ + 1])
PeerFin ==
  /\ "FIN" \in PeerEnds /\ ~sock.rdhup
  /\ PeerStep([sock EXCEPT !.rdhup = TRUE])
PeerDrain == sock.snd > 0 /\ PeerStep([sock EXCEPT !.snd = @ - 1])
PeerReset ==
  /\ "RST" \in PeerEnds
  /\ PeerStep([sock EXCEPT !.rst = TRUE, !.err = TRUE, !.snd = 0])

\* poll(2) of the socket: the events epoll reports for it.
SocketEvents ==
  {ev \in Events :
     CASE ev = "IN"  -> sock.rcv > 0 \/ sock.rdhup \/ sock.rst
       [] ev = "OUT" -> sock.snd < SndBuf \/ sock.fin \/ sock.rst
       [] ev = "HUP" -> sock.rst \/ (sock.rdhup /\ sock.fin)
       [] ev = "ERR" -> sock.err}

\* write(2): its error, or "none" when it takes at least one byte.
WriteError ==
  IF sock.err THEN "ECONNRESET"
  ELSE IF sock.rst \/ sock.fin THEN "EPIPE"
  ELSE IF sock.snd = SndBuf THEN "EAGAIN" ELSE "none"

\* The bytes of a sequence that write(2) takes.
Writable(bytes) ==
  IF Len(bytes) <= SndBuf - sock.snd THEN Len(bytes) ELSE SndBuf - sock.snd

-----------------------------------------------------------------------------
(* Parts of handlers.  q is the task queue as the handler has left it so    *)
(* far.  Each part assigns exactly the variables named in its comment.      *)

\* TcpServer::RemoveConnectionInLoop: queue, connections_.  Slips: the task
\* is not queued; the connection is not erased.
RemoveConnectionInLoop_NoQueue(q) == connections_' = FALSE /\ queue' = q
RemoveConnectionInLoop_NoErase(q) ==
  /\ queue' = Append(q, Do("ConnectDestoryed"))
  /\ UNCHANGED connections_

RemoveConnectionInLoop(q) ==
  /\ connections_' = FALSE
  /\ queue' = Append(q, Do("ConnectDestoryed"))

\* close_cb_, which is TcpServer::RemoveConnection: queue, connections_,
\* server_queue, closes.
RemoveConnection(q) ==
  /\ closes' = IF closes = 2 THEN 2 ELSE closes + 1
  /\ IF "same_loop" \in setup
     THEN RemoveConnectionInLoop(q) /\ UNCHANGED server_queue
     ELSE /\ server_queue' = server_queue + 1
          /\ queue' = q
          /\ UNCHANGED connections_

\* TcpConnection::CloseHandler: state_, poller and what RemoveConnection
\* assigns.  conn_status_cb_ has no effect here.
CloseHandler_NoDisable(q) ==
  /\ state_' = "DISCONNECTED"
  /\ RemoveConnection(q)
  /\ UNCHANGED poller

CloseHandler(q) ==
  /\ state_' = "DISCONNECTED"
  /\ poller' = DisableAll(poller, channel_)
  /\ RemoveConnection(q)

\* No close: the variables of RemoveConnection when only the queue changes.
NoClose(q) ==
  /\ queue' = q
  /\ UNCHANGED <<server_queue, connections_, closes>>

\* TcpConnection::ShutdownInLoop: what becomes of socket s when the channel
\* is as in poller p.
ShutdownInLoop_Always(p, s) == [s EXCEPT !.fin = TRUE]

ShutdownInLoop(p, s) ==
  IF IsWriting(p, channel_) THEN s ELSE [s EXCEPT !.fin = TRUE]

\* SendInLoop's last part, with some bytes left over: write_buffer_, poller
\* and the queue.
BufferRemaining_NoEnable(bytes, q) ==
  /\ write_buffer_' = write_buffer_ \o bytes
  /\ NoClose(q)
  /\ UNCHANGED <<state_, poller>>

BufferRemaining(bytes, q) ==
  /\ write_buffer_' = write_buffer_ \o bytes
  /\ poller' = IF IsWriting(poller, channel_)
               THEN poller ELSE EnableWriting(poller, channel_)
  /\ NoClose(IF Len(write_buffer_) + Len(bytes) > highWaterMark_
                /\ "high_water_cb_" \in setup
             THEN Append(q, Do("high_water_cb_")) ELSE q)
  /\ UNCHANGED state_

\* SendInLoop of n bytes, an alternative per path: state_, poller,
\* write_buffer_, queue, server_queue, connections_, sock, history.
NewBytes(n) == [i \in 1..n |-> accepted + i]

SendDiscarded(q) ==
  /\ state_ = "DISCONNECTED"
  /\ NoClose(q)
  /\ UNCHANGED <<conn, sock, accepted, wire>>

WritesDirectly ==
  /\ state_ # "DISCONNECTED"
  /\ ~IsWriting(poller, channel_) /\ write_buffer_ = <<>>

\* A slip: all of the message is appended, not what follows msg + nwrite.
SendWritten_Whole(n, q) ==
  /\ WritesDirectly
  /\ WriteError = "none"
  /\ LET bytes == NewBytes(n)
         nwrite == Writable(bytes)
     IN  /\ wire' = wire \o SubSeq(bytes, 1, nwrite)
         /\ sock' = [sock EXCEPT !.snd = @ + nwrite]
         /\ IF nwrite < n
            THEN BufferRemaining(bytes, q)
            ELSE NoClose(q) /\ UNCHANGED conn
  /\ accepted' = accepted + n

SendWritten(n, q) ==
  /\ WritesDirectly
  /\ WriteError = "none"
  /\ LET bytes == NewBytes(n)
         nwrite == Writable(bytes)
     IN  /\ wire' = wire \o SubSeq(bytes, 1, nwrite)
         /\ sock' = [sock EXCEPT !.snd = @ + nwrite]
         /\ IF nwrite < n
            THEN BufferRemaining(SubSeq(bytes, nwrite + 1, n), q)
            ELSE /\ NoClose(IF "written_cb_" \in setup
                            THEN Append(q, Do("written_cb_")) ELSE q)
                 /\ UNCHANGED conn
  /\ accepted' = accepted + n

SendRefused(n, q) ==
  /\ WritesDirectly
  /\ WriteError = "EAGAIN"
  /\ BufferRemaining(NewBytes(n), q)
  /\ accepted' = accepted + n
  /\ UNCHANGED <<sock, wire>>

SendFault(q) ==
  /\ WritesDirectly
  /\ WriteError \in {"ECONNRESET", "EPIPE"}
  /\ sock' = [sock EXCEPT !.err = FALSE]
  /\ CloseHandler(q)
  /\ UNCHANGED <<write_buffer_, accepted, wire>>

SendBuffered(n, q) ==
  /\ state_ # "DISCONNECTED" /\ ~WritesDirectly
  /\ BufferRemaining(NewBytes(n), q)
  /\ accepted' = accepted + n
  /\ UNCHANGED <<sock, wire>>

SendInLoop(n, q) ==
  \/ SendDiscarded(q)
  \/ SendWritten(n, q)
  \/ SendRefused(n, q)
  \/ SendFault(q)
  \/ SendBuffered(n, q)

-----------------------------------------------------------------------------
(* The thread of the connection's loop.                                     *)

\* EventChannel::HandleEvent: the callbacks in the order it tries them, and
\* which of them the received events call for.
Handlers == <<"close", "error", "read", "write", "task">>

Due(h, evs) ==
  CASE h = "close" -> "HUP" \in evs /\ "IN" \notin evs
    [] h = "error" -> "ERR" \in evs
    [] h = "read"  -> "IN" \in evs
    [] h = "write" -> "OUT" \in evs
    [] h = "task"  -> TRUE

HandleEvent(from, evs) ==
  LET due == {i \in from..5 : Due(Handlers[i], evs)}
  IN  Handlers[CHOOSE i \in due : \A j \in due : i <= j]

\* Poll and the start of HandleEvent.  An entry watched with EPOLLET leaves
\* the ready list, another one stays for as long as it has events.
Poll ==
  /\ pc = "poll"
  /\ LET watched == {"HUP", "ERR"}
           \cup (IF "read" \in poller.mask[fd_] THEN {"IN"} ELSE {})
           \cup (IF "write" \in poller.mask[fd_] THEN {"OUT"} ELSE {})
         got == IF fd_ \in poller.ready
                THEN SocketEvents \cap watched ELSE {}
     IN  /\ recieved_events' = got
         /\ pc' = IF got = {} THEN "task" ELSE HandleEvent(1, got)
         /\ poller' = [poller EXCEPT !.ready =
                         IF got # {} /\ "read" \notin poller.mask[fd_]
                         THEN @ ELSE {}]
  /\ UNCHANGED <<state_, write_buffer_, queue, server_queue, connections_,
                 sock, rest, hist>>

CloseEvent ==
  /\ pc = "close"
  /\ CloseHandler(queue)
  /\ pc' = HandleEvent(2, recieved_events)
  /\ UNCHANGED <<write_buffer_, recieved_events, sock, rest, accepted, wire>>

\* TcpConnection::ErrorHandler reads SO_ERROR, which clears it.
ErrorEvent ==
  /\ pc = "error"
  /\ sock' = [sock EXCEPT !.err = FALSE]
  /\ pc' = HandleEvent(3, recieved_events)
  /\ UNCHANGED <<conn, queue, server_queue, connections_, recieved_events,
                 rest, hist>>

\* ReadHandler, one round of its loop: data, no callback for it, end of
\* file, an error (after which ErrorHandler clears SO_ERROR), nothing left.
ReadData_AnyLen ==
  /\ pc = "read" /\ "msg_cb_" \in setup
  /\ sock' = [sock EXCEPT !.rcv = @ - 1]
  /\ pc' = "message"
  /\ UNCHANGED <<conn, queue, server_queue, connections_, recieved_events,
                 rest, hist>>

ReadData ==
  /\ pc = "read" /\ sock.rcv > 0 /\ "msg_cb_" \in setup
  /\ sock' = [sock EXCEPT !.rcv = @ - 1]
  /\ pc' = "message"
  /\ UNCHANGED <<conn, queue, server_queue, connections_, recieved_events,
                 rest, hist>>

ReadUnwanted ==
  /\ pc = "read" /\ sock.rcv > 0 /\ "msg_cb_" \notin setup
  /\ sock' = [sock EXCEPT !.rcv = @ - 1]
  /\ CloseHandler(queue)
  /\ pc' = HandleEvent(4, recieved_events)
  /\ UNCHANGED <<write_buffer_, recieved_events, rest, accepted, wire>>

\* A slip: end of file is taken for "nothing left".
ReadEof_NoClose ==
  /\ pc = "read" /\ sock.rcv = 0 /\ ~sock.err /\ (sock.rdhup \/ sock.rst)
  /\ pc' = HandleEvent(4, recieved_events)
  /\ UNCHANGED <<conn, queue, server_queue, connections_, recieved_events,
                 sock, rest, hist>>

ReadEof ==
  /\ pc = "read" /\ sock.rcv = 0 /\ ~sock.err /\ (sock.rdhup \/ sock.rst)
  /\ CloseHandler(queue)
  /\ pc' = HandleEvent(4, recieved_events)
  /\ UNCHANGED <<write_buffer_, recieved_events, sock, rest, accepted, wire>>

ReadError ==
  /\ pc = "read" /\ sock.rcv = 0 /\ sock.err
  /\ sock' = [sock EXCEPT !.err = FALSE]
  /\ pc' = HandleEvent(4, recieved_events)
  /\ UNCHANGED <<conn, queue, server_queue, connections_, recieved_events,
                 rest, hist>>

ReadAgain ==
  /\ pc = "read" /\ sock.rcv = 0 /\ ~sock.err /\ ~sock.rdhup /\ ~sock.rst
  /\ pc' = HandleEvent(4, recieved_events)
  /\ UNCHANGED <<conn, queue, server_queue, connections_, recieved_events,
                 sock, rest, hist>>

\* TcpConnection::WriteHandler.  written_cb_ is called in place, without
\* effect here.  The slip leaves the pending Shutdown out.
WriteHandler_NoShutdown ==
  /\ pc = "write"
  /\ IF IsWriting(poller, channel_) /\ WriteError = "none"
     THEN LET n == Writable(write_buffer_)
              left == SubSeq(write_buffer_, n + 1, Len(write_buffer_))
          IN  /\ wire' = wire \o SubSeq(write_buffer_, 1, n)
              /\ write_buffer_' = left
              /\ poller' = IF left = <<>> THEN DisableWriting(poller, channel_)
                           ELSE poller
              /\ sock' = [sock EXCEPT !.snd = @ + n]
     ELSE UNCHANGED <<sock, wire, write_buffer_, poller>>
  /\ pc' = "task"
  /\ UNCHANGED <<state_, queue, server_queue, connections_, recieved_events,
                 rest, accepted, closes>>

WriteHandler ==
  /\ pc = "write"
  /\ IF IsWriting(poller, channel_) /\ WriteError = "none"
     THEN LET n == Writable(write_buffer_)
              left == SubSeq(write_buffer_, n + 1, Len(write_buffer_))
              s == [sock EXCEPT !.snd = @ + n]
          IN  /\ wire' = wire \o SubSeq(write_buffer_, 1, n)
              /\ write_buffer_' = left
              /\ IF left = <<>>
                 THEN LET p == DisableWriting(poller, channel_)
                      IN  /\ poller' = p
                          /\ sock' = IF state_ = "DISCONNECTING"
                                     THEN ShutdownInLoop(p, s) ELSE s
                 ELSE sock' = s /\ UNCHANGED poller
     ELSE /\ sock' = IF IsWriting(poller, channel_)
                     THEN [sock EXCEPT !.err = FALSE] ELSE sock
          /\ UNCHANGED <<wire, write_buffer_, poller>>
  /\ pc' = "task"
  /\ UNCHANGED <<state_, queue, server_queue, connections_, recieved_events,
                 rest, accepted, closes>>

-----------------------------------------------------------------------------
(* RunTaskFuncs: at most one task per round of Loop().                      *)

Runs(op) == pc = "task" /\ queue # <<>> /\ Head(queue).op = op

TaskReturn ==
  /\ pc' = "poll"
  /\ UNCHANGED recieved_events

NoTask ==
  /\ pc = "task" /\ queue = <<>>
  /\ TaskReturn
  /\ UNCHANGED <<conn, queue, server_queue, connections_, sock, rest, hist>>

\* conn_status_cb_ makes the connection known to the application.
ConnectEstablished ==
  /\ Runs("ConnectEstablished")
  /\ state_' = "CONNECTED"
  /\ poller' = EnableReading(poller, channel_)
  /\ held' = TRUE
  /\ NoClose(Tail(queue))
  /\ TaskReturn
  /\ UNCHANGED <<write_buffer_, sock, setup, upc, calls, alive, accepted, wire>>

ConnectDestoryed ==
  /\ Runs("ConnectDestoryed")
  /\ IF state_ = "CONNECTED"
     THEN /\ state_' = "DISCONNECTED"
          /\ poller' = RemoveEventChannel(DisableAll(poller, channel_), channel_)
     ELSE /\ poller' = RemoveEventChannel(poller, channel_)
          /\ UNCHANGED state_
  /\ NoClose(Tail(queue))
  /\ TaskReturn
  /\ UNCHANGED <<write_buffer_, sock, rest, accepted, wire>>

StartReadInLoop ==
  /\ Runs("StartReadInLoop")
  /\ poller' = IF IsReading(poller, channel_)
               THEN poller ELSE EnableReading(poller, channel_)
  /\ NoClose(Tail(queue))
  /\ TaskReturn
  /\ UNCHANGED <<state_, write_buffer_, sock, rest, accepted, wire>>

StopReadInLoop ==
  /\ Runs("StopReadInLoop")
  /\ poller' = IF IsReading(poller, channel_)
               THEN DisableReading(poller, channel_) ELSE poller
  /\ NoClose(Tail(queue))
  /\ TaskReturn
  /\ UNCHANGED <<state_, write_buffer_, sock, rest, accepted, wire>>

RunShutdownInLoop ==
  /\ Runs("ShutdownInLoop")
  /\ sock' = ShutdownInLoop(poller, sock)
  /\ NoClose(Tail(queue))
  /\ TaskReturn
  /\ UNCHANGED <<conn, rest, accepted, wire>>

ForceCloseInLoop_AnyState ==
  /\ Runs("ForceCloseInLoop")
  /\ CloseHandler(Tail(queue))
  /\ TaskReturn
  /\ UNCHANGED <<write_buffer_, sock, rest, accepted, wire>>

ForceCloseInLoop ==
  /\ Runs("ForceCloseInLoop")
  /\ IF state_ \in {"CONNECTED", "DISCONNECTING"}
     THEN CloseHandler(Tail(queue))
     ELSE NoClose(Tail(queue)) /\ UNCHANGED <<state_, poller>>
  /\ TaskReturn
  /\ UNCHANGED <<write_buffer_, sock, rest, accepted, wire>>

RunSendInLoop ==
  /\ Runs("SendInLoop")
  /\ SendInLoop(Head(queue).size, Tail(queue))
  /\ TaskReturn
  /\ UNCHANGED rest

\* written_cb_ and high_water_cb_ belong to the application.
RunNotification ==
  /\ Runs("written_cb_") \/ Runs("high_water_cb_")
  /\ NoClose(Tail(queue))
  /\ TaskReturn
  /\ UNCHANGED <<conn, sock, rest, accepted, wire>>

-----------------------------------------------------------------------------
(* msg_cb_, in the loop thread: any number of calls, then it returns.  The  *)
(* calls here are whole, for no other step of this thread is in between;    *)
(* the other thread's Shutdown and ForceClose commute with the parts.       *)

MessageReturn_Once ==
  /\ pc = "message"
  /\ pc' = HandleEvent(4, recieved_events)
  /\ UNCHANGED <<conn, queue, server_queue, connections_, recieved_events,
                 sock, rest, hist>>

MessageReturn ==
  /\ pc = "message"
  /\ pc' = "read"
  /\ UNCHANGED <<conn, queue, server_queue, connections_, recieved_events,
                 sock, rest, hist>>

MessageCall(call) ==
  /\ pc = "message" /\ call \in CallbackCalls /\ Len(queue) < MaxQueue
  /\ UNCHANGED <<setup, pc, recieved_events, held, upc, alive>>

MessageSend(n) ==
  /\ MessageCall("Send") /\ calls < MaxCalls
  /\ SendInLoop(n, queue)
  /\ calls' = calls + 1

MessageShutdown ==
  /\ MessageCall("Shutdown")
  /\ state_ = "CONNECTED" /\ state_' = "DISCONNECTING"
  /\ NoClose(Append(queue, Do("ShutdownInLoop")))
  /\ UNCHANGED <<poller, write_buffer_, sock, calls, accepted, wire>>

MessageForceClose ==
  /\ MessageCall("ForceClose")
  /\ state_ \in {"CONNECTED", "DISCONNECTING"} /\ state_' = "DISCONNECTING"
  /\ NoClose(queue \o [i \in 1..(IF state_ = "CONNECTED" THEN 2 ELSE 1) |->
                         Do("ForceCloseInLoop")])
  /\ UNCHANGED <<poller, write_buffer_, sock, calls, accepted, wire>>

\* StartRead and StopRead.
MessageRead(call, task) ==
  /\ MessageCall(call) /\ calls < MaxCalls
  /\ NoClose(Append(queue, Do(task)))
  /\ calls' = calls + 1
  /\ UNCHANGED <<conn, sock, accepted, wire>>

-----------------------------------------------------------------------------
(* A thread of the application, while it holds the connection.  A weak      *)
(* compare-exchange may also fail without cause; for Shutdown that changes  *)
(* nothing, like the call in another state than CONNECTED.                  *)

UserStep(from, to) ==
  /\ upc = from /\ upc' = to
  /\ UNCHANGED <<poller, write_buffer_, server_queue, connections_, pc,
                 recieved_events, setup, sock, held, alive, hist>>

UserCall(call, to) ==
  /\ held /\ call \in UserCalls /\ Len(queue) < MaxQueue
  /\ UserStep("idle", to)

Send(n) ==
  /\ UserCall("Send", "idle") /\ calls < MaxCalls
  /\ queue' = Append(queue, [op |-> "SendInLoop", size |-> n])
  /\ calls' = calls + 1
  /\ UNCHANGED state_

StartRead ==
  /\ UserCall("StartRead", "idle") /\ calls < MaxCalls
  /\ queue' = Append(queue, Do("StartReadInLoop"))
  /\ calls' = calls + 1
  /\ UNCHANGED state_

StopRead ==
  /\ UserCall("StopRead", "idle") /\ calls < MaxCalls
  /\ queue' = Append(queue, Do("StopReadInLoop"))
  /\ calls' = calls + 1
  /\ UNCHANGED state_

\* A slip: load, compare and store instead of the compare-exchange, the
\* load being an earlier one.
Shutdown_Store ==
  /\ UserCall("Shutdown", "shutdown")
  /\ state_' = "DISCONNECTING"
  /\ UNCHANGED <<queue, calls>>

Shutdown ==
  /\ UserCall("Shutdown", "shutdown")
  /\ state_ = "CONNECTED" /\ state_' = "DISCONNECTING"
  /\ UNCHANGED <<queue, calls>>

ShutdownQueue ==
  /\ UserStep("shutdown", "idle")
  /\ queue' = Append(queue, Do("ShutdownInLoop"))
  /\ UNCHANGED <<state_, calls>>

\* ForceClose: compare-exchange, queue, compare-exchange again, queue again.
ForceClose ==
  /\ \/ /\ UserCall("ForceClose", "force1")
        /\ state_ = "CONNECTED" /\ state_' = "DISCONNECTING"
     \/ UserCall("ForceClose", "force2") /\ UNCHANGED state_
  /\ UNCHANGED <<queue, calls>>

ForceCloseQueue(from, to) ==
  /\ UserStep(from, to)
  /\ queue' = Append(queue, Do("ForceCloseInLoop"))
  /\ UNCHANGED <<state_, calls>>

ForceCloseAgain ==
  /\ \/ UserStep("force2", "force3") /\ state_ = "DISCONNECTING"
     \/ UserStep("force2", "idle")
  /\ UNCHANGED <<state_, queue, calls>>

UserRelease ==
  /\ held /\ upc = "idle"
  /\ held' = FALSE
  /\ UNCHANGED <<conn, queue, server_queue, connections_, pc,
                 recieved_events, setup, upc, sock, calls, alive, hist>>

-----------------------------------------------------------------------------
\* The thread of server_loop_ runs a queued RemoveConnectionInLoop.
ServerThread ==
  /\ server_queue > 0
  /\ server_queue' = server_queue - 1
  /\ RemoveConnectionInLoop(queue)
  /\ UNCHANGED <<conn, pc, recieved_events, sock, rest, hist>>

\* The last shared_ptr goes: connections_, tasks, the application and the
\* arguments of msg_cb_ hold one.  ~Socket closes the descriptor.
Destroy ==
  /\ alive
  /\ ~connections_ /\ server_queue = 0 /\ queue = <<>>
  /\ ~held /\ upc = "idle" /\ pc # "message"
  /\ alive' = FALSE
  /\ poller' = CloseFd(poller, fd_)
  /\ UNCHANGED <<state_, write_buffer_, queue, server_queue, connections_, pc,
                 recieved_events, setup, sock, held, upc, calls, hist>>

RunTaskFuncs ==
  \/ NoTask
  \/ ConnectEstablished \/ ConnectDestoryed
  \/ StartReadInLoop \/ StopReadInLoop
  \/ RunShutdownInLoop \/ ForceCloseInLoop
  \/ RunSendInLoop \/ RunNotification

MessageCallback ==
  \/ MessageReturn
  \/ \E n \in MsgSizes : MessageSend(n)
  \/ MessageShutdown
  \/ MessageForceClose
  \/ MessageRead("StartRead", "StartReadInLoop")
  \/ MessageRead("StopRead", "StopReadInLoop")

LoopThread ==
  \/ Poll
  \/ CloseEvent \/ ErrorEvent \/ WriteHandler
  \/ ReadData \/ ReadUnwanted \/ ReadEof \/ ReadError \/ ReadAgain
  \/ MessageCallback
  \/ RunTaskFuncs

\* The rest of a call the application's thread has begun.
UserContinues ==
  \/ ShutdownQueue
  \/ ForceCloseQueue("force1", "force2") \/ ForceCloseAgain
  \/ ForceCloseQueue("force3", "idle")

UserThread ==
  \/ \E n \in MsgSizes : Send(n)
  \/ StartRead \/ StopRead
  \/ Shutdown \/ ForceClose
  \/ UserContinues
  \/ UserRelease

Peer == PeerData \/ PeerFin \/ PeerDrain \/ PeerReset

Next == LoopThread \/ UserThread \/ ServerThread \/ Destroy \/ Peer

Spec == Init /\ [][Next]_vars

\* The two loops run, the application's calls return, the peer takes what
\* is sent to it, and the last shared_ptr destroys the object.
Fairness ==
  /\ WF_vars(LoopThread) /\ WF_vars(ServerThread)
  /\ WF_vars(UserContinues) /\ WF_vars(PeerDrain) /\ WF_vars(Destroy)
FairSpec == Spec /\ Fairness

-----------------------------------------------------------------------------
\* The bytes written to the socket, followed by those in write_buffer_, are
\* what SendInLoop has accepted, in that order: nothing is lost, doubled or
\* overtaken between the direct write and the buffered rest.
StreamIntegrity == wire \o write_buffer_ = [i \in 1..accepted |-> i]

\* Until the connection is closed the channel asks for write events exactly
\* while there is something in write_buffer_.
WritingIffBuffered ==
  state_ # "DISCONNECTED" =>
    (IsWriting(poller, channel_) <=> write_buffer_ # <<>>)

\* Shutdown never cuts off accepted data: the FIN of an open connection goes
\* out with write_buffer_ empty, whether ShutdownInLoop or WriteHandler
\* sends it.
FinAfterData ==
  sock.fin /\ state_ # "DISCONNECTED" => write_buffer_ = <<>>

\* No assertion of the poller fails, RemoveEventChannel's included.
AssertsHold == poller.failed = {}

\* The callbacks of the channel are bound to a raw this: while one is to run
\* or runs, some shared_ptr keeps the connection.
HandlersRunAlive ==
  pc \in {"close", "error", "read", "message", "write"} => alive

\* The connection goes through the stages of ConnectionLife: it is closed
\* once, whichever of a read, a write, an event and a ForceClose finds its end
\* first; its channel leaves the poller after that; the object is destroyed
\* last.
Stage ==
  IF ~alive THEN "gone"
  ELSE IF state_ = "CONNECTING" THEN "new"
  ELSE IF connections_ THEN IF closes = 0 THEN "open" ELSE "closed"
  ELSE IF poller.list[fd_] = channel_ THEN "erased" ELSE "removed"
Life == INSTANCE ConnectionLife WITH stage <- Stage
IsConnectionLife == Life!Spec

\* state_ only ever moves forward, although the application's thread and the
\* loop's assign it concurrently; and once it is DISCONNECTED nothing more is
\* written, whatever was buffered or queued.
Rank(s) == CASE s = "CONNECTING" -> 0 [] s = "CONNECTED" -> 1
             [] s = "DISCONNECTING" -> 2 [] s = "DISCONNECTED" -> 3
StateAdvances ==
  [][/\ Rank(state_) <= Rank(state_')
     /\ state_ = "DISCONNECTED" => wire' = wire]_vars

\* Buffered data is written as the peer takes it, or the connection closes.
BufferDrains == write_buffer_ # <<>> ~>
                  write_buffer_ = <<>> \/ state_ = "DISCONNECTED"

\* Shutdown and ForceClose come to their end: a FIN, or the close.
ShutdownCompletes ==
  state_ = "DISCONNECTING" ~> sock.fin \/ state_ = "DISCONNECTED"

\* Edge-triggered reading leaves no data behind.
DataIsRead ==
  sock.rcv > 0 ~>
    \/ sock.rcv = 0
    \/ state_ \in {"CONNECTING", "DISCONNECTED"}
    \/ ~IsReading(poller, channel_)

\* A connection that waits for events notices the end of the peer, although
\* ErrorHandler and WriteHandler only log errors.
PeerEndNoticed ==
  sock.rdhup \/ sock.rst ~>
    state_ = "DISCONNECTED" \/ IsNoneEvent(poller, channel_)

\* A closed connection the application does not hold is destroyed.
ClosedIsDestroyed == state_ = "DISCONNECTED" /\ ~held ~> ~alive

\* RemoveEventChannel asserts that the channel it is to remove is listed.
RemoveIsListed == "remove_is_listed" \notin poller.failed

\* "all functions are thread safe for upper layer caller": a message sent
\* before Shutdown() by the same thread is not overtaken by the FIN.
SendsBeforeShutdown ==
  IF upc = "shutdown" THEN 1..Len(queue)
  ELSE {i \in 1..Len(queue) :
          \E j \in i..Len(queue) : queue[j].op = "ShutdownInLoop"}
ShutdownAfterSends ==
  sock.fin /\ state_ = "DISCONNECTING" =>
    \A i \in SendsBeforeShutdown : queue[i].op # "SendInLoop"
=============================================================================
