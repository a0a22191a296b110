----------------------------- MODULE TcpClient -----------------------------
(***************************************************************************)
(* TcpClient with its TcpConnector and the one connection they can make:    *)
(* the outcomes of connect(2), the retry, the handing over of the           *)
(* descriptor from the connector's channel to the connection's, and what    *)
(* the destructor leaves behind in the loop.                                *)
(*                                                                         *)
(* The connection is reduced to what its owner sees of it.  The owner calls *)
(* the client in the loop's thread or in another one: RunInLoop then queues *)
(* instead of calling, and the loop runs between two statements of a call.  *)
(***************************************************************************)
EXTENDS Naturals, Sequences

CONSTANTS
  Threads,       \* whether the owner's thread is the loop's: SUBSET BOOLEAN
  MaxRefusals,   \* bound: attempts the peer refuses after EINPROGRESS
  MaxStops       \* bound: calls of Stop

ASSUME ClientAssumption ==
  /\ Threads \subseteq BOOLEAN
  /\ {MaxRefusals, MaxStops} \subseteq Nat

VARIABLES
  in_loop,      \* the owner calls in the loop's thread
  state_,       \* TcpConnector::state_
  channel_,     \* TcpConnector::channel_: none, in the poller, or removed
  sock,         \* the open socket of the current attempt
  refusals,     \* attempts refused so far
  gave_up,      \* history: an attempt failed at once
  queue,        \* queue_task_funcs_ of the loop
  connection_,  \* TcpClient::connection_ is set
  conn,         \* the TcpConnection
  close_cb_,    \* its close_cb_: the client's member, or the free function
  held,         \* the application has a shared_ptr to the connection
  dpc,          \* Disconnect has found connection_ set
  stops,        \* calls of Stop so far
  exists,       \* the client and its connector exist
  hasty,        \* history: they, or the connection, were let go while in use
  dangling,     \* history: a channel was destroyed that the poller lists
  misuse        \* history: what was used after its destruction

connector == <<state_, channel_, sock, refusals, gave_up>>
connection == <<connection_, conn, close_cb_, held>>
owner == <<in_loop, dpc, stops, exists, hasty>>
vars == <<connector, queue, connection, owner, dangling, misuse>>

ConnectorTasks == {"StartInLoop", "StopInLoop", "ResetChannelPtr"}
ConnectionTasks == {"SetCloseCB", "ConnectDestoryed"}

Flags ==
  /\ in_loop \in BOOLEAN /\ gave_up \in BOOLEAN /\ connection_ \in BOOLEAN
  /\ held \in BOOLEAN /\ dpc \in BOOLEAN /\ exists \in BOOLEAN
  /\ hasty \in BOOLEAN /\ dangling \in BOOLEAN
Places ==
  /\ state_ \in {"kDisconnected", "kConnecting"}
  /\ channel_ \in {"none", "listed", "removed"}
  /\ sock \in {"none", "pending", "connected", "refused"}
  /\ refusals \in 0..MaxRefusals /\ stops \in 0..MaxStops
  /\ queue \in Seq(ConnectorTasks \cup ConnectionTasks)
  /\ conn \in {"none", "open", "closed", "removed", "gone"}
  /\ close_cb_ \in {"TcpClient::RemoveConnection", "tcp::RemoveConnection"}
  /\ misuse \subseteq ConnectorTasks \cup
       {"WriteEventHandler", "RemoveConnection", "Disconnect"}
TypeOK == Flags /\ Places

Init ==
  /\ in_loop \in Threads
  /\ state_ = "kDisconnected" /\ channel_ = "none" /\ sock = "none"
  /\ refusals = 0 /\ gave_up = FALSE
  /\ queue = <<>>
  /\ connection_ = FALSE /\ conn = "none" /\ held = FALSE
  /\ close_cb_ = "TcpClient::RemoveConnection"
  /\ dpc = FALSE /\ stops = 0
  /\ exists = TRUE /\ hasty = FALSE /\ dangling = FALSE /\ misuse = {}

-----------------------------------------------------------------------------
(* The connector.                                                           *)

\* channel_.reset: the old channel is destroyed.
ResetChannel(to) ==
  /\ channel_' = to
  /\ dangling' = (dangling \/ channel_ = "listed")

\* TcpConnector::StartInLoop.  errno decides, also when it is a stale one
\* after a connect that returned 0: the socket is watched, or closed at once
\* with state_ as it is.
StartInLoop ==
  \/ /\ sock' = "pending"
     /\ ResetChannel("listed")
     /\ UNCHANGED <<refusals, gave_up>>
  \/ /\ gave_up' = TRUE
     /\ UNCHANGED <<sock, channel_, dangling, refusals>>

\* The kernel's answer to a pending connect makes the socket writable.
Answer ==
  /\ sock = "pending" /\ conn = "none"
  /\ \/ sock' = "connected" /\ UNCHANGED refusals
     \/ /\ refusals < MaxRefusals
        /\ sock' = "refused" /\ refusals' = refusals + 1
  /\ UNCHANGED <<state_, channel_, gave_up, queue, connection, owner, dangling,
                 misuse>>

\* WriteEventHandler.  RemoveChannel takes the channel out of the poller and
\* queues ResetChannelPtr.  After an error RetryConn closes the socket and
\* queues StartInLoop: left and retry are the socket and the tasks it leaves.
\* Otherwise TcpClient::NewConnection establishes the connection on the same
\* descriptor.
HandleWrite(left, retry) ==
  /\ exists /\ channel_ = "listed" /\ sock \in {"connected", "refused"}
  /\ channel_' = "removed"
  /\ IF sock = "refused"
     THEN /\ sock' = left
          /\ queue' = queue \o <<"ResetChannelPtr">> \o retry
          /\ UNCHANGED connection
     ELSE /\ connection_' = TRUE /\ conn' = "open" /\ held' \in BOOLEAN
          /\ queue' = Append(queue, "ResetChannelPtr")
          /\ UNCHANGED <<sock, close_cb_>>
  /\ UNCHANGED <<state_, refusals, gave_up, owner, dangling, misuse>>

\* Slips: RetryConn does not close the socket; it queues nothing; it is the
\* first to queue, and the reset hits the new channel.
WriteEventHandler_NoClose == HandleWrite(sock, <<"StartInLoop">>)
WriteEventHandler_NoRetry == HandleWrite("none", <<>>)
WriteEventHandler_ResetLast ==
  HandleWrite("none", <<"StartInLoop", "ResetChannelPtr">>)

WriteEventHandler == HandleWrite("none", <<"StartInLoop">>)

\* The same event after the connector was destroyed with its channel listed.
WriteEventDangling ==
  /\ ~exists /\ channel_ = "listed" /\ sock \in {"connected", "refused"}
  /\ misuse' = misuse \cup {"WriteEventHandler"}
  /\ UNCHANGED <<connector, queue, connection, owner, dangling>>

-----------------------------------------------------------------------------
(* The connection.                                                          *)

\* The last shared_ptr goes, now or with this step: ~Socket closes the
\* descriptor.  c is the connection as the step leaves it.
Settle(c, q, member, h) ==
  LET last == c \notin {"none", "gone"} /\ ~member /\ ~h
              /\ \A i \in 1..Len(q) : q[i] \notin ConnectionTasks
  IN  /\ queue' = q /\ connection_' = member /\ held' = h
      /\ conn' = IF last THEN "gone" ELSE c
      /\ sock' = IF last THEN "none" ELSE sock
      /\ dangling' = (dangling \/ (last /\ c # "removed"))

\* CloseHandler, which calls close_cb_.
CloseHandler ==
  /\ conn = "open"
  /\ IF close_cb_ = "TcpClient::RemoveConnection" /\ ~exists
     THEN /\ misuse' = misuse \cup {"RemoveConnection"}
          /\ UNCHANGED connection_
     ELSE connection_' = FALSE /\ UNCHANGED misuse
  /\ conn' = "closed"
  /\ queue' = Append(queue, "ConnectDestoryed")
  /\ UNCHANGED <<connector, close_cb_, held, owner, dangling>>

\* The application drops its shared_ptr; an open connection without a client
\* then has no owner.
Release ==
  /\ held
  /\ Settle(conn, queue, connection_, FALSE)
  /\ hasty' = (hasty \/ (conn = "open" /\ ~exists))
  /\ UNCHANGED <<state_, channel_, refusals, gave_up, close_cb_, in_loop, dpc,
                 stops, exists, misuse>>

-----------------------------------------------------------------------------
(* RunTaskFuncs: one task per round.  The tasks of the connector are bound  *)
(* to a raw this.                                                           *)

Runs(task) == queue # <<>> /\ Head(queue) = task

ConnectorTask(task) ==
  /\ Runs(task)
  /\ queue' = Tail(queue)
  /\ UNCHANGED <<connection, owner>>
  /\ IF ~exists
     THEN /\ misuse' = misuse \cup {task}
          /\ UNCHANGED <<connector, dangling>>
     ELSE /\ UNCHANGED <<state_, misuse>>
          /\ CASE task = "StartInLoop" -> StartInLoop
               [] task = "StopInLoop" ->
                    UNCHANGED <<channel_, sock, refusals, gave_up, dangling>>
               [] task = "ResetChannelPtr" ->
                    /\ ResetChannel("none")
                    /\ UNCHANGED <<sock, refusals, gave_up>>

RunSetCloseCB ==
  /\ Runs("SetCloseCB")
  /\ close_cb_' = "tcp::RemoveConnection"
  /\ Settle(conn, Tail(queue), connection_, held)
  /\ UNCHANGED <<state_, channel_, refusals, gave_up, owner, misuse>>

ConnectDestoryed ==
  /\ Runs("ConnectDestoryed")
  /\ Settle("removed", Tail(queue), connection_, held)
  /\ UNCHANGED <<state_, channel_, refusals, gave_up, close_cb_, owner, misuse>>

LoopThread ==
  \/ WriteEventHandler \/ WriteEventDangling
  \/ \E task \in ConnectorTasks : ConnectorTask(task)
  \/ RunSetCloseCB \/ ConnectDestoryed

-----------------------------------------------------------------------------
(* The owner.                                                               *)

Owner == exists /\ ~dpc /\ UNCHANGED <<in_loop, misuse, close_cb_>>

\* TcpConnector::Start.  In any other state than kDisconnected, which is
\* never assigned again, it does nothing.
Connect ==
  /\ Owner
  /\ state_ = "kDisconnected" /\ state_' = "kConnecting"
  /\ IF in_loop
     THEN StartInLoop /\ UNCHANGED queue
     ELSE /\ queue' = Append(queue, "StartInLoop")
          /\ UNCHANGED <<channel_, sock, refusals, gave_up, dangling>>
  /\ UNCHANGED <<connection_, conn, held, dpc, stops, exists, hasty>>

\* StopInLoop is empty, so a call in the loop's thread changes nothing.
Stop ==
  /\ Owner
  /\ state_ # "kDisconnected" /\ ~in_loop /\ stops < MaxStops
  /\ stops' = stops + 1
  /\ queue' = Append(queue, "StopInLoop")
  /\ UNCHANGED <<connector, connection_, conn, held, dpc, exists, hasty,
                 dangling>>

\* Disconnect reads connection_ twice; the Shutdown it calls is the
\* connection's own affair.  In the loop's thread nothing comes in between.
Disconnect ==
  /\ Owner
  /\ connection_ /\ ~in_loop
  /\ dpc' = TRUE
  /\ UNCHANGED <<connector, queue, connection_, conn, held, stops, exists,
                 hasty, dangling>>

DisconnectCall ==
  /\ dpc /\ dpc' = FALSE
  /\ misuse' = IF connection_ THEN misuse ELSE misuse \cup {"Disconnect"}
  /\ UNCHANGED <<connector, queue, connection, in_loop, stops, exists, hasty,
                 dangling>>

\* What of the client is still in use: its channel, a task of its connector,
\* or its connection.  A connection somebody else holds may outlive it if the
\* destructor runs in the loop's thread.
InUse ==
  \/ channel_ # "none"
  \/ \E i \in 1..Len(queue) : queue[i] \in ConnectorTasks
  \/ conn = "open" /\ ~(in_loop /\ held)

\* ~TcpClient: SetCloseCB, then connection_ and connector_ are destroyed.
\* The slip leaves SetCloseCB out.
DestroyClient_NoCB ==
  /\ Owner
  /\ exists' = FALSE /\ hasty' = InUse
  /\ Settle(conn, queue, FALSE, held)
  /\ UNCHANGED <<state_, channel_, refusals, gave_up, dpc, stops>>

DestroyClient ==
  /\ exists /\ ~dpc
  /\ exists' = FALSE /\ hasty' = InUse
  /\ close_cb_' = IF connection_ /\ in_loop
                  THEN "tcp::RemoveConnection" ELSE close_cb_
  /\ Settle(conn, IF connection_ /\ ~in_loop
                  THEN Append(queue, "SetCloseCB") ELSE queue, FALSE, held)
  /\ UNCHANGED <<state_, channel_, refusals, gave_up, in_loop, dpc, stops,
                 misuse>>

OwnerThread == Connect \/ Stop \/ Disconnect \/ DisconnectCall \/ DestroyClient

Next == LoopThread \/ Answer \/ CloseHandler \/ Release \/ OwnerThread

Spec == Init /\ [][Next]_vars

\* The loop goes round and the kernel answers a connect.
FairSpec == Spec /\ WF_vars(LoopThread) /\ WF_vars(Answer)

-----------------------------------------------------------------------------
\* No channel is destroyed while the poller lists it, although a retry
\* replaces channel_ while the reset of the old one is still queued; unless
\* the client or the open connection is let go while it is in use.
ChannelIsSafe == dangling => hasty

\* An open socket belongs to exactly one of the connector's channel and the
\* connection, also while it is handed over: nothing leaks, and no descriptor
\* is registered twice.
SocketIsOwned ==
  /\ channel_ = "listed" /\ exists => sock # "none" /\ conn = "none"
  /\ sock # "none" => \/ channel_ = "listed" /\ exists
                      \/ conn \in {"open", "closed", "removed"}
                      \/ hasty

\* A client that is destroyed when nothing of it is in use is not used any
\* more: no task, event or close_cb_ finds it gone.  The two reads of
\* Disconnect in another thread than the loop's are the exception.
DestroyedIsUnused == misuse \subseteq {"Disconnect"} \/ hasty

\* An attempt leads to a connection, through any number of refusals, unless
\* connect fails at once: then nothing ever tries again.
ConnectResolves ==
  state_ = "kConnecting" ~> conn # "none" \/ gave_up \/ ~exists
=============================================================================
