# A TLA+ model of network-poller

network-poller is a C++ reactor library for Linux: event loops over epoll, a
thread and a thread pool for loops, and TCP servers, clients and connections on
top. This directory models its concurrent core, checks it with TLC on small
instances, and proves the safety of the poller, the connection, the server, the
client, the loop's thread, the task queue and the buffer for instances of any size
with TLAPS.
`PROJECT.json` maps every definition to the source lines it models.

## 1. The system

| part | state | operations | interacts with |
|---|---|---|---|
| `EventChannel` | flags, status in the poller, received events | enable/disable read and write, `DisableAll`, `RemoveFromLoop`, `HandleEvent` | its loop's poller, the handlers of its owner |
| `EpollPoller` | fd -> channel list, ready array, the epoll set | `Poll`, `UpdateEventChannel`, `RemoveEventChannel` | kernel, channels |
| `EventLoop` | `quit_`, task queue, active channels, eventfd | `Loop`, `Quit`, `Wakeup`, `RunInLoop`, `QueueInLoop` | poller, any thread |
| task queue (`readerwriterqueue`) | ring of blocks with shadow indices | `enqueue`, `try_dequeue` | any thread / the loop |
| `EncThread`, `EventLoopThread` | `started_`, `quited_`, `loop_`, two mutex/condition pairs | `Start`, `GetLoopInThread`, `run`, destructors | owner thread, new thread |
| `EventLoopThreadPool` | threads, loops, round-robin index | `Initialize`, choice of a loop | `TcpServer` |
| `TcpConnection` | `state_`, channel, two buffers | `Send`, `Shutdown`, `ForceClose`, `StartRead`, `StopRead`, four handlers | its loop, application threads, server, peer |
| `TcpServer`, `TcpAcceptor` | connection table, listening socket, reserve fd | `Start`, `NewConnected`, `RemoveConnection`, `AcceptHandle` | server loop, connections, pool |
| `TcpConnector`, `TcpClient` | connect state, channel, one connection | `Start`, `Stop`, retry, `Disconnect` | their loop |
| `Buffer` | vector, read and write index | `Append`, `ReadFromFD`, reads, `ClearReadIndex`, `Swap` | connection, application |
| sockets, addresses, logger | none of their own | system calls, conversions, output | kernel |

What is hard about it, and what each part has to guarantee:

- *Channels and poller.* Three records of what is watched (status, list, kernel)
  change one after the other, callbacks change them while a list of raw channel
  pointers is being walked, and `epoll_ctl` may fail unnoticed. They must agree,
  no removed channel may be called, no ready descriptor may starve.
- *Loop and queue.* Any thread posts and quits; the loop takes one task per
  round from a queue meant for one producer. A posted task runs, once and in
  order; `Quit` ends the loop.
- *Threads.* A loop lives on the stack of its thread while its owner keeps a
  pointer to it. The owner gets a loop, the loop exists while it is used, and
  the destructor returns.
- *Connection.* Application calls, the peer, the handlers and the server's
  removal race. Bytes leave in order, FIN after them, one close, no handler of a
  destroyed object, and every end is noticed.
- *Server.* Connections are found by descriptor number, numbers are reused, and
  the removal of a connection goes through two queues. The table must hold
  exactly the open connections, each descriptor must have one owner, and closed
  connections must be released even when descriptors run out.
- *Client.* One descriptor passes from the connector's channel to a connection,
  attempts are retried while the old channel still waits to be destroyed, and the
  client may be destroyed at any moment. One owner for the socket, no use of what
  is gone, and every attempt comes to an end.
- *Buffer.* Index arithmetic and a second read area; together a queue of bytes.

The hazards are listed line by line in `PROJECT.json`.

## 2. Modules

| module | models | how |
|---|---|---|
| `EpollPoller` | `event_channel.cpp`, `epoll_poller.cpp` | operators on a record `p`: flags, statuses and list, plus the kernel's `data`, `mask`, `ready` and `nospc` and the history `refused` (external) and the set `failed` of violated assertions |
| `ChannelLoop` | one loop thread with any channels | a step is one phase of `Loop()` or one channel call of a callback or task |
| `*Proofs` | | the theorems about the module they are named after; `ConnectionLifeProofs`: those about the life of a `TcpConnection` |
| `TcpConnection` | one connection, extends `EpollPoller` | loop thread, application thread, server thread, kernel and peer |
| `ConnectionLife` | abstract | the stages of a connection; `TcpConnection` implements it for one connection in detail, `TcpServer` for each of many |
| `TcpServer` | `tcp_server.cpp`, `tcp_acceptor.cpp`, the pool's `Initialize` and choice by hash | the table, the loops' queues, `shared_ptr`s and the descriptor table of the process; a step is one task of a loop, one system call of `AcceptHandle`, or one act of the application |
| `TcpClient` | `tcp_client.cpp`, `tcp_connector.cpp` | connector, one connection reduced to what its owner sees, the loop's queue, and an owner in the loop's thread or in another |
| `TaskQueue` | `enqueue` and `try_dequeue` | one step per access to an atomic shared with the other side |
| `TaskFifo` | abstract | the queue the loop expects; `TaskQueue` implements it, `taken` being the tasks whose `enqueue` has returned true and `given` those `try_dequeue` has returned |
| `EventLoop` | `Loop`, `Quit`, `Wakeup`, task posting | actions without the channels |
| `EventLoopThread` | extends `EventLoop` | owner thread and new thread around the loop's actions |
| `Buffer`, `ByteQueue` | `buffer.h`, `buffer.cpp`; abstract | indices modulo `Word`; the promise of a byte queue |
| `MC*` | | constants for TLC |

Operators named `X_Something` placed before `X` are slips of `X`: plausible bugs
used to make sure that each property can fail.

Where detail is abstracted:

- *Memory order.* `TaskQueue` is sequentially consistent between its steps: each
  index store is preceded by a release fence, each load followed by an acquire
  fence. An allocation may fail at any call, and the next one succeed. The loop's own queue begins with
  many 512-slot blocks; block growth is the default constructor's doubling.
- *Queue elsewhere.* `TcpConnection` and `EventLoop` use an atomic FIFO. For one
  producer at a time `IsFifo`, checked and proved, justifies it; for several, `queue_producers`
  shows that the code does not provide it, so the properties of these two modules
  are about the design with a sound queue.
- *Assertions.* A failed `assert` is recorded and the step goes on, as in a build
  with `NDEBUG`; `AssertsHold` says that none fails, in `ChannelLoop` but for the one
  named below. There the assertion of `EventLoop::RemoveEventChannel` has two names,
  `remove_not_pending` and, for a removal made in a callback, `removed_by_callback`.
- *Connection.* One read is one chunk; a byte to send is its number; EPIPE is an
  errno (the application ignores SIGPIPE); urgent data and RDHUP are left out
  because the channel never asks for them. A weak compare-exchange may fail
  spuriously: a different path in `ForceClose`, a call without effect in
  `Shutdown`. `Shutdown` and `ForceClose` are split at each compare-exchange and
  each enqueue.
- *Server.* `Drop` gathers what happens when references go away: a connection that
  no table entry, queued task or application holds is destroyed and its number
  closed. `accept` and `open` take the lowest free number; the application may
  open and close descriptors between any two steps. Each call of `accept` may fail
  with an error that takes the waiting connection (`ECONNABORTED`) or with one that
  takes nothing and needs nothing to wait (`ENFILE`), and the `open` of the recovery
  may fail with the latter. A second `Start` and a
  failed weak compare-exchange change nothing and are no step.
- *Client.* What `connect` reports and what a stale `errno` makes of it are the two
  branches of `StartInLoop`. `Disconnect` is two steps in another thread.
- *Uninitialised data.* `evt_channel_active_` begins with any value.

## 3. Runs

Passing runs.

| run | instance | shows |
|---|---|---|
| `channel_loop` | 3 channels on 2 fds (one reused), array of 1, an epoll that may refuse watches, removals of any channel by any callback or task | records agree, the poller's assertions hold, no removed channel is called unless the loop's assertion has failed, interest is watched, no ready fd starves |
| `connection_close` | 2 calls (sends of 1 or 3 bytes into a 2-byte socket, `Shutdown`, `ForceClose`), FIN and RST; with a pool, without one, with all callbacks or none | FIN after data, write event exactly while data waits, assertions, no handler of a destroyed object, monotone state, implements `ConnectionLife` |
| `connection_live` | 2 calls of `Send`, `StartRead`, `StopRead`, `Shutdown`, 2 chunks, a callback that sends, stops and closes, both peer ends | byte order, data is read, the buffer drains, ends are noticed, `Shutdown` completes, the object is destroyed |
| `server_table` | 2 arrivals, 2 closes each, a pool of 2 loops or none, 4 descriptors, 1 file of the application, an `accept` and an `open` that fail | the table is exact, descriptors have one owner, arrivals are handled, closed connections are released, every connection goes through `ConnectionLife` |
| `client_connect` | both kinds of owner, 2 refusals, `Stop`, `Disconnect`, destruction at any moment | no listed channel is destroyed, one owner of the socket, no use after destruction, attempts come to an end |
| `queue_fifo` | 1 producer, 10 tasks, blocks of 2 and 4 slots, up to 3 | implements `TaskFifo`; every task is taken |
| `thread_life` | 3 tasks that may post and quit, destructor at any moment, spurious wakeups | start handshake, `GetLoopInThread`, loop exists while used, tasks run, `Quit` and the destructor take effect |
| `buffer_queue` | 2 buffers, 2 byte values, indices 0 to 3 of a 4-valued type | implements `ByteQueue` up to the last index |

The bounds let the interesting cases happen: more ready descriptors than array
entries, a message larger than the socket's room, a full block with and without a
free successor, a spill larger than the vector, a write index at the end of its
type. With 4 descriptors, of which the server takes two, two connections, or one and
a file of the application, fill the table, so that the recovery runs with its reserve and
numbers are reused while the removal of their last owner is still queued. The same
run with 2 files (470,432 states) also passes. `MaxQueue` holds back
only the application's calls, never the library's own tasks.

Deadlock is checked except in `server_table` and `client_connect`: there the
environment is bounded, and a server whose clients are all gone, or a client that
was destroyed, has nothing left to do.

Runs that end in a violation; each contradicts a comment or assertion of the code:

| run | what happens |
|---|---|
| `connection_stopread` | `DisableAll` of a channel that `StopRead` has disabled adds it to epoll again: after `ForceClose` and a reset the connection is closed and removed twice |
| `connection_lastsend` | the FIN overtakes a queued `Send` |
| `queue_producers` | two concurrent `QueueInLoop` lose a task |
| `thread_hang` | `Quit` before `Loop()` is overwritten; the join hangs |

Other behaviour the models contain and the passing properties state as exceptions
or the passing instances leave out:

- A callback may remove another channel than its own. The library's callbacks do
  not, but one that destroys a `TcpServer` does (`~TcpAcceptor`), and if that
  channel was reported in the same round, the assertion at `event_loop.cpp:123`
  fails; with `NDEBUG` `HandleEventContext` goes on and calls what was removed.
  `AssertsHold` of `ChannelLoop` excepts this failure, and `PendingIsListed` is
  stated up to it: it says that the assertion misses no such removal.
- `LoopExists` excepts a spurious wakeup, after which `GetLoopInThread` returns
  nullptr, and a task that calls `Quit`, after which `loop_`
  dangles; `DestructorReturns` excepts a destructor that begins while the thread
  is on its way to `Loop()`. `Wakeup` may also use the loop after `quit_` has
  already ended it (`"Wakeup"` in `misuse`).
- The 4-byte write of `Wakeup` to its eventfd is refused (`eventfd_write`).
  `QuitReturns` and `QueuedIsRun` hold all the same, as `Poll(0)` does not block. A
  task that is still queued when `Loop()` returns stays there; `EventLoopThread`
  destroys its loop, and the task with it.
- A task whose block cannot be allocated is dropped: `QueueInLoop` ignores what
  `enqueue` returns. `IsFifo` and `PostedIsRun` are about the tasks `enqueue` has taken.
- `connection_close` has no `StartRead`/`StopRead`:
  `StartReadInLoop` does not look at `state_`, and queued behind a close it enables
  a channel that is then removed with its flags set.
- Nor has it a message callback that sends while the peer resets: a `Send` in the
  callback that meets the reset closes the connection, and `ReadHandler` closes it
  again at end of file.
- `TableIsExact`, `DescriptorsAreKept` and `LifeIsKept` are stated for an
  application that does not open or close numbers up to `idle_fd_` while the server
  exists (`disturbed`). The recovery closes `idle_fd_` by number, twice, and gets it
  back only because `open` takes the lowest free number: a file that another
  thread opens in between is closed, and a lower number that falls free makes the
  reserve move away. They end as well when the `open` of the recovery fails: its
  result is not looked at, `idle_fd_` is then the number of the next connection, and
  the next recovery closes it.
- `LifeIsKept` excepts `~TcpServer`, which destroys connections whose channels are
  still registered with the loops of the pool. A connection that outlives the server,
  because the application or a queued task holds it, calls `close_cb_`, bound to a raw
  `this`, when it closes in a loop of the pool. `CloseHandler` models this use of the
  destroyed server by the outcome in which `server_loop_` can still be read: the
  removal goes to a queue that nobody empties, and the connection is not destroyed.
  Events of a registered connection that was destroyed are not modelled.
- `ClosedIsReleased` excepts an `AcceptHandle` that never returns: with no free
  number left `accept` says EMFILE and never EAGAIN, so loop 0 repeats the recovery
  and does not get to the removals that would free a number. It and
  `ArrivalIsHandled` except errors that take nothing although a number is free
  (`AcceptRefused`, ENFILE for instance) if they recur for ever: `AcceptHandle`
  goes round as long as they come.
- `ConnectResolves` excepts a `connect` that fails at once (`gave_up`): the code says
  "temporaliy error,retry" but closes the socket and leaves `state_` at
  `kConnecting`, after which `Connect` does nothing.
- `ChannelIsSafe`, `SocketIsOwned` and `DestroyedIsUnused` except a client that is
  destroyed, or an open connection that is let go, while the loop still uses it
  (`hasty`): an attempt under way, a queued task bound to a raw `this`, or an open
  connection when the owner is not in the loop's thread or holds the last
  reference. `DestroyedIsUnused` also excepts `Disconnect`, which tests
  `connection_` and then uses it while the loop may have reset it.

Fairness is weak fairness of running threads: a loop thread goes round (`Poll(0)`
does not block) and its callbacks return; a call that has begun goes on; the last
`shared_ptr` destroys its object. Two assumptions are about others: the
peer takes what is sent (`BufferDrains`, `ShutdownCompletes`) and the kernel
answers a pending `connect` (`ConnectResolves`). Nothing is assumed about new calls or new data.

## 4. Proofs

All theorems hold for every value of the constants that satisfies the assumptions
named in the modules (types of the constants, finitely many descriptors,
non-empty arrays); TLC evaluates the same assumptions on every run.

| module | theorem | says |
|---|---|---|
| `ChannelLoopProofs` | `TypeCorrect`, `PollerCorrect`, `RecordsCorrect`, `NoRemovedChannelCalled`, `InterestWatched`, `ReadyBounded` | the safety properties of `channel_loop`; the ready array keeps its initial size or stays within twice the number of descriptors |
| `TcpConnectionProofs` | `ConnectionTypeCorrect`, `StreamCorrect`, `WritingCorrect`, `FinCorrect`, `StateOrder` | the byte stream, the write event, FIN after data and the order of states, for any sizes, callbacks and calls, `StartRead` and `StopRead` included |
| `ConnectionLifeProofs` | `AssertsCorrect`, `HandlersCorrect`, `LifeCorrect` | the assertions, no handler of a destroyed object, and the refinement of `ConnectionLife`, under `KeptCalls` |
| `TcpServerProofs` | `ServerTypeCorrect`, `TableCorrect`, `DescriptorsCorrect`, `ServerLifeCorrect` | the table, the descriptors and the life of every connection, for any number of connections, loops and descriptors |
| `TcpClientProofs` | `ClientTypeCorrect`, `ClientChannelSafe`, `ClientSocketOwned`, `ClientDestroyedUnused` | the safety of the client, for any number of refusals and calls |
| `EventLoopThreadProofs` | `ThreadTypeCorrect`, `HandoverCorrect` | the hand-over of the loop between its thread and its owner |
| `TaskQueueProofs` | `QueueTypeCorrect`, `QueueAssertsCorrect`, `QueueFifoCorrect`, `QueueHoldsUnrun` | the queue's assertions, the refinement of `TaskFifo`, and that a task taken and not yet returned is in the ring, for any block sizes, numbers of blocks and tasks and failing allocations; the last three under `OneProducer` |
| `BufferProofs` | `BufferCorrect`, `BufferTypeCorrect` | `Buffer` implements `ByteQueue`, for any sizes, up to the last index the type can hold (in the code 2^32 - 1) |

Two hypotheses restrict the constants, because the code does not do without them:

- `KeptCalls`: the application calls `Send`, `Shutdown` and `ForceClose`, and the
  message callback calls `Shutdown` and `ForceClose`. With `StopRead` the run
  `connection_stopread` refutes `RemoveIsListed`, part of `AssertsHold`; `StartRead`
  behind a close and a `Send` inside the message callback break the assertions as
  described in section 3. The types, the stream, the write event, the FIN and the
  order of states are proved without the hypothesis.
- `OneProducer`: one thread calls `enqueue`, as `readerwriterqueue.h` asks. With two,
  `queue_producers` loses a task. `QueueTypeCorrect` does without it.

None of the properties is inductive alone. The inductive invariants (`IInv` in each
module, checked with TLC before they were proved) and why they are needed:

- *Channel loop.* That an update finds its channel listed needs the status, that the
  kernel reports listed channels needs the list, and that the assertion of
  `RemoveEventChannel` sees every harmful removal needs that in a callback the
  active channel is the entry being handled and that no channel is listed twice:
  `TypeOK`, `Consistent`, `Watched`, `LoopConsistent`, `PendingIsListed` and
  `ReadyIsBounded`. Two lemmas say what an update and a removal do to a consistent
  poller.
- *Connection.* That bytes leave in order needs that a direct write happens only
  with an empty `write_buffer_`, which the code decides by the channel's write flag;
  so `WriteInv` says that the flag is set exactly while an unclosed connection has
  something buffered, and `StartInv` that nothing happens before
  `ConnectEstablished`; `ReadInv` (what is to be read was sent) bounds the reads. Steps are sorted
  into those that leave the stream alone (`QuietStep`), those that close
  (`ClosingStep`) and those that send or write.
- *Life of a connection.* `LifeInv` describes each stage of `ConnectionLife` by what
  the loop, the queue, the poller and the server's thread may then hold: in
  `ClosedStage`, for instance, the channel is disabled but listed, the server's thread
  has the one removal to run, and no `ConnectDestoryed` is queued yet. It is a disjunction of six such
  stages, and `LifeStep` says between which of them a step may go. The theorems
  follow from it: each stage excludes failed assertions and dead handlers, and maps
  to one abstract stage.
- *Server.* A removal may erase by number only because the number cannot have
  been given away: the queued task itself holds a reference, so the object, and with
  it the number, is still there. `GoneInv` says that the destroyed connections are
  exactly the unreferenced ones, `DescriptorInv` who owns each number at each step of
  the recovery, `OrderInv` which tasks go with which state of a connection, and
  `TableInv` what is to be proved of the table. These four hold until the
  application disturbs the low numbers or the reserve is lost; `TypeOK` and `AcceptInv`, which bounds the
  connections still to come, hold throughout. For `ServerLifeCorrect` the module's
  `LifeInv` adds, until `~TcpServer`, that a registered channel belongs to a
  connection that is in the table or has its `ConnectDestoryed` queued, and that the
  latter is queued only for a connection that is closed and erased: hence what loses
  its last reference has no channel left in a poller.
- *Client.* The order of the queue matters: `ConnectorInv` says that a reset never
  stands behind the attempt that will make the next channel, and that at most one
  attempt is under way; `ConnectionInv` who holds the connection; `DestroyedInv` what
  a client leaves behind that was let go while nothing of it was in use.
- *Thread.* Where the owner and the new thread may be relative to each other:
  `Handshake` (the mutex around `started_`), `Publication` (`loop_` and the object
  behind it) and `Ending` (the loop returns only after a `Quit`).
- *Queue.* The two sides work on stale copies of each other's indices: `ShadowsLag`
  says that a shadow is behind but never past the index it copies, so that a slot
  taken for free is free and one taken for full is full. `BlocksInv` says what each
  block holds, `RingInv` that the blocks in use form a chain from `frontBlock` to
  `tailBlock` whose tasks are numbered consecutively, all other blocks being empty
  but one that is filled and not yet shown;
  `EnqueueInv` and `DequeueInv` what the locals of a call still stand for, the block
  that is linked but not yet entered among them, and that a consumer that saw
  another `tailBlock` and then found its own block empty may leave it; `HistoryInv`
  ties the numbers to `posted` and `result`.
  `QueueHoldsUnrun` needs no more than this invariant. The spans of the active blocks
  leave no gap between the next task to be returned and the last one posted (`NoGap`,
  by the least number that would be in none of them), and the slot a number stands
  for holds its task, or the consumer does while it moves it out (`SpanHolds`). It is
  `NoTaskLost` said without walking the chain: `Contents` follows `next` from
  `frontBlock` by recursion, which the provers cannot unfold, so the theorem speaks of
  the active blocks, which `RingInv` makes a chain.
- *Buffer.* `Good`: the indices are in order and inside a vector no longer than
  `MaxIndex`, so that the unsigned differences are the true ones (`NoWrap`), and what
  lies between them was put there. One lemma per operation says what it does to the
  readable bytes; the step of the refinement follows from it.

Only model-checked: all liveness (`ReadyIsServed`, `DataIsRead`, `BufferDrains`,
`ShutdownCompletes`, `PeerEndNoticed`, `ClosedIsDestroyed`, `ArrivalIsHandled`,
`ClosedIsReleased`, `ConnectResolves`, `PostedIsRun`, `GetLoopReturns`,
`DestructorReturns`, `QuitReturns`, `QueuedIsRun`), since fairness and `ENABLED` are
outside what the provers used here handle. Every invariant, every action property and
every refinement that a passing run checks is also a theorem.

Each proof module names its provers once, under its `EXTENDS`; a leaf that needs no
arithmetic cites Zenon itself, and the arithmetic is kept in small lemmas near the top
of a module. The encoding for the SMT solver slows down as a long module is worked
through, and leaves at its end would otherwise run out of time.

## 5. Not modelled

- Socket and address wrappers: no state; what the system calls do is part of the
  modules that use them. The logger: output only.
- `FindCRLF` and accessors of `Buffer` (no change), `EncThread::Join` and the pool's
  round-robin choice (no caller in the library), unused parts of the queue.
- A buffer through which 2^32 bytes pass without its ever being empty: its write
  index wraps, and it stops being a queue. The guards stay below that.
- Which callback the server hands to its connections (`SetWriteCompleteCB` is given
  `high_water_cb_`): a connection's callbacks are a constant of `TcpConnection`.
- `~EventLoopThreadPool` inside `~TcpServer`: one thread's end is `EventLoopThread`'s.
- The third-party code under `src/thirdparty`, which is nine tenths of the lines under
  `src/`. Of it the library runs `readerwriterqueue`, which is modelled, and spdlog
  with its bundled fmt, which it calls synchronously to format and write text: no
  state that the library reads back, and nothing a property here could be about.
  `concurrentqueue` is compiled into one test only. The models therefore cover a
  small share of the tree, and nearly all of the library's own concurrent code.
