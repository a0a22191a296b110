---------------------------- MODULE ChannelLoop ----------------------------
(***************************************************************************)
(* The thread of one EventLoop polling its channels and running their      *)
(* callbacks: EventLoop::Loop, HandleEventContext, UpdateEventChannel and   *)
(* RemoveEventChannel, EpollPoller::Poll, and the channel calls that the    *)
(* callbacks and the queued tasks make.  The task queue itself and Quit()   *)
(* are the subject of module EventLoop; here a task is a period in which    *)
(* channel calls may be made outside of any callback.                       *)
(*                                                                         *)
(* Everything happens in the loop thread (Poller asserts it), so one step   *)
(* is one channel call or one phase of Loop; the kernel, which puts         *)
(* descriptors on the ready list, runs concurrently.                        *)
(***************************************************************************)
EXTENDS EpollPoller, Naturals, Sequences, FiniteSets

CONSTANT InitReady   \* initial size of EpollPoller::events_ready (16 in the code)

ASSUME LoopAssumption ==
  /\ IsFiniteSet(Fds)
  /\ InitReady \in Nat \ {0}

VARIABLES
  poller,               \* channels, poller and epoll set: see EpollPoller
  events_ready,         \* EpollPoller::events_ready.size()
  phase,                \* where Loop() is
  evt_channel_list_,    \* EventLoop::evt_channel_list_, what Poll reported
  done,                 \* how many of its entries have been handled
  evt_channel_active_   \* EventLoop::evt_channel_active_

vars == <<poller, events_ready, phase, evt_channel_list_, done,
          evt_channel_active_>>

\* All but the poller.
loopVars == <<events_ready, phase, evt_channel_list_, done,
              evt_channel_active_>>

Phases == {"idle", "poll", "handle", "callback", "task"}

TypeOK ==
  /\ poller \in PollerType
  /\ events_ready \in Nat \ {0}
  /\ phase \in Phases
  /\ evt_channel_list_ \in Seq(Channels)
  /\ done \in 0..Len(evt_channel_list_)
  /\ evt_channel_active_ \in Channels \cup {NoChannel}

-----------------------------------------------------------------------------
\* The constructor leaves evt_channel_active_ uninitialized: any value.
Init ==
  /\ poller = NewPoller
  /\ events_ready = InitReady
  /\ phase = "idle"
  /\ evt_channel_list_ = <<>>
  /\ done = 0
  /\ evt_channel_active_ \in Channels \cup {NoChannel}

\* The kernel: a watched file becomes ready.
KernelReady(fd) ==
  /\ poller.data[fd] # NoChannel
  /\ fd \notin poller.ready
  /\ poller' = [poller EXCEPT !.ready = @ \cup {fd}]
  /\ UNCHANGED loopVars

\* The kernel: new watches start, or stop, being refused.
KernelLimit ==
  /\ poller' = [poller EXCEPT !.nospc = ~@]
  /\ UNCHANGED loopVars

-----------------------------------------------------------------------------
(* EventLoop::Loop *)

LoopStart ==
  /\ phase = "idle"
  /\ phase' = "poll"
  /\ UNCHANGED <<poller, events_ready, evt_channel_list_, done,
                 evt_channel_active_>>

\* The orders in which epoll_wait may report a set of descriptors.
Orders(S) ==
  {s \in [1..Cardinality(S) -> S] :
     \A i, j \in 1..Cardinality(S) : i # j => s[i] # s[j]}

\* Poll ends by making more room when all of it was used.
GrowReady_Never(n) == events_ready
GrowReady(n) == IF n = events_ready THEN 2 * events_ready ELSE events_ready

\* EpollPoller::Poll: epoll_wait(timeout 0) with room for events_ready
\* entries.  An entry on the ready list may turn out to have no event any
\* more (silent).  Entries watched with EPOLLET leave the ready list when
\* they are reported, the others may stay on it.  Loop() has cleared
\* evt_channel_list_ just before, and HandleEventContext starts just after.
Poll ==
  /\ phase = "poll"
  /\ \E silent \in SUBSET poller.ready :
     \E got \in SUBSET (poller.ready \ silent) :
       LET rest == (poller.ready \ silent) \ got IN
       /\ \/ rest = {} /\ Cardinality(got) <= events_ready
          \/ rest # {} /\ Cardinality(got) = events_ready
       /\ \E stay \in SUBSET {fd \in got : "read" \notin poller.mask[fd]} :
            poller' = [poller EXCEPT !.ready = rest \cup stay]
       /\ \E order \in Orders(got) :
            evt_channel_list_' = [i \in 1..Cardinality(got) |->
                                    poller.data[order[i]]]
       /\ events_ready' = GrowReady(Cardinality(got))
  /\ done' = 0
  /\ phase' = "handle"
  /\ evt_channel_active_' = NoChannel

\* HandleEventContext: the next channel of the list gets its HandleEvent.
HandleEventContext_NoActive ==
  /\ phase = "handle"
  /\ done < Len(evt_channel_list_)
  /\ phase' = "callback"
  /\ UNCHANGED <<poller, events_ready, evt_channel_list_, done,
                 evt_channel_active_>>

HandleEventContext ==
  /\ phase = "handle"
  /\ done < Len(evt_channel_list_)
  /\ evt_channel_active_' = evt_channel_list_[done + 1]
  /\ phase' = "callback"
  /\ UNCHANGED <<poller, events_ready, evt_channel_list_, done>>

\* HandleEvent returns to HandleEventContext.
HandleEventReturn_Skip ==
  /\ phase = "callback"
  /\ done' = done + 2
  /\ phase' = "handle"
  /\ UNCHANGED <<poller, events_ready, evt_channel_list_, evt_channel_active_>>

HandleEventReturn ==
  /\ phase = "callback"
  /\ done' = done + 1
  /\ phase' = "handle"
  /\ UNCHANGED <<poller, events_ready, evt_channel_list_, evt_channel_active_>>

\* HandleEventContext returns to Loop, which calls RunTaskFuncs.
HandleEventContextReturn ==
  /\ phase = "handle"
  /\ done = Len(evt_channel_list_)
  /\ evt_channel_active_' = NoChannel
  /\ phase' = "task"
  /\ UNCHANGED <<poller, events_ready, evt_channel_list_, done>>

\* RunTaskFuncs returns; while (!quit_).
RunTaskFuncsReturn ==
  /\ phase = "task"
  /\ phase' \in {"poll", "idle"}
  /\ UNCHANGED <<poller, events_ready, evt_channel_list_, done,
                 evt_channel_active_>>

-----------------------------------------------------------------------------
(* Channel calls.  They are made by callbacks, by tasks, and before and     *)
(* after Loop() in the thread that owns the loop.                           *)

UserCode == phase \in {"idle", "callback", "task"}

\* A descriptor number belongs to one open file at a time: its next channel
\* comes to life after the previous one has left the poller.
OwnsFd(c) ==
  \A d \in Channels \ {c} :
    Fd[d] = Fd[c] => poller.status[d] = "NEW_CHANNEL"

UpdateChannel(c, next) ==
  /\ UserCode
  /\ OwnsFd(c)
  /\ poller' = next
  /\ UNCHANGED loopVars

DoEnableReading(c) == UpdateChannel(c, EnableReading(poller, c))
DoDisableReading(c) == UpdateChannel(c, DisableReading(poller, c))
DoEnableWriting(c) == UpdateChannel(c, EnableWriting(poller, c))
DoDisableWriting(c) == UpdateChannel(c, DisableWriting(poller, c))
DoDisableAll(c) == UpdateChannel(c, DisableAll(poller, c))

\* EventLoop::RemoveEventChannel, in front of the poller's: its assertion
\* looks at all of evt_channel_list_, entries handled already included.  A
\* failure goes under the name of the place the call came from.
RemoveFromLoop(p, c) ==
  LET caller == IF phase = "callback"
                THEN "removed_by_callback" ELSE "remove_not_pending"
  IN  RemoveEventChannel(
        Expect(p, caller,
               \/ evt_channel_active_ = NoChannel
               \/ c = evt_channel_active_
               \/ \A i \in 1..Len(evt_channel_list_) :
                    evt_channel_list_[i] # c),
        c)

\* A removal of any channel, by any user code: a callback removes its own
\* (TcpConnector) or another one (one that destroys a server, and with it
\* the acceptor's channel), a task or the owner of the loop any.
\* DisableAll(); RemoveFromLoop();  as the destructors and the connector do.
DisableAndRemove(c) ==
  /\ UserCode
  /\ OwnsFd(c)
  /\ poller' = RemoveFromLoop(DisableAll(poller, c), c)
  /\ UNCHANGED loopVars

\* RemoveFromLoop() of a channel disabled earlier, as ConnectDestoryed does.
RemoveDisabled(c) ==
  /\ UserCode
  /\ poller.status[c] # "NEW_CHANNEL"
  /\ IsNoneEvent(poller, c)
  /\ poller' = RemoveFromLoop(poller, c)
  /\ UNCHANGED loopVars

-----------------------------------------------------------------------------
ChannelCall(c) ==
  \/ DoEnableReading(c)
  \/ DoDisableReading(c)
  \/ DoEnableWriting(c)
  \/ DoDisableWriting(c)
  \/ DoDisableAll(c)
  \/ DisableAndRemove(c)
  \/ RemoveDisabled(c)

LoopStep ==
  \/ LoopStart
  \/ Poll
  \/ HandleEventContext
  \/ HandleEventReturn
  \/ HandleEventContextReturn
  \/ RunTaskFuncsReturn

Next ==
  \/ LoopStep
  \/ \E c \in Channels : ChannelCall(c)
  \/ \E fd \in Fds : KernelReady(fd)
  \/ KernelLimit

Spec == Init /\ [][Next]_vars

\* Once in Loop() the thread keeps running, and callbacks and tasks return.
Fairness ==
  /\ WF_vars(Poll)
  /\ WF_vars(HandleEventContext) /\ WF_vars(HandleEventReturn)
  /\ WF_vars(HandleEventContextReturn) /\ WF_vars(RunTaskFuncsReturn)
FairSpec == Spec /\ Fairness

-----------------------------------------------------------------------------
\* No assertion of Poller and EpollPoller about channels fails, whatever
\* calls callbacks and tasks make.  The one of EventLoop::RemoveEventChannel
\* fails only for a callback that removes another channel reported in the
\* same round: not for a task between the rounds, which finds the list of
\* the last round still there, and not before the first Loop(), whatever
\* the constructor left in evt_channel_active_.
AssertsHold == poller.failed \subseteq {"removed_by_callback"}

\* The three records of what is watched agree after every call: a channel is
\* in evt_channel_list_ under its descriptor exactly from its first update
\* to its removal, and the kernel reports only channels that are listed,
\* with status ADDED_CHANNEL and with the flags the channel asks for now.
ListMatchesStatus ==
  \A c \in Channels :
    poller.status[c] # "NEW_CHANNEL" <=> poller.list[Fd[c]] = c

KernelMatchesList ==
  \A fd \in Fds : poller.data[fd] # NoChannel =>
    LET c == poller.data[fd] IN
    /\ poller.list[fd] = c
    /\ poller.status[c] = "ADDED_CHANNEL"
    /\ poller.mask[fd] = poller.events[c]

RecordsAgree == ListMatchesStatus /\ KernelMatchesList

\* A channel that asks for events is watched by the kernel, unless its last
\* EPOLL_CTL_ADD was refused (UpdateEpollCtrl ignores the result, so nobody
\* tries again).
InterestIsWatched ==
  \A c \in Channels :
    ~IsNoneEvent(poller, c) => poller.data[Fd[c]] = c \/ c \in poller.refused

\* The assertion of RemoveEventChannel is enough: as long as it has not
\* failed in a callback, HandleEventContext calls no channel that has left
\* the poller.  Callbacks, tasks and the owner remove any channel at any
\* time; whichever removal would leave a raw pointer among the entries of
\* evt_channel_list_ whose turn is still to come is one the assertion sees.
StillToCome ==
  {i \in 1..Len(evt_channel_list_) :
     \/ phase = "handle" /\ i > done
     \/ phase = "callback" /\ i > done + 1}

PendingIsListed ==
  "removed_by_callback" \notin poller.failed =>
    \A i \in StillToCome :
      poller.list[Fd[evt_channel_list_[i]]] = evt_channel_list_[i]

\* events_ready grows by doubling, but never beyond twice the number of
\* descriptors there are to report.
ReadyIsBounded ==
  \/ events_ready = InitReady
  \/ events_ready <= 2 * Cardinality(Fds)

\* No ready descriptor starves while Loop() runs, although the kernel picks what to report
\* when events_ready has no room for all: doubling it ends the shortage.
ReadyIsServed ==
  \A fd \in Fds :
    fd \in poller.ready ~>
      \/ phase = "idle"
      \/ fd \notin poller.ready
      \/ phase = "callback" /\ evt_channel_active_ = poller.data[fd]
=============================================================================
