---------------------------- MODULE EpollPoller ----------------------------
(***************************************************************************)
(* EventChannel (net/event/event_channel) together with the poller it is   *)
(* registered in (net/poller, net/poller_impl/epoll_poller), as operators   *)
(* on one record p that holds all the state the two classes share:          *)
(*                                                                         *)
(*   p.events[c]   EventChannel::events_, as a subset of Flags             *)
(*   p.status[c]   EventChannel::poller_status_                            *)
(*   p.list[fd]    Poller::evt_channel_list_ (NoChannel: no such key)      *)
(*   p.data[fd]    the kernel's interest list: epoll_event.data.ptr, or    *)
(*                 NoChannel when the descriptor is not in the epoll set   *)
(*   p.mask[fd]    epoll_event.events of that entry                        *)
(*   p.ready       the descriptors on the kernel's ready list              *)
(*   p.nospc       the kernel refuses new watches (ENOSPC, ENOMEM)         *)
(*   p.refused     the channels whose last EPOLL_CTL_ADD was refused so    *)
(*   p.failed      the assert() calls that have failed so far              *)
(*                                                                         *)
(* A handler that makes several channel calls composes the operators, so   *)
(* that it stays one step of the modules that use this one.                *)
(***************************************************************************)
CONSTANTS
  Channels,    \* EventChannel objects of one loop
  Fds,         \* file descriptors
  Fd,          \* Fd[c]: fd_ of channel c, set by its constructor for good
  NoChannel    \* nullptr

ASSUME ChannelAssumption ==
  /\ Fd \in [Channels -> Fds]
  /\ NoChannel \notin Channels

\* EPOLLIN, EPOLLPRI and EPOLLET are only ever set and cleared together, so
\* they are the one flag "read"; EPOLLOUT is "write".
read_event_flag == {"read"}
write_event_flag == {"write"}
none_event_flag == {}
Flags == read_event_flag \cup write_event_flag

ChannelStatus == {"NEW_CHANNEL", "ADDED_CHANNEL", "DELETE_CHANNEL"}

\* The assertions of Poller, EpollPoller and EventLoop about channels; the
\* last two are the one of EventLoop, outside of a callback and in one.
Asserts == {"new_not_listed", "added_is_listed", "delete_is_listed",
            "remove_is_listed", "remove_none_event", "remove_status",
            "remove_not_pending", "removed_by_callback"}

PollerType ==
  [events : [Channels -> SUBSET Flags],
   status : [Channels -> ChannelStatus],
   list   : [Fds -> Channels \cup {NoChannel}],
   data   : [Fds -> Channels \cup {NoChannel}],
   mask   : [Fds -> SUBSET Flags],
   ready  : SUBSET Fds,
   nospc  : BOOLEAN,
   refused : SUBSET Channels,
   failed : SUBSET Asserts]

\* A poller with nothing registered, and channels just constructed.
NewPoller ==
  [events |-> [c \in Channels |-> none_event_flag],
   status |-> [c \in Channels |-> "NEW_CHANNEL"],
   list   |-> [fd \in Fds |-> NoChannel],
   data   |-> [fd \in Fds |-> NoChannel],
   mask   |-> [fd \in Fds |-> none_event_flag],
   ready  |-> {},
   nospc  |-> FALSE,
   refused |-> {},
   failed |-> {}]

\* assert(cond): a failure is remembered in p.failed.
Expect(p, name, cond) ==
  IF cond THEN p ELSE [p EXCEPT !.failed = @ \cup {name}]

-----------------------------------------------------------------------------
(* The kernel: epoll_ctl(2).  ADD fails with EEXIST or ENOSPC, MOD and DEL  *)
(* fail with ENOENT; a failed call leaves the epoll set as it is.  ADD and  *)
(* MOD poll the file at once, so the entry goes to the ready list           *)
(* (epoll_wait drops it again when the file turns out to have no event).    *)

epoll_ctl_add(p, c) ==
  IF p.data[Fd[c]] # NoChannel
  THEN p
  ELSE IF p.nospc
       THEN [p EXCEPT !.refused = @ \cup {c}]
       ELSE [p EXCEPT !.data[Fd[c]] = c,
                      !.mask[Fd[c]] = p.events[c],
                      !.ready = @ \cup {Fd[c]},
                      !.refused = @ \ {c}]

epoll_ctl_mod(p, c) ==
  IF p.data[Fd[c]] = NoChannel
  THEN p
  ELSE [p EXCEPT !.data[Fd[c]] = c,
                 !.mask[Fd[c]] = p.events[c],
                 !.ready = @ \cup {Fd[c]}]

epoll_ctl_del(p, c) ==
  [p EXCEPT !.data[Fd[c]] = NoChannel,
            !.mask[Fd[c]] = none_event_flag,
            !.ready = @ \ {Fd[c]}]

\* EpollPoller::UpdateEpollCtrl: the result of epoll_ctl is not looked at.
UpdateEpollCtrl(op, p, c) ==
  CASE op = "EPOLL_CTL_ADD" -> epoll_ctl_add(p, c)
    [] op = "EPOLL_CTL_MOD" -> epoll_ctl_mod(p, c)
    [] op = "EPOLL_CTL_DEL" -> epoll_ctl_del(p, c)

-----------------------------------------------------------------------------
(* EpollPoller::UpdateEventChannel, one operator per case of its switch.    *)

UpdateNew(p, c) ==
  LET q == Expect(p, "new_not_listed", p.list[Fd[c]] = NoChannel)
  IN  UpdateEpollCtrl("EPOLL_CTL_ADD",
                      [q EXCEPT !.list[Fd[c]] = c,
                                !.status[c] = "ADDED_CHANNEL"], c)

\* A plausible slip: the status stays ADDED_CHANNEL after EPOLL_CTL_DEL.
UpdateAdded_KeepStatus(p, c) ==
  UpdateEpollCtrl(IF p.events[c] = none_event_flag
                  THEN "EPOLL_CTL_DEL" ELSE "EPOLL_CTL_MOD",
                  Expect(p, "added_is_listed", p.list[Fd[c]] = c), c)

UpdateAdded(p, c) ==
  LET q == Expect(p, "added_is_listed", p.list[Fd[c]] = c)
  IN  IF p.events[c] = none_event_flag
      THEN [UpdateEpollCtrl("EPOLL_CTL_DEL", q, c)
              EXCEPT !.status[c] = "DELETE_CHANNEL"]
      ELSE UpdateEpollCtrl("EPOLL_CTL_MOD", q, c)

UpdateDeleted(p, c) ==
  LET q == Expect(p, "delete_is_listed", p.list[Fd[c]] # NoChannel)
  IN  UpdateEpollCtrl("EPOLL_CTL_ADD",
                      [q EXCEPT !.list[Fd[c]] = c,
                                !.status[c] = "ADDED_CHANNEL"], c)

UpdateEventChannel(p, c) ==
  CASE p.status[c] = "NEW_CHANNEL"    -> UpdateNew(p, c)
    [] p.status[c] = "ADDED_CHANNEL"  -> UpdateAdded(p, c)
    [] p.status[c] = "DELETE_CHANNEL" -> UpdateDeleted(p, c)

\* Plausible slips in RemoveEventChannel: the entry is not erased, the
\* status is not reset.
RemoveEventChannel_NoErase(p, c) ==
  [UpdateEpollCtrl("EPOLL_CTL_DEL", p, c) EXCEPT !.status[c] = "NEW_CHANNEL"]
RemoveEventChannel_NoReset(p, c) ==
  [UpdateEpollCtrl("EPOLL_CTL_DEL", p, c) EXCEPT !.list[Fd[c]] = NoChannel]

\* EpollPoller::RemoveEventChannel.
RemoveEventChannel(p, c) ==
  LET q1 == Expect(p, "remove_is_listed", p.list[Fd[c]] = c)
      q2 == Expect(q1, "remove_none_event", p.events[c] = none_event_flag)
      q3 == Expect(q2, "remove_status", p.status[c] # "NEW_CHANNEL")
      q4 == [q3 EXCEPT !.list[Fd[c]] = NoChannel]
      q5 == IF p.status[c] = "ADDED_CHANNEL"
            THEN UpdateEpollCtrl("EPOLL_CTL_DEL", q4, c)
            ELSE q4
  IN  [q5 EXCEPT !.status[c] = "NEW_CHANNEL"]

-----------------------------------------------------------------------------
(* EventChannel: each call changes events_ and has the poller updated.      *)

IsNoneEvent(p, c) == p.events[c] = none_event_flag
IsReading(p, c) == "read" \in p.events[c]
IsWriting(p, c) == "write" \in p.events[c]

SetEvents(p, c, evts) ==
  UpdateEventChannel([p EXCEPT !.events[c] = evts], c)

EnableReading(p, c) == SetEvents(p, c, p.events[c] \cup read_event_flag)
DisableReading(p, c) == SetEvents(p, c, p.events[c] \ read_event_flag)
EnableWriting(p, c) == SetEvents(p, c, p.events[c] \cup write_event_flag)
DisableWriting(p, c) == SetEvents(p, c, p.events[c] \ write_event_flag)
DisableAll(p, c) == SetEvents(p, c, none_event_flag)

\* close(2) of a descriptor takes it out of the epoll set; the poller's own
\* evt_channel_list_ is not told.
CloseFd(p, fd) ==
  [p EXCEPT !.data[fd] = NoChannel,
            !.mask[fd] = none_event_flag,
            !.ready = @ \ {fd}]
=============================================================================
