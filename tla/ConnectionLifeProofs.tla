----------------------- MODULE ConnectionLifeProofs ------------------------
(***************************************************************************)
(* The life of a TcpConnection: it implements ConnectionLife, no handler    *)
(* runs for a destroyed connection and no assertion of the poller fails,    *)
(* for any messages, sizes, set-ups and ends of the peer, as long as the    *)
(* application keeps to the calls of KeptCalls.                             *)
(***************************************************************************)
EXTENDS TcpConnectionProofs

\* The provers a step is tried with, and their time limits.
USE SMTT(30), ZenonT(60)

\* The calls for which this holds.  StopRead and StartRead do not look at
\* state_: they enable or re-add a channel that is closed.  A message callback
\* whose Send finds the connection broken closes it, and ReadHandler goes on
\* to close it again.
KeptCalls ==
  /\ UserCalls \subseteq {"Send", "Shutdown", "ForceClose"}
  /\ CallbackCalls \subseteq {"Shutdown", "ForceClose"}

-----------------------------------------------------------------------------
(* What the poller, its list and the kernel know of the channel.            *)

Sound(p) ==
  /\ p \in PollerType /\ p.failed = {} /\ p.nospc = FALSE
  /\ p.data[fd_] = NoChannel => p.ready = {}

Unlisted(p) ==
  /\ Sound(p)
  /\ p.status[channel_] = "NEW_CHANNEL" /\ p.events[channel_] = {}
  /\ p.list[fd_] = NoChannel /\ p.data[fd_] = NoChannel

\* Registered, and reading.
Registered(p) ==
  /\ Sound(p)
  /\ p.status[channel_] = "ADDED_CHANNEL" /\ "read" \in p.events[channel_]
  /\ p.list[fd_] = channel_ /\ p.data[fd_] = channel_

\* After DisableAll: listed, but not watched.
Disabled(p) ==
  /\ Sound(p)
  /\ p.status[channel_] = "DELETE_CHANNEL" /\ p.events[channel_] = {}
  /\ p.list[fd_] = channel_ /\ p.data[fd_] = NoChannel

-----------------------------------------------------------------------------
(* The stages.  Queued removals tell the last ones apart; the handlers that *)
(* may still be due after a close are those that do not close again.        *)

Removals(q) == {i \in 1..Len(q) : q[i].op = "ConnectDestoryed"}
OneRemoval(q) == \E k \in 1..Len(q) : Removals(q) = {k}
NoReads(q) ==
  \A i \in 1..Len(q) : q[i].op \notin {"StartReadInLoop", "StopReadInLoop"}

Behind ==
  \/ pc \in {"poll", "task", "write"}
  \/ pc = "error" /\ "IN" \notin recieved_events

NewStage ==
  /\ state_ = "CONNECTING" /\ alive = TRUE /\ closes = 0
  /\ NoReads(queue) /\ Unlisted(poller)

OpenStage ==
  /\ state_ \in {"CONNECTED", "DISCONNECTING"} /\ alive = TRUE /\ closes = 0
  /\ connections_ = TRUE /\ server_queue = 0
  /\ NoReads(queue) /\ Removals(queue) = {} /\ Registered(poller)
  /\ pc = "close" => "IN" \notin recieved_events

ClosedStage ==
  /\ state_ = "DISCONNECTED" /\ alive = TRUE /\ closes = 1
  /\ connections_ = TRUE /\ server_queue = 1
  /\ NoReads(queue) /\ Removals(queue) = {} /\ Disabled(poller)
  /\ Behind

ErasedStage ==
  /\ state_ = "DISCONNECTED" /\ alive = TRUE /\ closes = 1
  /\ connections_ = FALSE /\ server_queue = 0
  /\ NoReads(queue) /\ OneRemoval(queue) /\ Disabled(poller)
  /\ Behind

RemovedStage ==
  /\ state_ = "DISCONNECTED" /\ alive = TRUE /\ closes = 1
  /\ connections_ = FALSE /\ server_queue = 0
  /\ NoReads(queue) /\ Removals(queue) = {} /\ Unlisted(poller)
  /\ pc \in {"poll", "task"}

GoneStage ==
  /\ state_ = "DISCONNECTED" /\ alive = FALSE /\ closes = 1
  /\ connections_ = FALSE /\ server_queue = 0
  /\ queue = <<>> /\ held = FALSE /\ upc = "idle" /\ Unlisted(poller)
  /\ pc \in {"poll", "task"}

LifeInv ==
  \/ NewStage \/ OpenStage \/ ClosedStage
  \/ ErasedStage \/ RemovedStage \/ GoneStage

\* One step of a life: the stage stays or is followed by the next.
LifeStep ==
  \/ NewStage /\ (NewStage' \/ OpenStage')
  \/ OpenStage /\ (OpenStage' \/ ClosedStage' \/ ErasedStage')
  \/ ClosedStage /\ (ClosedStage' \/ ErasedStage')
  \/ ErasedStage /\ (ErasedStage' \/ RemovedStage')
  \/ RemovedStage /\ (RemovedStage' \/ GoneStage')
  \/ GoneStage /\ GoneStage'

-----------------------------------------------------------------------------
(* The calls on the channel, one per change of its standing.                *)

\* A poller record is its fields.
LEMMA Fields ==
  ASSUME NEW p \in PollerType
  PROVE  /\ p.events \in [Channels -> SUBSET Flags]
         /\ p.status \in [Channels -> ChannelStatus]
         /\ p.list \in [Fds -> Channels \cup {NoChannel}]
         /\ p.data \in [Fds -> Channels \cup {NoChannel}]
         /\ p.mask \in [Fds -> SUBSET Flags]
         /\ p.ready \in SUBSET Fds /\ p.nospc \in BOOLEAN
BY ZenonT(60) DEF PollerType

\* UpdateEpollCtrl is one of the three calls of epoll_ctl.
LEMMA EpollCtrlIs ==
  ASSUME NEW p, NEW c
  PROVE  /\ UpdateEpollCtrl("EPOLL_CTL_ADD", p, c) = epoll_ctl_add(p, c)
         /\ UpdateEpollCtrl("EPOLL_CTL_MOD", p, c) = epoll_ctl_mod(p, c)
         /\ UpdateEpollCtrl("EPOLL_CTL_DEL", p, c) = epoll_ctl_del(p, c)
BY ZenonT(60) DEF UpdateEpollCtrl

\* The flags of the channel are set before the poller is told.
LEMMA FlagsSet ==
  ASSUME NEW p \in PollerType, NEW e \in SUBSET Flags
  PROVE  LET q == [p EXCEPT !.events[channel_] = e]
         IN  /\ q \in PollerType /\ q.events[channel_] = e
             /\ q.status = p.status /\ q.list = p.list /\ q.data = p.data
             /\ q.ready = p.ready /\ q.nospc = p.nospc /\ q.failed = p.failed
BY TheChannel, ZenonT(60) DEF PollerType

\* ConnectEstablished registers the channel.
LEMMA EnableRegisters ==
  ASSUME NEW p, Unlisted(p)
  PROVE  Registered(EnableReading(p, channel_))
<1> DEFINE c == channel_
           e == p.events[c] \cup read_event_flag
           q == [p EXCEPT !.events[c] = e]
           s == [q EXCEPT !.list[Fd[c]] = c, !.status[c] = "ADDED_CHANNEL"]
           r == epoll_ctl_add(s, c)
<1>1. p \in PollerType /\ e \in SUBSET Flags /\ "read" \in e
  BY ZenonT(60) DEF Unlisted, Sound, read_event_flag, Flags
<1>2. /\ q \in PollerType /\ q.events[c] = e
      /\ q.status = p.status /\ q.list = p.list /\ q.data = p.data
      /\ q.ready = p.ready /\ q.nospc = p.nospc /\ q.failed = p.failed
  <2> HIDE DEF e
  <2> QED BY <1>1, FlagsSet, ZenonT(60)
<1>3. EnableReading(p, c) = UpdateNew(q, c)
  <2>1. q.status[c] = "NEW_CHANNEL"
    BY <1>2, ZenonT(60) DEF Unlisted
  <2>2. EnableReading(p, c) = UpdateEventChannel(q, c)
    BY ZenonT(60) DEF EnableReading, SetEvents
  <2> HIDE DEF q
  <2> QED BY <2>1, <2>2, ZenonT(60) DEF UpdateEventChannel
<1> HIDE DEF q, e
<1>4. Expect(q, "new_not_listed", q.list[Fd[c]] = NoChannel) = q
  BY <1>2, TheChannel, ZenonT(60) DEF Expect, Unlisted
<1>5. UpdateNew(q, c) = r
  <2>1. UpdateNew(q, c) = UpdateEpollCtrl("EPOLL_CTL_ADD", s, c)
    BY <1>4, ZenonT(60) DEF UpdateNew
  <2> QED BY <2>1, EpollCtrlIs, ZenonT(60)
<1>6. /\ s \in PollerType /\ s.events[c] = e /\ s.data = p.data
      /\ s.status[c] = "ADDED_CHANNEL" /\ s.list[fd_] = c
      /\ s.nospc = p.nospc /\ s.failed = p.failed
  BY <1>2, TheChannel, ZenonT(60) DEF PollerType, ChannelStatus
<1> HIDE DEF s
<1>7. r \in PollerType
  BY <1>6, EpollCtrlType, EpollCtrlIs, TheChannel
<1>8. s.data[Fd[c]] = NoChannel /\ s.nospc = FALSE /\ s.failed = {}
  BY <1>6, TheChannel, ZenonT(60) DEF Unlisted, Sound
<1>9. /\ r.events = s.events /\ r.status = s.status /\ r.list = s.list
      /\ r.nospc = s.nospc /\ r.failed = s.failed
      /\ r.data = [s.data EXCEPT ![Fd[c]] = c]
  BY <1>6, <1>8, ZenonT(60) DEF epoll_ctl_add, PollerType
<1>10. r.data[fd_] = c /\ c # NoChannel
  BY <1>6, <1>9, Fields, TheChannel, ChannelAssumption, ZenonT(60)
<1> HIDE DEF r
<1> QED BY <1>1, <1>3, <1>5, <1>6, <1>7, <1>8, <1>9, <1>10 DEF Registered, Sound

\* EnableWriting and DisableWriting of a registered channel leave it so.
LEMMA UpdateKeeps ==
  ASSUME NEW p, Registered(p), NEW e \in SUBSET Flags, "read" \in e
  PROVE  Registered(SetEvents(p, channel_, e))
<1> DEFINE c == channel_
           q == [p EXCEPT !.events[c] = e]
           r == epoll_ctl_mod(q, c)
<1>1. p \in PollerType
  BY ZenonT(60) DEF Registered, Sound
<1>2. /\ q \in PollerType /\ q.events[c] = e
      /\ q.status = p.status /\ q.list = p.list /\ q.data = p.data
      /\ q.ready = p.ready /\ q.nospc = p.nospc /\ q.failed = p.failed
  BY <1>1, FlagsSet, ZenonT(60)
<1>3. SetEvents(p, c, e) = UpdateAdded(q, c)
  <2>1. q.status[c] = "ADDED_CHANNEL"
    BY <1>2, ZenonT(60) DEF Registered
  <2>2. SetEvents(p, c, e) = UpdateEventChannel(q, c)
    BY ZenonT(60) DEF SetEvents
  <2> HIDE DEF q
  <2> QED BY <2>1, <2>2, ZenonT(60) DEF UpdateEventChannel
<1> HIDE DEF q
<1>4. Expect(q, "added_is_listed", q.list[Fd[c]] = c) = q
  BY <1>2, TheChannel, ZenonT(60) DEF Expect, Registered
<1>5. UpdateAdded(q, c) = r
  BY <1>2, <1>4, EpollCtrlIs DEF UpdateAdded, none_event_flag
<1>6. r \in PollerType
  BY <1>2, EpollCtrlType, EpollCtrlIs, TheChannel, ZenonT(60)
<1>7. q.data[Fd[c]] = c /\ c # NoChannel
  BY <1>2, TheChannel, ChannelAssumption, ZenonT(60) DEF Registered
<1>8. /\ r.events = q.events /\ r.status = q.status /\ r.list = q.list
      /\ r.nospc = q.nospc /\ r.failed = q.failed
      /\ r.data = [q.data EXCEPT ![Fd[c]] = c]
  BY <1>2, <1>7, ZenonT(60) DEF epoll_ctl_mod, PollerType
<1>9. r.data[fd_] = c
  BY <1>2, <1>8, Fields, TheChannel, ZenonT(60)
<1> HIDE DEF r
<1> QED BY <1>2, <1>3, <1>5, <1>6, <1>7, <1>8, <1>9, ZenonT(60) DEF Registered, Sound

\* DisableAll of a registered channel takes it out of the kernel's list only.
LEMMA DisableDoes ==
  ASSUME NEW p, Registered(p)
  PROVE  Disabled(DisableAll(p, channel_))
<1> DEFINE c == channel_
           e == none_event_flag
           q == [p EXCEPT !.events[c] = e]
           t == epoll_ctl_del(q, c)
           r == [t EXCEPT !.status[c] = "DELETE_CHANNEL"]
<1>1. p \in PollerType /\ e \in SUBSET Flags
  BY ZenonT(60) DEF Registered, Sound, none_event_flag
<1>2. /\ q \in PollerType /\ q.events[c] = e
      /\ q.status = p.status /\ q.list = p.list /\ q.data = p.data
      /\ q.ready = p.ready /\ q.nospc = p.nospc /\ q.failed = p.failed
  <2> HIDE DEF e
  <2> QED BY <1>1, FlagsSet, ZenonT(60)
<1>3. DisableAll(p, c) = UpdateAdded(q, c)
  <2>1. q.status[c] = "ADDED_CHANNEL"
    BY <1>2, ZenonT(60) DEF Registered
  <2>2. DisableAll(p, c) = UpdateEventChannel(q, c)
    BY ZenonT(60) DEF DisableAll, SetEvents
  <2> HIDE DEF q
  <2> QED BY <2>1, <2>2, ZenonT(60) DEF UpdateEventChannel
<1> HIDE DEF q
<1>4. Expect(q, "added_is_listed", q.list[Fd[c]] = c) = q
  BY <1>2, TheChannel, ZenonT(60) DEF Expect, Registered
<1>5. UpdateAdded(q, c) = r
  BY <1>2, <1>4, EpollCtrlIs DEF UpdateAdded
<1>6. t \in PollerType
  BY <1>2, EpollCtrlType, EpollCtrlIs, TheChannel, ZenonT(60)
<1>7. /\ t.events = q.events /\ t.status = q.status /\ t.list = q.list
      /\ t.nospc = q.nospc /\ t.failed = q.failed
      /\ t.data = [q.data EXCEPT ![Fd[c]] = NoChannel]
      /\ t.ready = q.ready \ {Fd[c]}
  BY <1>2, ZenonT(60) DEF epoll_ctl_del, PollerType
<1>8. t.data[fd_] = NoChannel /\ t.ready = {}
  BY <1>2, <1>7, Fields, TheChannel, ConnectionAssumption, ZenonT(60)
<1> HIDE DEF t
<1>9. /\ r \in PollerType /\ r.events = t.events /\ r.list = t.list
      /\ r.nospc = t.nospc /\ r.failed = t.failed /\ r.data = t.data
      /\ r.ready = t.ready /\ r.status[c] = "DELETE_CHANNEL"
  BY <1>6, TheChannel, ZenonT(60) DEF PollerType, ChannelStatus
<1> HIDE DEF r
<1> QED BY <1>2, <1>3, <1>5, <1>7, <1>8, <1>9
        DEF Registered, Disabled, Sound, none_event_flag

\* ConnectDestoryed removes a disabled channel, and no assertion fails.
LEMMA RemoveDoes ==
  ASSUME NEW p, Disabled(p)
  PROVE  Unlisted(RemoveEventChannel(p, channel_))
<1> DEFINE c == channel_
           q == [p EXCEPT !.list[Fd[c]] = NoChannel]
           r == [q EXCEPT !.status[c] = "NEW_CHANNEL"]
           x == Expect(Expect(Expect(p, "remove_is_listed", p.list[Fd[c]] = c),
                              "remove_none_event", p.events[c] = none_event_flag),
                       "remove_status", p.status[c] # "NEW_CHANNEL")
           y == [x EXCEPT !.list[Fd[c]] = NoChannel]
           z == IF p.status[c] = "ADDED_CHANNEL"
                THEN UpdateEpollCtrl("EPOLL_CTL_DEL", y, c) ELSE y
<1>1. p \in PollerType /\ p.status[c] = "DELETE_CHANNEL"
  BY ZenonT(60) DEF Disabled, Sound
<1>2. RemoveEventChannel(p, c) = [z EXCEPT !.status[c] = "NEW_CHANNEL"]
  BY ZenonT(60) DEF RemoveEventChannel
<1>3. x = p
  <2>1. /\ p.list[Fd[c]] = c /\ p.events[c] = none_event_flag
        /\ p.status[c] # "NEW_CHANNEL"
    BY <1>1, TheChannel, ZenonT(60) DEF Disabled, none_event_flag
  <2> QED BY <2>1, ZenonT(60) DEF Expect
<1> HIDE DEF x
<1>4. z = q
  BY <1>1, <1>3, ZenonT(60)
<1> HIDE DEF z
<1>5. RemoveEventChannel(p, c) = r
  BY <1>2, <1>4, ZenonT(60)
<1>6. /\ q \in PollerType /\ q.list[fd_] = NoChannel /\ q.events = p.events
      /\ q.data = p.data /\ q.ready = p.ready /\ q.nospc = p.nospc
      /\ q.failed = p.failed
  BY <1>1, TheChannel, ZenonT(60) DEF PollerType
<1> HIDE DEF q
<1>7. /\ r \in PollerType /\ r.list = q.list /\ r.events = q.events
      /\ r.data = q.data /\ r.ready = q.ready /\ r.nospc = q.nospc
      /\ r.failed = q.failed /\ r.status[c] = "NEW_CHANNEL"
  BY <1>6, TheChannel, ZenonT(60) DEF PollerType, ChannelStatus
<1> HIDE DEF r
<1> QED BY <1>5, <1>6, <1>7, ZenonT(60) DEF Disabled, Unlisted, Sound

\* Polls and edges change the ready list only, and put nothing there for a
\* channel that is not watched.
LEMMA ReadyKeeps ==
  ASSUME NEW p, NEW s \in SUBSET Fds,
         s = {} \/ s = p.ready \/ p.data[fd_] # NoChannel
  PROVE  LET r == [p EXCEPT !.ready = s]
         IN  /\ Unlisted(p) => Unlisted(r)
             /\ Registered(p) => Registered(r)
             /\ Disabled(p) => Disabled(r)
<1> DEFINE r == [p EXCEPT !.ready = s]
<1>1. ASSUME p \in PollerType
      PROVE  /\ r \in PollerType /\ r.list = p.list /\ r.events = p.events
             /\ r.data = p.data /\ r.ready = s /\ r.nospc = p.nospc
             /\ r.failed = p.failed /\ r.status = p.status
  BY <1>1, ZenonT(60) DEF PollerType
<1> HIDE DEF r
<1>2. Sound(p) => Sound(r)
  BY <1>1, ZenonT(60) DEF Sound
<1>3. Sound(p) => p \in PollerType
  BY ZenonT(60) DEF Sound
<1>4. /\ Unlisted(p) => Unlisted(r)
      /\ Registered(p) => Registered(r)
      /\ Disabled(p) => Disabled(r)
  BY <1>1, <1>2, <1>3, ZenonT(60) DEF Unlisted, Registered, Disabled
<1> QED BY <1>4, ZenonT(60) DEF r

\* Closing the descriptor of a channel that is not listed leaves it so.
LEMMA CloseFdKeeps ==
  ASSUME NEW p, Unlisted(p)
  PROVE  Unlisted(CloseFd(p, fd_))
<1> DEFINE r == CloseFd(p, fd_)
<1>1. p \in PollerType
  BY ZenonT(60) DEF Unlisted, Sound
<1>2. /\ r.list = p.list /\ r.events = p.events /\ r.nospc = p.nospc
      /\ r.failed = p.failed /\ r.status = p.status
      /\ r.data = [p.data EXCEPT ![fd_] = NoChannel]
      /\ r.ready = p.ready \ {fd_}
  BY <1>1, ZenonT(60) DEF CloseFd, PollerType
<1>3. r \in PollerType /\ r.data[fd_] = NoChannel /\ r.ready = {}
  BY <1>1, <1>2, ChannelCalls, Fields, TheChannel DEF Unlisted, Sound
<1> HIDE DEF r
<1>4. Unlisted(r)
  BY <1>2, <1>3, ZenonT(60) DEF Unlisted, Sound
<1> QED BY <1>4, ZenonT(60) DEF r

-----------------------------------------------------------------------------
(* Queues of tasks.                                                         *)

\* QueueInLoop of another task than a removal, and of a removal.
LEMMA AppendKeeps ==
  ASSUME NEW q \in Seq(Task), NEW t \in Task,
         t.op \notin {"StartReadInLoop", "StopReadInLoop"}
  PROVE  LET r == Append(q, t)
         IN  /\ r \in Seq(Task) /\ r # <<>>
             /\ NoReads(q) => NoReads(r)
             /\ t.op # "ConnectDestoryed" => Removals(r) = Removals(q)
             /\ t.op # "ConnectDestoryed" /\ OneRemoval(q) => OneRemoval(r)
             /\ t.op = "ConnectDestoryed" /\ Removals(q) = {} => OneRemoval(r)
<1> DEFINE r == Append(q, t)
<1>1. /\ r \in Seq(Task) /\ Len(r) = Len(q) + 1 /\ Len(q) \in Nat
      /\ r[Len(q) + 1] = t /\ \A i \in 1..Len(q) : r[i] = q[i]
  OBVIOUS
<1> HIDE DEF r
<1>2. NoReads(q) => NoReads(r)
  BY <1>1 DEF NoReads
<1>3. t.op # "ConnectDestoryed" => Removals(r) = Removals(q)
  BY <1>1 DEF Removals
<1>4. t.op # "ConnectDestoryed" /\ OneRemoval(q) => OneRemoval(r)
  BY <1>1, <1>3 DEF OneRemoval
<1>5. ASSUME t.op = "ConnectDestoryed", Removals(q) = {} PROVE OneRemoval(r)
  <2>1. Removals(r) = {Len(q) + 1}
    BY <1>1, <1>5 DEF Removals
  <2> QED BY <1>1, <2>1 DEF OneRemoval
<1>6. r # <<>>
  BY <1>1
<1> QED BY <1>1, <1>2, <1>3, <1>4, <1>5, <1>6, ZenonT(60) DEF r

\* Running the first task.
LEMMA TailKeeps ==
  ASSUME NEW q \in Seq(Task), q # <<>>
  PROVE  LET r == Tail(q)
             op == Head(q).op
         IN  /\ r \in Seq(Task)
             /\ NoReads(q) => /\ NoReads(r)
                              /\ op \notin {"StartReadInLoop", "StopReadInLoop"}
             /\ Removals(q) = {} => Removals(r) = {} /\ op # "ConnectDestoryed"
             /\ op # "ConnectDestoryed" /\ OneRemoval(q) => OneRemoval(r)
             /\ op = "ConnectDestoryed" /\ OneRemoval(q) => Removals(r) = {}
<1> DEFINE r == Tail(q)
           op == Head(q).op
<1>1. /\ r \in Seq(Task) /\ Len(q) \in Nat \ {0} /\ Len(r) = Len(q) - 1
      /\ op = q[1].op /\ \A i \in 1..Len(r) : r[i] = q[i + 1]
  OBVIOUS
<1> HIDE DEF r, op
<1>2. NoReads(q) => /\ NoReads(r)
                    /\ op \notin {"StartReadInLoop", "StopReadInLoop"}
  BY <1>1 DEF NoReads
<1>3. \A i \in 1..Len(r) : i \in Removals(r) <=> i + 1 \in Removals(q)
  BY <1>1 DEF Removals
<1>4. op = "ConnectDestoryed" <=> 1 \in Removals(q)
  BY <1>1 DEF Removals
<1>5. Removals(r) \subseteq 1..Len(r) /\ Removals(q) \subseteq 1..Len(q)
  BY ZenonT(60) DEF Removals
<1>6. Removals(q) = {} => Removals(r) = {} /\ op # "ConnectDestoryed"
  BY <1>3, <1>4, <1>5, ZenonT(60)
<1>7. ASSUME OneRemoval(q)
      PROVE  IF op = "ConnectDestoryed" THEN Removals(r) = {} ELSE OneRemoval(r)
  <2>1. PICK k \in 1..Len(q) : Removals(q) = {k}
    BY <1>7, ZenonT(60) DEF OneRemoval
  <2>2. CASE op = "ConnectDestoryed"
    <3>1. k = 1
      BY <1>4, <2>1, <2>2, ZenonT(60)
    <3>2. \A i \in 1..Len(r) : i \notin Removals(r)
      BY <1>1, <1>3, <2>1, <3>1
    <3> QED BY <1>5, <2>2, <3>2, ZenonT(60)
  <2>3. CASE op # "ConnectDestoryed"
    <3>1. k # 1
      BY <1>4, <2>1, <2>3, ZenonT(60)
    <3>2. k - 1 \in 1..Len(r)
      BY <1>1, <3>1
    <3>3. \A i \in 1..Len(r) : i \in Removals(r) <=> i = k - 1
      BY <1>1, <1>3, <2>1
    <3>4. Removals(r) = {k - 1}
      BY <1>5, <3>2, <3>3, ZenonT(60)
    <3> QED BY <2>3, <3>2, <3>4, ZenonT(60) DEF OneRemoval
  <2> QED BY <2>2, <2>3, ZenonT(60)
<1> QED BY <1>1, <1>2, <1>6, <1>7, ZenonT(60) DEF r, op

-----------------------------------------------------------------------------
(* HandleEvent: which callback comes next.                                  *)

\* The callback called next is due, and is not one that was tried before.
LEMMA HandleEventDue ==
  ASSUME NEW from \in {1, 2, 3, 4}, NEW evs
  PROVE  \E i \in from..5 : /\ HandleEvent(from, evs) = Handlers[i]
                            /\ Due(Handlers[i], evs)
<1> DEFINE due == {i \in from..5 : Due(Handlers[i], evs)}
           first == CHOOSE i \in due : \A j \in due : i <= j
<1>1. 5 \in due /\ \A i \in due : i \in {1, 2, 3, 4, 5}
  <2>1. 5 \in from..5 /\ \A i \in from..5 : i \in {1, 2, 3, 4, 5}
    OBVIOUS
  <2>2. Due(Handlers[5], evs)
    <3>1. Handlers[5] = "task"
      BY ZenonT(60) DEF Handlers
    <3> QED BY <3>1, ZenonT(60) DEF Due
  <2> QED BY <2>1, <2>2, ZenonT(60)
<1>2. \E i \in due : \A j \in due : i <= j
  <2> HIDE DEF due
  <2>1. CASE 1 \in due
    BY <1>1, <2>1
  <2>2. CASE 1 \notin due /\ 2 \in due
    BY <1>1, <2>2
  <2>3. CASE 1 \notin due /\ 2 \notin due /\ 3 \in due
    BY <1>1, <2>3
  <2>4. CASE 1 \notin due /\ 2 \notin due /\ 3 \notin due /\ 4 \in due
    BY <1>1, <2>4
  <2>5. CASE 1 \notin due /\ 2 \notin due /\ 3 \notin due /\ 4 \notin due
    BY <1>1, <2>5
  <2> QED BY <2>1, <2>2, <2>3, <2>4, <2>5, ZenonT(60)
<1>3. first \in due
  <2> HIDE DEF due
  <2> QED BY <1>2, ZenonT(60)
<1>4. HandleEvent(from, evs) = Handlers[first]
  BY ZenonT(60) DEF HandleEvent
<1> HIDE DEF first
<1> QED BY <1>3, <1>4, ZenonT(60)

\* After the close callback, the error callback and the reads nothing comes
\* that could close again, unless there is something to read.
LEMMA NextHandler ==
  ASSUME NEW evs
  PROVE  /\ HandleEvent(1, evs) = "close" => "IN" \notin evs
         /\ HandleEvent(2, evs) \in {"error", "read", "write", "task"}
         /\ HandleEvent(3, evs) \in {"read", "write", "task"}
         /\ HandleEvent(4, evs) \in {"write", "task"}
         /\ "IN" \notin evs => /\ HandleEvent(2, evs) # "read"
                               /\ HandleEvent(3, evs) # "read"
<1>1. /\ Handlers[1] = "close" /\ Handlers[2] = "error" /\ Handlers[3] = "read"
      /\ Handlers[4] = "write" /\ Handlers[5] = "task"
  BY ZenonT(60) DEF Handlers
<1>2. /\ \A i \in 1..5 : i \in {1, 2, 3, 4, 5}
      /\ \A i \in 2..5 : i \in {2, 3, 4, 5}
      /\ \A i \in 3..5 : i \in {3, 4, 5}
      /\ \A i \in 4..5 : i \in {4, 5}
  OBVIOUS
<1>3. Due("close", evs) => "IN" \notin evs
  BY ZenonT(60) DEF Due
<1>4. Due("read", evs) => "IN" \in evs
  BY ZenonT(60) DEF Due
<1>5. PICK i \in 1..5 : HandleEvent(1, evs) = Handlers[i] /\ Due(Handlers[i], evs)
  BY HandleEventDue, ZenonT(60)
<1>6. PICK j \in 2..5 : HandleEvent(2, evs) = Handlers[j] /\ Due(Handlers[j], evs)
  BY HandleEventDue, ZenonT(60)
<1>7. PICK k \in 3..5 : HandleEvent(3, evs) = Handlers[k] /\ Due(Handlers[k], evs)
  BY HandleEventDue, ZenonT(60)
<1>8. PICK m \in 4..5 : HandleEvent(4, evs) = Handlers[m] /\ Due(Handlers[m], evs)
  BY HandleEventDue, ZenonT(60)
<1>9. HandleEvent(1, evs) = "close" => "IN" \notin evs
  BY <1>3, <1>5, ZenonT(60)
<1>10. /\ HandleEvent(2, evs) \in {"error", "read", "write", "task"}
       /\ "IN" \notin evs => HandleEvent(2, evs) # "read"
  BY <1>1, <1>2, <1>4, <1>6, ZenonT(60)
<1>11. /\ HandleEvent(3, evs) \in {"read", "write", "task"}
       /\ "IN" \notin evs => HandleEvent(3, evs) # "read"
  BY <1>1, <1>2, <1>4, <1>7, ZenonT(60)
<1>12. HandleEvent(4, evs) \in {"write", "task"}
  BY <1>1, <1>2, <1>8, ZenonT(60)
<1> QED BY <1>9, <1>10, <1>11, <1>12, ZenonT(60)

-----------------------------------------------------------------------------
(* Steps that stay in a stage, and the steps that leave one.                *)

PollerKept ==
  /\ Unlisted(poller) => Unlisted(poller')
  /\ Registered(poller) => Registered(poller')
  /\ Disabled(poller) => Disabled(poller')

QueueKept(q, r) ==
  /\ NoReads(q) => NoReads(r)
  /\ Removals(q) = {} => Removals(r) = {}
  /\ OneRemoval(q) => OneRemoval(r)

PcKept ==
  /\ OpenStage /\ pc' = "close" => "IN" \notin recieved_events'
  /\ ClosedStage \/ ErasedStage => Behind'
  /\ RemovedStage \/ GoneStage => pc' \in {"poll", "task"}

\* A step that neither closes, erases, removes nor destroys stays in its stage.
LEMMA StageKept ==
  ASSUME LifeInv, state_ # "CONNECTING",
         UNCHANGED <<server_queue, connections_, closes, alive>>,
         \/ state_' = state_
         \/ state_ # "DISCONNECTED" /\ state_' \in {"CONNECTED", "DISCONNECTING"},
         PollerKept, QueueKept(queue, queue'), PcKept,
         alive = FALSE => UNCHANGED <<queue, held, upc>>
  PROVE  LifeStep
<1>1. CASE OpenStage
  <2>1. OpenStage'
    BY <1>1, ZenonT(60) DEF OpenStage, PollerKept, QueueKept, PcKept
  <2> QED BY <1>1, <2>1, ZenonT(60) DEF LifeStep
<1>2. CASE ClosedStage
  <2>1. ClosedStage'
    BY <1>2, ZenonT(60) DEF ClosedStage, PollerKept, QueueKept, PcKept
  <2> QED BY <1>2, <2>1, ZenonT(60) DEF LifeStep
<1>3. CASE ErasedStage
  <2>1. ErasedStage'
    BY <1>3, ZenonT(60) DEF ErasedStage, PollerKept, QueueKept, PcKept
  <2> QED BY <1>3, <2>1, ZenonT(60) DEF LifeStep
<1>4. CASE RemovedStage
  <2>1. RemovedStage'
    BY <1>4, ZenonT(60) DEF RemovedStage, PollerKept, QueueKept, PcKept
  <2> QED BY <1>4, <2>1, ZenonT(60) DEF LifeStep
<1>5. CASE GoneStage
  <2>1. GoneStage'
    BY <1>5, ZenonT(60) DEF GoneStage, PollerKept, QueueKept, PcKept
  <2> QED BY <1>5, <2>1, ZenonT(60) DEF LifeStep
<1> QED BY <1>1, <1>2, <1>3, <1>4, <1>5, ZenonT(60) DEF LifeInv, NewStage

\* Whichever handler or task finds the end first: CloseHandler of an open
\* connection closes it once, and erases it if the server has no other loop.
LEMMA CloseLeaves ==
  ASSUME OpenStage, NEW q \in Seq(Task), NoReads(q), Removals(q) = {},
         CloseHandler(q), alive' = alive, Behind'
  PROVE  LifeStep
<1>1. /\ state_' = "DISCONNECTED" /\ poller' = DisableAll(poller, channel_)
      /\ RemoveConnection(q)
  BY ZenonT(60) DEF CloseHandler
<1>2. Disabled(poller')
  BY <1>1, DisableDoes, ZenonT(60) DEF OpenStage
<1>3. closes' = 1
  BY <1>1 DEF RemoveConnection, OpenStage
<1>4. CASE "same_loop" \in setup
  <2>1. /\ connections_' = FALSE /\ queue' = Append(q, Do("ConnectDestoryed"))
        /\ server_queue' = server_queue
    BY <1>1, <1>4, ZenonT(60) DEF RemoveConnection, RemoveConnectionInLoop
  <2>2. /\ Do("ConnectDestoryed") \in Task
        /\ Do("ConnectDestoryed").op = "ConnectDestoryed"
    BY NamedTasks, ZenonT(60) DEF Do
  <2>3. NoReads(queue') /\ OneRemoval(queue')
    BY <2>1, <2>2, AppendKeeps, ZenonT(60)
  <2>4. ErasedStage'
    BY <1>1, <1>2, <1>3, <2>1, <2>3, ZenonT(60) DEF OpenStage, ErasedStage
  <2> QED BY <2>4, ZenonT(60) DEF LifeStep
<1>5. CASE "same_loop" \notin setup
  <2>1. queue' = q /\ connections_' = connections_ /\ server_queue' = server_queue + 1
    BY <1>1, <1>5, ZenonT(60) DEF RemoveConnection
  <2>2. ClosedStage'
    BY <1>1, <1>2, <1>3, <2>1 DEF OpenStage, ClosedStage
  <2> QED BY <2>2, ZenonT(60) DEF LifeStep
<1> QED BY <1>4, <1>5, ZenonT(60)

\* Nothing happens to a queue that is left alone, and QueueKept is transitive.
LEMMA QueueKeeps ==
  /\ \A q : QueueKept(q, q)
  /\ \A q, r, s : QueueKept(q, r) /\ QueueKept(r, s) => QueueKept(q, s)
  /\ \A q \in Seq(Task), t \in Task :
       t.op \notin {"StartReadInLoop", "StopReadInLoop", "ConnectDestoryed"} =>
         QueueKept(q, Append(q, t))
  /\ \A q \in Seq(Task) :
       q # <<>> /\ Head(q).op # "ConnectDestoryed" => QueueKept(q, Tail(q))
<1>1. \A q : QueueKept(q, q)
  BY ZenonT(60) DEF QueueKept
<1>2. \A q, r, s : QueueKept(q, r) /\ QueueKept(r, s) => QueueKept(q, s)
  BY ZenonT(60) DEF QueueKept
<1>3. ASSUME NEW q \in Seq(Task), NEW t \in Task,
             t.op \notin {"StartReadInLoop", "StopReadInLoop", "ConnectDestoryed"}
      PROVE  QueueKept(q, Append(q, t))
  BY <1>3, AppendKeeps, ZenonT(60) DEF QueueKept
<1>4. ASSUME NEW q \in Seq(Task), q # <<>>, Head(q).op # "ConnectDestoryed"
      PROVE  QueueKept(q, Tail(q))
  BY <1>4, TailKeeps, ZenonT(60) DEF QueueKept
<1> QED BY <1>1, <1>2, <1>3, <1>4, ZenonT(60)

-----------------------------------------------------------------------------
(* The steps, one lemma per thread.                                         *)

\* Outside of these stages no callback of the channel is to be called.
LEMMA HandlersOpen ==
  ASSUME LifeInv, state_ # "CONNECTING"
  PROVE  /\ pc \in {"close", "read", "message"} => OpenStage
         /\ pc = "error" => OpenStage \/ "IN" \notin recieved_events
         /\ ClosedStage \/ ErasedStage => state_ = "DISCONNECTED"
         /\ OpenStage => state_ \in {"CONNECTED", "DISCONNECTING"}
         /\ RemovedStage \/ GoneStage => pc \in {"poll", "task"}
         /\ ClosedStage \/ ErasedStage \/ RemovedStage \/ GoneStage => ~OpenStage
<1>1. /\ OpenStage => state_ \in {"CONNECTED", "DISCONNECTING"}
      /\ NewStage => state_ = "CONNECTING"
  BY ZenonT(60) DEF OpenStage, NewStage
<1>2. ClosedStage \/ ErasedStage => state_ = "DISCONNECTED" /\ Behind
  BY ZenonT(60) DEF ClosedStage, ErasedStage
<1>3. RemovedStage \/ GoneStage => state_ = "DISCONNECTED" /\ pc \in {"poll", "task"}
  BY ZenonT(60) DEF RemovedStage, GoneStage
<1> QED BY <1>1, <1>2, <1>3, ZenonT(60) DEF LifeInv, Behind

\* A poll finds nothing for a channel that is not watched, so no callback is
\* called for a closed connection by a later poll.
LEMMA PollLife ==
  ASSUME IInv, LifeInv, state_ # "CONNECTING", Poll
  PROVE  LifeStep
<1>1. UNCHANGED <<state_, queue, server_queue, connections_, closes, alive, held, upc>>
  BY ZenonT(60) DEF Poll, rest, hist
<1>2. /\ poller' = [poller EXCEPT !.ready = {}]
         \/ poller' = [poller EXCEPT !.ready = poller.ready]
      /\ pc' = "task" \/ (fd_ \in poller.ready /\ pc' = HandleEvent(1, recieved_events'))
  BY ZenonT(60) DEF Poll
<1>3. poller.ready \in SUBSET Fds /\ {} \in SUBSET Fds
  BY OpenState, ZenonT(60) DEF Open, PollerType
<1>4. PollerKept
  BY <1>2, <1>3, ReadyKeeps DEF PollerKept
<1>5. ASSUME ClosedStage \/ ErasedStage \/ RemovedStage \/ GoneStage
      PROVE  pc' = "task"
  <2>1. Disabled(poller) \/ Unlisted(poller)
    BY <1>5, ZenonT(60) DEF ClosedStage, ErasedStage, RemovedStage, GoneStage
  <2>2. poller.ready = {}
    BY <2>1, ZenonT(60) DEF Disabled, Unlisted, Sound
  <2> QED BY <1>2, <2>2, ZenonT(60)
<1>6. pc' = "close" => "IN" \notin recieved_events'
  <2>1. HandleEvent(1, recieved_events') = "close" => "IN" \notin recieved_events'
    BY NextHandler, ZenonT(60)
  <2> QED BY <1>2, <2>1, ZenonT(60)
<1>7. PcKept
  BY <1>5, <1>6, ZenonT(60) DEF PcKept, Behind
<1>8. QueueKept(queue, queue')
  BY <1>1, QueueKeeps, ZenonT(60)
<1> QED BY <1>1, <1>4, <1>7, <1>8, StageKept, ZenonT(60)

\* What follows for a step of the loop thread inside HandleEvent that leaves
\* the connection as it is.
LEMMA HandlerLife ==
  ASSUME IInv, LifeInv, state_ # "CONNECTING",
         UNCHANGED <<state_, poller, queue, server_queue, connections_, closes,
                     alive, held, upc, recieved_events>>,
         \/ OpenStage /\ pc' # "close"
         \/ pc = "error" /\ ~OpenStage /\ pc' \in {"write", "task"}
  PROVE  LifeStep
<1>1. PollerKept /\ QueueKept(queue, queue')
  BY QueueKeeps, ZenonT(60) DEF PollerKept
<1>2. PcKept
  BY HandlersOpen, ZenonT(60) DEF PcKept, Behind
<1> QED BY <1>1, <1>2, StageKept, ZenonT(60)

\* The callbacks for a close, for an error and for data.
LEMMA EventLife ==
  ASSUME IInv, LifeInv, state_ # "CONNECTING",
         \/ CloseEvent \/ ErrorEvent
         \/ ReadData \/ ReadUnwanted \/ ReadEof \/ ReadError \/ ReadAgain
  PROVE  LifeStep
<1>0. queue \in Seq(Task)
  BY OpenState, ZenonT(60) DEF Open
<1>1. ASSUME OpenStage, CloseHandler(queue), alive' = alive, Behind'
      PROVE  LifeStep
  BY <1>0, <1>1, CloseLeaves, ZenonT(60) DEF OpenStage
<1>2. CASE CloseEvent
  <2>1. /\ pc = "close" /\ CloseHandler(queue) /\ alive' = alive
        /\ recieved_events' = recieved_events
        /\ pc' = HandleEvent(2, recieved_events)
    BY <1>2, ZenonT(60) DEF CloseEvent, rest
  <2>2. OpenStage
    BY <2>1, HandlersOpen, ZenonT(60)
  <2>3. "IN" \notin recieved_events
    BY <2>1, <2>2, ZenonT(60) DEF OpenStage
  <2>4. Behind'
    BY <2>1, <2>3, NextHandler, ZenonT(60) DEF Behind
  <2> QED BY <1>1, <2>1, <2>2, <2>4, ZenonT(60)
<1>3. CASE ErrorEvent
  <2>1. /\ pc = "error" /\ pc' = HandleEvent(3, recieved_events)
        /\ UNCHANGED <<state_, poller, queue, server_queue, connections_, closes,
                       alive, held, upc, recieved_events>>
    BY <1>3, ZenonT(60) DEF ErrorEvent, conn, rest, hist
  <2>2. /\ pc' \in {"read", "write", "task"}
        /\ "IN" \notin recieved_events => pc' # "read"
    BY <2>1, NextHandler, ZenonT(60)
  <2>3. OpenStage \/ "IN" \notin recieved_events
    BY <2>1, HandlersOpen, ZenonT(60)
  <2> QED BY <2>1, <2>2, <2>3, HandlerLife, ZenonT(60)
<1>4. CASE ReadUnwanted \/ ReadEof
  <2>1. /\ pc = "read" /\ CloseHandler(queue) /\ alive' = alive
        /\ pc' = HandleEvent(4, recieved_events)
    BY <1>4, ZenonT(60) DEF ReadUnwanted, ReadEof, rest
  <2>2. Behind'
    BY <2>1, NextHandler, ZenonT(60) DEF Behind
  <2> QED BY <1>1, <2>1, <2>2, HandlersOpen, ZenonT(60)
<1>5. CASE ReadData \/ ReadError \/ ReadAgain
  <2>1. /\ pc = "read" /\ pc' \in {"message", HandleEvent(4, recieved_events)}
        /\ UNCHANGED <<state_, poller, queue, server_queue, connections_, closes,
                       alive, held, upc, recieved_events>>
    BY <1>5, ZenonT(60) DEF ReadData, ReadError, ReadAgain, conn, rest, hist
  <2>2. pc' # "close"
    BY <2>1, NextHandler, ZenonT(60)
  <2> QED BY <2>1, <2>2, HandlersOpen, HandlerLife, ZenonT(60)
<1> QED BY <1>2, <1>3, <1>4, <1>5, ZenonT(60)

\* WriteHandler changes the channel of an open connection only.
LEMMA WriteLife ==
  ASSUME IInv, LifeInv, state_ # "CONNECTING", WriteHandler
  PROVE  LifeStep
<1>1. /\ UNCHANGED <<state_, queue, server_queue, connections_, closes, alive, held, upc>>
      /\ pc = "write" /\ pc' = "task"
      /\ \/ poller' = poller
         \/ IsWriting(poller, channel_) /\ poller' = DisableWriting(poller, channel_)
  BY ZenonT(60) DEF WriteHandler, rest
<1>2. PollerKept
  <2>1. CASE poller' = poller
    BY <2>1, ZenonT(60) DEF PollerKept
  <2>2. CASE /\ IsWriting(poller, channel_)
             /\ poller' = DisableWriting(poller, channel_)
    <3> DEFINE e == poller.events[channel_] \ write_event_flag
    <3>1. poller.events[channel_] # {}
      BY <2>2, ZenonT(60) DEF IsWriting, write_event_flag
    <3>2. ~Unlisted(poller) /\ ~Disabled(poller)
      BY <3>1, ZenonT(60) DEF Unlisted, Disabled
    <3>3. ASSUME Registered(poller) PROVE Registered(poller')
      <4>1. poller.events[channel_] \in SUBSET Flags
        BY <3>3, Fields, TheChannel, ZenonT(60) DEF Registered, Sound
      <4>2. e \in SUBSET Flags /\ "read" \in e
        BY <3>3, <4>1, ZenonT(60) DEF Registered, write_event_flag
      <4>3. poller' = SetEvents(poller, channel_, e)
        BY <2>2, ZenonT(60) DEF DisableWriting
      <4> HIDE DEF e
      <4> QED BY <3>3, <4>2, <4>3, UpdateKeeps, ZenonT(60)
    <3> QED BY <3>2, <3>3, ZenonT(60) DEF PollerKept
  <2> QED BY <1>1, <2>1, <2>2, ZenonT(60)
<1>3. PcKept /\ QueueKept(queue, queue')
  BY <1>1, QueueKeeps, ZenonT(60) DEF PcKept, Behind
<1> QED BY <1>1, <1>2, <1>3, StageKept, ZenonT(60)

\* SendInLoop either closes an open connection, or leaves its channel
\* registered and queues nothing but a notification.
LEMMA SendLife ==
  ASSUME LifeInv, state_ # "CONNECTING", NEW n, NEW q, SendInLoop(n, q)
  PROVE  \/ OpenStage /\ CloseHandler(q)
         \/ /\ UNCHANGED <<state_, server_queue, connections_, closes>>
            /\ PollerKept
            /\ \/ queue' = q
               \/ \E name \in {"written_cb_", "high_water_cb_"} :
                    queue' = Append(q, Do(name))
<1> DEFINE Left == /\ UNCHANGED <<state_, server_queue, connections_, closes>>
                   /\ PollerKept
                   /\ \/ queue' = q
                      \/ \E name \in {"written_cb_", "high_water_cb_"} :
                           queue' = Append(q, Do(name))
<1>1. state_ # "DISCONNECTED" => OpenStage
  BY ZenonT(60) DEF LifeInv, NewStage, ClosedStage, ErasedStage, RemovedStage, GoneStage
<1>2. ASSUME NEW r, NoClose(r), UNCHANGED <<state_, poller>>,
             r = q \/ r = Append(q, Do("written_cb_"))
      PROVE  Left
  BY <1>2, ZenonT(60) DEF NoClose, PollerKept
<1>3. ASSUME state_ # "DISCONNECTED", NEW bytes, BufferRemaining(bytes, q)
      PROVE  Left
  <2>1. /\ UNCHANGED <<state_, server_queue, connections_, closes>>
        /\ queue' = q \/ queue' = Append(q, Do("high_water_cb_"))
        /\ poller' \in {poller, EnableWriting(poller, channel_)}
    BY <1>3, ZenonT(60) DEF BufferRemaining, NoClose
  <2>2. Registered(poller)
    BY <1>1, <1>3, ZenonT(60) DEF OpenStage
  <2>3. Registered(poller')
    <3> DEFINE e == poller.events[channel_] \cup write_event_flag
    <3>1. poller.events[channel_] \in SUBSET Flags
      BY <2>2, Fields, TheChannel, ZenonT(60) DEF Registered, Sound
    <3>2. e \in SUBSET Flags /\ "read" \in e
      BY <2>2, <3>1, ZenonT(60) DEF Registered, Flags
    <3>3. EnableWriting(poller, channel_) = SetEvents(poller, channel_, e)
      BY ZenonT(60) DEF EnableWriting
    <3> HIDE DEF e
    <3>4. Registered(EnableWriting(poller, channel_))
      BY <2>2, <3>2, <3>3, UpdateKeeps, ZenonT(60)
    <3> QED BY <2>1, <2>2, <3>4, ZenonT(60)
  <2>4. PollerKept
    BY <2>2, <2>3, ZenonT(60) DEF PollerKept, Registered, Unlisted, Disabled
  <2> QED BY <2>1, <2>4, ZenonT(60)
<1>4. CASE SendDiscarded(q)
  BY <1>2, <1>4, ZenonT(60) DEF SendDiscarded, conn
<1>5. CASE SendWritten(n, q)
  <2>1. /\ state_ # "DISCONNECTED"
        /\ \/ \E bytes : BufferRemaining(bytes, q)
           \/ /\ NoClose(q) \/ NoClose(Append(q, Do("written_cb_")))
              /\ UNCHANGED <<state_, poller>>
    BY <1>5, ZenonT(60) DEF SendWritten, WritesDirectly, conn
  <2> QED BY <1>2, <1>3, <2>1, ZenonT(60)
<1>6. CASE SendRefused(n, q)
  BY <1>3, <1>6, ZenonT(60) DEF SendRefused, WritesDirectly
<1>7. CASE SendFault(q)
  BY <1>1, <1>7, ZenonT(60) DEF SendFault, WritesDirectly
<1>8. CASE SendBuffered(n, q)
  BY <1>3, <1>8, ZenonT(60) DEF SendBuffered
<1> QED BY <1>4, <1>5, <1>6, <1>7, <1>8, ZenonT(60) DEF SendInLoop

\* A task that leaves the connection open, or closed, as it was.
LEMMA TaskLife ==
  ASSUME IInv, LifeInv, state_ # "CONNECTING", pc = "task", pc' = "poll",
         UNCHANGED <<state_, server_queue, connections_, closes, alive, held, upc>>,
         PollerKept, QueueKept(queue, queue'), alive = FALSE => queue' = queue
  PROVE  LifeStep
<1>1. PcKept
  BY ZenonT(60) DEF PcKept, Behind
<1> QED BY <1>1, StageKept, ZenonT(60)

\* RunTaskFuncs: ForceCloseInLoop and a failing SendInLoop close an open
\* connection, ConnectDestoryed removes an erased one.
LEMMA RunLife ==
  ASSUME IInv, LifeInv, state_ # "CONNECTING", RunTaskFuncs
  PROVE  LifeStep
<1>0. queue \in Seq(Task) /\ Established(queue)
  BY OpenState, ZenonT(60) DEF Open
<1>1. /\ alive = FALSE => GoneStage
      /\ GoneStage => queue = <<>>
      /\ ~GoneStage => NoReads(queue)
  BY ZenonT(60) DEF LifeInv, NewStage, OpenStage, ClosedStage, ErasedStage, RemovedStage, GoneStage
<1>2. ASSUME queue # <<>>
      PROVE  /\ Tail(queue) \in Seq(Task) /\ Head(queue) \in Task
             /\ Head(queue).op \notin {"ConnectEstablished", "StartReadInLoop",
                                       "StopReadInLoop"}
             /\ Head(queue).op # "ConnectDestoryed" => QueueKept(queue, Tail(queue))
             /\ alive # FALSE
  <2>1. NoReads(queue) /\ alive # FALSE
    BY <1>1, <1>2, ZenonT(60)
  <2>2. Head(queue).op \notin {"StartReadInLoop", "StopReadInLoop"}
    BY <1>0, <1>2, <2>1, TailKeeps, ZenonT(60)
  <2>3. /\ Head(queue) \in Task /\ Tail(queue) \in Seq(Task)
        /\ Head(queue).op # "ConnectEstablished"
    BY <1>0, <1>2, TaskQueues, ZenonT(60)
  <2>4. Head(queue).op # "ConnectDestoryed" => QueueKept(queue, Tail(queue))
    BY <1>0, <1>2, QueueKeeps, ZenonT(60)
  <2> QED BY <2>1, <2>2, <2>3, <2>4, ZenonT(60)
<1>3. ASSUME OpenStage, queue # <<>>, CloseHandler(Tail(queue)), alive' = alive,
             pc' = "poll"
      PROVE  LifeStep
  <2>1. NoReads(Tail(queue)) /\ Removals(Tail(queue)) = {}
    BY <1>0, <1>3, TailKeeps, ZenonT(60) DEF OpenStage
  <2>2. Behind'
    BY <1>3, ZenonT(60) DEF Behind
  <2> QED BY <1>2, <1>3, <2>1, <2>2, CloseLeaves, ZenonT(60)
<1>4. CASE NoTask
  <2>1. /\ pc = "task" /\ pc' = "poll"
        /\ UNCHANGED <<state_, poller, queue, server_queue, connections_, closes,
                       alive, held, upc>>
    BY <1>4, ZenonT(60) DEF NoTask, TaskReturn, conn, rest, hist
  <2>2. PollerKept /\ QueueKept(queue, queue')
    BY <2>1, QueueKeeps, ZenonT(60) DEF PollerKept
  <2> QED BY <2>1, <2>2, TaskLife, ZenonT(60)
<1>5. CASE ConnectEstablished \/ StartReadInLoop \/ StopReadInLoop
  BY <1>2, <1>5, ZenonT(60) DEF ConnectEstablished, StartReadInLoop, StopReadInLoop, Runs
<1>6. CASE RunShutdownInLoop \/ RunNotification
  <2>1. /\ pc = "task" /\ pc' = "poll" /\ queue # <<>> /\ queue' = Tail(queue)
        /\ Head(queue).op # "ConnectDestoryed"
        /\ UNCHANGED <<state_, poller, server_queue, connections_, closes,
                       alive, held, upc>>
    BY <1>6, ZenonT(60) DEF RunShutdownInLoop, RunNotification, Runs, NoClose, TaskReturn,
                conn, rest
  <2>2. PollerKept /\ QueueKept(queue, queue')
    BY <1>2, <2>1, ZenonT(60) DEF PollerKept
  <2> QED BY <1>2, <2>1, <2>2, TaskLife, ZenonT(60)
<1>7. CASE ForceCloseInLoop
  <2>1. /\ pc = "task" /\ pc' = "poll" /\ queue # <<>>
        /\ Head(queue).op # "ConnectDestoryed"
        /\ UNCHANGED <<alive, held, upc>>
        /\ \/ /\ state_ \in {"CONNECTED", "DISCONNECTING"}
              /\ CloseHandler(Tail(queue))
           \/ NoClose(Tail(queue)) /\ UNCHANGED <<state_, poller>>
    BY <1>7, ZenonT(60) DEF ForceCloseInLoop, Runs, TaskReturn, rest
  <2>2. CASE /\ state_ \in {"CONNECTED", "DISCONNECTING"}
             /\ CloseHandler(Tail(queue))
    <3>1. OpenStage
      BY <2>2, ZenonT(60) DEF LifeInv, NewStage, ClosedStage, ErasedStage, RemovedStage, GoneStage
    <3> QED BY <1>3, <2>1, <2>2, <3>1, ZenonT(60)
  <2>3. CASE NoClose(Tail(queue)) /\ UNCHANGED <<state_, poller>>
    <3>1. /\ queue' = Tail(queue)
          /\ UNCHANGED <<state_, poller, server_queue, connections_, closes>>
      BY <2>3, ZenonT(60) DEF NoClose
    <3>2. PollerKept /\ QueueKept(queue, queue')
      BY <1>2, <2>1, <3>1, ZenonT(60) DEF PollerKept
    <3> QED BY <1>2, <2>1, <3>1, <3>2, TaskLife, ZenonT(60)
  <2> QED BY <2>1, <2>2, <2>3, ZenonT(60)
<1>8. CASE RunSendInLoop
  <2> DEFINE q == Tail(queue)
  <2>1. /\ pc = "task" /\ pc' = "poll" /\ queue # <<>>
        /\ Head(queue).op # "ConnectDestoryed"
        /\ SendInLoop(Head(queue).size, q)
        /\ UNCHANGED <<alive, held, upc>>
    BY <1>8, ZenonT(60) DEF RunSendInLoop, Runs, TaskReturn, rest
  <2>2. \/ OpenStage /\ CloseHandler(q)
        \/ /\ UNCHANGED <<state_, server_queue, connections_, closes>>
           /\ PollerKept
           /\ \/ queue' = q
              \/ \E name \in {"written_cb_", "high_water_cb_"} :
                   queue' = Append(q, Do(name))
    BY <2>1, SendLife, ZenonT(60)
  <2>3. CASE OpenStage /\ CloseHandler(q)
    BY <1>3, <2>1, <2>3, ZenonT(60)
  <2>4. QueueKept(queue, q) /\ q \in Seq(Task) /\ alive # FALSE
    BY <1>2, <2>1, ZenonT(60)
  <2> HIDE DEF q
  <2>5. ASSUME NEW name \in {"written_cb_", "high_water_cb_"},
               queue' = Append(q, Do(name))
        PROVE  QueueKept(queue, queue')
    <3>1. /\ Do(name) \in Task
          /\ Do(name).op \notin {"StartReadInLoop", "StopReadInLoop", "ConnectDestoryed"}
      BY NamedTasks, ZenonT(60) DEF Do
    <3>2. QueueKept(q, Append(q, Do(name)))
      BY <2>4, <3>1, QueueKeeps, ZenonT(60)
    <3> QED BY <2>4, <2>5, <3>2, QueueKeeps, ZenonT(60)
  <2>6. CASE /\ UNCHANGED <<state_, server_queue, connections_, closes>>
             /\ PollerKept
             /\ \/ queue' = q
                \/ \E name \in {"written_cb_", "high_water_cb_"} :
                     queue' = Append(q, Do(name))
    <3>1. QueueKept(queue, queue')
      BY <2>4, <2>5, <2>6, ZenonT(60)
    <3> QED BY <2>1, <2>4, <2>6, <3>1, TaskLife, ZenonT(60)
  <2> QED BY <2>2, <2>3, <2>6, ZenonT(60)
<1>9. CASE ConnectDestoryed
  <2>1. /\ queue # <<>> /\ queue' = Tail(queue) /\ pc' = "poll"
        /\ Head(queue).op = "ConnectDestoryed"
        /\ UNCHANGED <<server_queue, connections_, closes, alive>>
    BY <1>9, ZenonT(60) DEF ConnectDestoryed, Runs, NoClose, TaskReturn, rest
  <2>2. Removals(queue) # {}
    BY <1>0, <2>1, TailKeeps, ZenonT(60)
  <2>3. ErasedStage
    BY <1>1, <2>1, <2>2, ZenonT(60)
       DEF LifeInv, NewStage, OpenStage, ClosedStage, RemovedStage
  <2>4. state_' = state_ /\ poller' = RemoveEventChannel(poller, channel_)
    BY <1>9, <2>3, ZenonT(60) DEF ConnectDestoryed, ErasedStage
  <2>5. Unlisted(poller')
    BY <2>3, <2>4, RemoveDoes, ZenonT(60) DEF ErasedStage
  <2>6. NoReads(queue') /\ Removals(queue') = {}
    BY <1>0, <2>1, <2>3, TailKeeps, ZenonT(60) DEF ErasedStage
  <2>7. RemovedStage'
    BY <2>1, <2>3, <2>4, <2>5, <2>6, ZenonT(60) DEF ErasedStage, RemovedStage
  <2> QED BY <2>3, <2>7, ZenonT(60) DEF LifeStep
<1> QED BY <1>4, <1>5, <1>6, <1>7, <1>8, <1>9, ZenonT(60) DEF RunTaskFuncs

\* The message callback runs for an open connection only, and its calls leave
\* it open.
LEMMA MessageLife ==
  ASSUME KeptCalls, IInv, LifeInv, state_ # "CONNECTING", MessageCallback
  PROVE  LifeStep
<1>0. queue \in Seq(Task)
  BY OpenState, ZenonT(60) DEF Open
<1>1. ASSUME pc = "message", pc' \in {"message", "read"},
             UNCHANGED <<poller, server_queue, connections_, closes, alive>>,
             state_' = state_ \/ state_' = "DISCONNECTING",
             QueueKept(queue, queue')
      PROVE  LifeStep
  <2>1. OpenStage
    BY <1>1, HandlersOpen, ZenonT(60)
  <2>2. PollerKept /\ PcKept
    BY <1>1, <2>1, HandlersOpen, ZenonT(60) DEF PollerKept, PcKept
  <2> QED BY <1>1, <2>1, <2>2, StageKept, ZenonT(60) DEF OpenStage
<1>2. CASE MessageReturn
  <2>1. /\ pc = "message" /\ pc' = "read"
        /\ UNCHANGED <<state_, poller, queue, server_queue, connections_, closes, alive>>
    BY <1>2, ZenonT(60) DEF MessageReturn, conn, rest, hist
  <2> QED BY <1>1, <2>1, QueueKeeps, ZenonT(60)
<1>3. CASE MessageShutdown
  <2> DEFINE t == Do("ShutdownInLoop")
  <2>1. /\ pc = "message" /\ pc' = pc /\ state_' = "DISCONNECTING"
        /\ queue' = Append(queue, t)
        /\ UNCHANGED <<poller, server_queue, connections_, closes, alive>>
    BY <1>3, ZenonT(60) DEF MessageShutdown, MessageCall, NoClose
  <2>2. t \in Task /\ t.op = "ShutdownInLoop"
    BY NamedTasks, ZenonT(60) DEF Do
  <2>3. QueueKept(queue, queue')
    BY <1>0, <2>1, <2>2, QueueKeeps, ZenonT(60)
  <2> QED BY <1>1, <2>1, <2>3, ZenonT(60)
<1>4. CASE MessageForceClose
  <2> DEFINE t == Do("ForceCloseInLoop")
             k == IF state_ = "CONNECTED" THEN 2 ELSE 1
             f == [i \in 1..k |-> t]
             one == Append(queue, t)
             two == Append(one, t)
  <2>1. /\ pc = "message" /\ pc' = pc /\ state_' = "DISCONNECTING"
        /\ queue' = queue \o f
        /\ UNCHANGED <<poller, server_queue, connections_, closes, alive>>
    BY <1>4, ZenonT(60) DEF MessageForceClose, MessageCall, NoClose
  <2>2. t \in Task /\ t.op = "ForceCloseInLoop" /\ k \in {1, 2}
    BY NamedTasks, ZenonT(60) DEF Do
  <2> HIDE DEF t, k
  <2>3. /\ one \in Seq(Task) /\ Len(one) = Len(queue) + 1
        /\ one[Len(queue) + 1] = t /\ \A i \in 1..Len(queue) : one[i] = queue[i]
    BY <1>0, <2>2
  <2>4. QueueKept(queue, one)
    BY <1>0, <2>2, QueueKeeps, ZenonT(60)
  <2> HIDE DEF one
  <2>5. /\ two \in Seq(Task) /\ Len(two) = Len(queue) + 2
        /\ two[Len(queue) + 2] = t /\ \A i \in 1..Len(one) : two[i] = one[i]
    BY <1>0, <2>2, <2>3
  <2>6. QueueKept(queue, two)
    <3>1. QueueKept(one, two)
      BY <2>2, <2>3, QueueKeeps, ZenonT(60)
    <3> QED BY <2>4, <3>1, QueueKeeps, ZenonT(60)
  <2> HIDE DEF two
  <2>7. f \in Seq(Task) /\ Len(f) = k /\ \A i \in 1..k : f[i] = t
    <3>1. f \in [1..k -> Task] /\ k \in Nat
      BY <2>2
    <3> QED BY <2>2, <3>1
  <2> HIDE DEF f
  <2>8. /\ queue' \in Seq(Task) /\ Len(queue') = Len(queue) + k
        /\ \A i \in 1..(Len(queue) + k) :
             queue'[i] = IF i <= Len(queue) THEN queue[i] ELSE f[i - Len(queue)]
    BY <1>0, <2>1, <2>7, ConcatProperties, ZenonT(60)
  <2>9. Len(queue) \in Nat
    BY <1>0
  <2>10. ASSUME k = 1 PROVE queue' = one
    <3>1. \A i \in 1..Len(one) : queue'[i] = one[i]
      BY <2>3, <2>7, <2>8, <2>9, <2>10
    <3>2. Len(queue') = Len(one)
      BY <2>3, <2>8, <2>10, ZenonT(60)
    <3> QED BY <2>3, <2>8, <3>1, <3>2, SeqEqual, ZenonT(60)
  <2>11. ASSUME k = 2 PROVE queue' = two
    <3>1. \A i \in 1..Len(two) : queue'[i] = two[i]
      BY <2>3, <2>5, <2>7, <2>8, <2>9, <2>11
    <3>2. Len(queue') = Len(two)
      BY <2>5, <2>8, <2>11, ZenonT(60)
    <3> QED BY <2>5, <2>8, <3>1, <3>2, SeqEqual, ZenonT(60)
  <2>12. QueueKept(queue, queue')
    BY <2>2, <2>4, <2>6, <2>10, <2>11, ZenonT(60)
  <2> QED BY <1>1, <2>1, <2>12, ZenonT(60)
<1>5. ASSUME NEW n, MessageSend(n) PROVE LifeStep
  BY <1>5, ZenonT(60) DEF MessageSend, MessageCall, KeptCalls
<1>6. CASE \/ MessageRead("StartRead", "StartReadInLoop")
           \/ MessageRead("StopRead", "StopReadInLoop")
  BY <1>6, ZenonT(60) DEF MessageRead, MessageCall, KeptCalls
<1> QED BY <1>2, <1>3, <1>4, <1>5, <1>6, ZenonT(60) DEF MessageCallback

\* The application's thread changes state_ of an open connection only, and
\* what it queues neither closes twice nor removes.
LEMMA UserLife ==
  ASSUME KeptCalls, IInv, LifeInv, state_ # "CONNECTING", UserThread
  PROVE  LifeStep
<1>0. queue \in Seq(Task)
  BY OpenState, ZenonT(60) DEF Open
<1> DEFINE Quiet ==
      /\ UNCHANGED <<poller, server_queue, connections_, pc, recieved_events,
                     closes, alive>>
      /\ \/ state_' = state_
         \/ state_ = "CONNECTED" /\ state_' = "DISCONNECTING"
      /\ \/ queue' = queue
         \/ \E t \in Task :
              /\ t.op \notin {"StartReadInLoop", "StopReadInLoop", "ConnectDestoryed"}
              /\ queue' = Append(queue, t)
      /\ held = TRUE \/ upc # "idle"
<1>1. Quiet
  <2>1. ASSUME NEW n \in MsgSizes, Send(n)
        PROVE  Quiet
    <3> DEFINE t == [op |-> "SendInLoop", size |-> n]
    <3>1. /\ t \in Task
          /\ t.op \notin {"StartReadInLoop", "StopReadInLoop", "ConnectDestoryed"}
      BY ZenonT(60) DEF Task
    <3>2. held = TRUE
      BY <2>1, ZenonT(60) DEF Send, UserCall, IInv, TypeOK
    <3> QED BY <2>1, <3>1, <3>2, ZenonT(60) DEF Send, UserCall, UserStep, hist
  <2>2. CASE StartRead \/ StopRead
    BY <2>2, ZenonT(60) DEF StartRead, StopRead, UserCall, KeptCalls
  <2>3. CASE Shutdown \/ ForceClose
    <3>1. held = TRUE
      BY <2>3, ZenonT(60) DEF Shutdown, ForceClose, UserCall, IInv, TypeOK
    <3> QED BY <2>3, <3>1, ZenonT(60) DEF Shutdown, ForceClose, UserCall, UserStep, hist
  <2>4. \A name \in {"ShutdownInLoop", "ForceCloseInLoop"} :
          /\ Do(name) \in Task
          /\ Do(name).op \notin {"StartReadInLoop", "StopReadInLoop", "ConnectDestoryed"}
    BY NamedTasks, ZenonT(60) DEF Do
  <2>5. CASE UserContinues
    BY <2>4, <2>5, ZenonT(60)
       DEF UserContinues, ShutdownQueue, ForceCloseQueue, ForceCloseAgain, UserStep, hist
  <2>6. CASE UserRelease
    BY <2>6, ZenonT(60) DEF UserRelease, conn, hist, IInv, TypeOK
  <2> QED BY <2>1, <2>2, <2>3, <2>5, <2>6, ZenonT(60) DEF UserThread
<1>2. alive # FALSE
  BY <1>1, ZenonT(60) DEF LifeInv, NewStage, OpenStage, ClosedStage, ErasedStage, RemovedStage, GoneStage
<1>3. PollerKept /\ PcKept
  BY <1>1, HandlersOpen, ZenonT(60)
     DEF PollerKept, PcKept, OpenStage, ClosedStage, ErasedStage, Behind
<1>4. QueueKept(queue, queue')
  <2>1. CASE queue' = queue
    BY <2>1, QueueKeeps, ZenonT(60)
  <2>2. ASSUME NEW t \in Task, queue' = Append(queue, t),
               t.op \notin {"StartReadInLoop", "StopReadInLoop", "ConnectDestoryed"}
        PROVE  QueueKept(queue, queue')
    BY <1>0, <2>2, QueueKeeps, ZenonT(60)
  <2> QED BY <1>1, <2>1, <2>2, ZenonT(60)
<1> QED BY <1>1, <1>2, <1>3, <1>4, StageKept, ZenonT(60)

\* The server's loop erases a closed connection, and the last shared_ptr
\* destroys a removed one.
LEMMA OwnerLife ==
  ASSUME IInv, LifeInv, state_ # "CONNECTING", ServerThread \/ Destroy
  PROVE  LifeStep
<1>0. queue \in Seq(Task)
  BY OpenState, ZenonT(60) DEF Open
<1>1. CASE ServerThread
  <2> DEFINE t == Do("ConnectDestoryed")
  <2>1. /\ queue' = Append(queue, t) /\ connections_' = FALSE
        /\ server_queue > 0 /\ server_queue' = server_queue - 1
        /\ UNCHANGED <<state_, poller, pc, recieved_events, alive, closes>>
    BY <1>1, ZenonT(60) DEF ServerThread, RemoveConnectionInLoop, conn, rest, hist
  <2>2. ClosedStage
    BY <2>1 DEF LifeInv, NewStage, OpenStage, ErasedStage, RemovedStage, GoneStage
  <2>3. t \in Task /\ t.op = "ConnectDestoryed"
    BY NamedTasks, ZenonT(60) DEF Do
  <2>4. NoReads(queue') /\ OneRemoval(queue')
    BY <1>0, <2>1, <2>2, <2>3, AppendKeeps, ZenonT(60) DEF ClosedStage
  <2>5. ErasedStage'
    BY <2>1, <2>2, <2>4 DEF ClosedStage, ErasedStage, Behind
  <2> QED BY <2>2, <2>5, ZenonT(60) DEF LifeStep
<1>2. CASE Destroy
  <2>1. /\ alive /\ ~connections_ /\ queue = <<>> /\ ~held /\ upc = "idle"
        /\ alive' = FALSE /\ poller' = CloseFd(poller, fd_)
        /\ UNCHANGED <<state_, queue, server_queue, connections_, pc, held, upc, closes>>
    BY <1>2, ZenonT(60) DEF Destroy, hist
  <2>2. ~OneRemoval(queue)
    BY <2>1 DEF OneRemoval
  <2>3. RemovedStage
    BY <2>1, <2>2, ZenonT(60) DEF LifeInv, NewStage, OpenStage, ClosedStage, ErasedStage, GoneStage
  <2>4. Unlisted(poller')
    BY <2>1, <2>3, CloseFdKeeps, ZenonT(60) DEF RemovedStage
  <2>5. held = FALSE
    BY <2>1, ZenonT(60) DEF IInv, TypeOK
  <2>6. GoneStage'
    BY <2>1, <2>3, <2>4, <2>5, ZenonT(60) DEF RemovedStage, GoneStage
  <2> QED BY <2>3, <2>6, ZenonT(60) DEF LifeStep
<1> QED BY <1>1, <1>2, ZenonT(60)

\* The peer wakes up a watched descriptor only.
LEMMA PeerLife ==
  ASSUME IInv, LifeInv, Peer
  PROVE  LifeStep
<1>1. UNCHANGED <<state_, queue, server_queue, connections_, pc, recieved_events,
                  held, upc, alive, closes>>
  BY PeerDoes, ZenonT(60) DEF IInv
<1>2. Edge
  BY ZenonT(60) DEF Peer, PeerData, PeerFin, PeerDrain, PeerReset, PeerStep
<1>3. PollerKept
  <2>1. CASE poller' = poller
    BY <2>1, ZenonT(60) DEF PollerKept
  <2>2. CASE /\ poller.data[fd_] # NoChannel
             /\ poller' = [poller EXCEPT !.ready = {fd_}]
    <3>1. {fd_} \in SUBSET Fds
      BY TheChannel, ZenonT(60)
    <3> QED BY <2>2, <3>1, ReadyKeeps, ZenonT(60) DEF PollerKept
  <2> QED BY <1>2, <2>1, <2>2, ZenonT(60) DEF Edge
<1>4. CASE state_ # "CONNECTING"
  <2>1. PcKept
    BY <1>1, HandlersOpen, <1>4, ZenonT(60)
       DEF PcKept, OpenStage, ClosedStage, ErasedStage, Behind
  <2>2. QueueKept(queue, queue')
    BY <1>1, QueueKeeps, ZenonT(60)
  <2> QED BY <1>1, <1>3, <1>4, <2>1, <2>2, StageKept, ZenonT(60)
<1>5. CASE state_ = "CONNECTING"
  <2>1. NewStage
    BY <1>5, ZenonT(60) DEF LifeInv, OpenStage, ClosedStage, ErasedStage, RemovedStage, GoneStage
  <2>2. NewStage'
    BY <1>1, <1>3, <2>1, ZenonT(60) DEF NewStage, PollerKept
  <2> QED BY <2>1, <2>2, ZenonT(60) DEF LifeStep
<1> QED BY <1>4, <1>5, ZenonT(60)

\* A connection that is not yet established: only ConnectEstablished ends that.
LEMMA NewLife ==
  ASSUME IInv, LifeInv, state_ = "CONNECTING", Next
  PROVE  LifeStep
<1>1. NewStage
  BY ZenonT(60) DEF LifeInv, OpenStage, ClosedStage, ErasedStage, RemovedStage, GoneStage
<1>2. /\ queue = <<Do("ConnectEstablished")>> /\ poller = NewPoller
      /\ connections_ = TRUE /\ server_queue = 0
  BY ZenonT(60) DEF IInv, StartInv, TypeOK
<1>3. CASE Poll
  <2>1. /\ UNCHANGED <<state_, queue, closes, alive>>
        /\ poller' = [poller EXCEPT !.ready = {}]
           \/ poller' = [poller EXCEPT !.ready = poller.ready]
    BY <1>3, ZenonT(60) DEF Poll, rest, hist
  <2>2. poller' = poller
    BY <1>2, <2>1, NewPollerType, ZenonT(60)
  <2>3. NewStage'
    BY <1>1, <2>1, <2>2, ZenonT(60) DEF NewStage
  <2> QED BY <1>1, <2>3, ZenonT(60) DEF LifeStep
<1>4. CASE ConnectEstablished
  <2>1. /\ state_' = "CONNECTED" /\ poller' = EnableReading(poller, channel_)
        /\ queue' = Tail(queue) /\ pc' = "poll"
        /\ UNCHANGED <<server_queue, connections_, closes, alive>>
    BY <1>4, ZenonT(60) DEF ConnectEstablished, NoClose, TaskReturn
  <2>2. Registered(poller')
    BY <1>1, <2>1, EnableRegisters, ZenonT(60) DEF NewStage
  <2>3. queue' = <<>>
    BY <1>2, <2>1
  <2>4. NoReads(queue') /\ Removals(queue') = {}
    BY <2>3 DEF NoReads, Removals
  <2>5. OpenStage'
    BY <1>1, <1>2, <2>1, <2>2, <2>4, ZenonT(60) DEF NewStage, OpenStage
  <2> QED BY <1>1, <2>5, ZenonT(60) DEF LifeStep
<1>5. CASE Peer
  BY <1>5, PeerLife, ZenonT(60)
<1> QED BY <1>3, <1>4, <1>5, ConnectingOnly, ZenonT(60)

-----------------------------------------------------------------------------
(* The theorems.                                                            *)

\* Every step of the program is a step of a life.
LEMMA NextLife ==
  ASSUME KeptCalls, IInv, LifeInv, Next
  PROVE  LifeStep
<1>1. CASE state_ = "CONNECTING"
  BY <1>1, NewLife, ZenonT(60)
<1>2. CASE state_ # "CONNECTING"
  <2>1. CASE Poll
    BY <1>2, <2>1, PollLife, ZenonT(60)
  <2>2. CASE \/ CloseEvent \/ ErrorEvent
             \/ ReadData \/ ReadUnwanted \/ ReadEof \/ ReadError \/ ReadAgain
    BY <1>2, <2>2, EventLife, ZenonT(60)
  <2>3. CASE WriteHandler
    BY <1>2, <2>3, WriteLife, ZenonT(60)
  <2>4. CASE MessageCallback
    BY <1>2, <2>4, MessageLife, ZenonT(60)
  <2>5. CASE RunTaskFuncs
    BY <1>2, <2>5, RunLife, ZenonT(60)
  <2>6. CASE UserThread
    BY <1>2, <2>6, UserLife, ZenonT(60)
  <2>7. CASE ServerThread \/ Destroy
    BY <1>2, <2>7, OwnerLife, ZenonT(60)
  <2>8. CASE Peer
    BY <2>8, PeerLife, ZenonT(60)
  <2> QED BY <2>1, <2>2, <2>3, <2>4, <2>5, <2>6, <2>7, <2>8, ZenonT(60) DEF Next, LoopThread
<1> QED BY <1>1, <1>2, ZenonT(60)

\* A connection just constructed is new.
LEMMA InitLife == Init => NewStage
<1> SUFFICES ASSUME Init PROVE NewStage
  OBVIOUS
<1>1. /\ state_ = "CONNECTING" /\ alive = TRUE /\ closes = 0 /\ poller = NewPoller
      /\ queue = <<Do("ConnectEstablished")>>
  BY ZenonT(60) DEF Init
<1>2. NoReads(queue)
  BY <1>1 DEF NoReads, Do
<1>3. Unlisted(poller)
  BY <1>1, NewPollerType, TheChannel, ZenonT(60)
     DEF Unlisted, Sound, NewPoller, none_event_flag
<1> QED BY <1>1, <1>2, <1>3, ZenonT(60) DEF NewStage

\* LifeInv is inductive relative to IInv.
LEMMA LifeInvKept ==
  ASSUME KeptCalls, IInv, LifeInv, [Next]_vars
  PROVE  LifeInv'
<1>1. CASE Next
  <2>1. LifeStep
    BY <1>1, NextLife, ZenonT(60)
  <2> QED BY <2>1, ZenonT(60) DEF LifeStep, LifeInv
<1>2. CASE UNCHANGED vars
  <2>1. UNCHANGED <<state_, poller, queue, server_queue, connections_, held, pc,
                    recieved_events, upc, closes, alive>>
    BY <1>2, ZenonT(60) DEF vars
  <2> QED BY <2>1, ZenonT(60) DEF LifeInv, NewStage, OpenStage, ClosedStage, ErasedStage,
                      RemovedStage, GoneStage, Behind
<1> QED BY <1>1, <1>2, ZenonT(60)

\* So every state of the connection is in one of the stages.
LEMMA AlwaysLife == ASSUME KeptCalls PROVE Spec => [](IInv /\ LifeInv)
<1>1. Init => IInv /\ LifeInv
  BY InitIInv, InitLife, ZenonT(60) DEF LifeInv
<1>2. IInv /\ LifeInv /\ [Next]_vars => (IInv /\ LifeInv)'
  BY NextIInv, LifeInvKept, ZenonT(60)
<1> QED BY <1>1, <1>2, PTL DEF Spec

\* The assertions of UpdateEventChannel and RemoveEventChannel hold in every
\* call the connection makes, for any messages, sizes, set-ups and peers.
THEOREM AssertsCorrect == ASSUME KeptCalls PROVE Spec => []AssertsHold
<1>1. LifeInv => AssertsHold
  BY ZenonT(60) DEF LifeInv, NewStage, OpenStage, ClosedStage, ErasedStage, RemovedStage,
         GoneStage, Unlisted, Registered, Disabled, Sound, AssertsHold
<1> QED BY <1>1, AlwaysLife, PTL

\* The callbacks bound to a raw this are called for an existing object only:
\* the close, the erasure and the queued removal keep it until the poller has
\* forgotten the channel and HandleEvent has returned.
THEOREM HandlersCorrect == ASSUME KeptCalls PROVE Spec => []HandlersRunAlive
<1>1. LifeInv => HandlersRunAlive
  BY ZenonT(60) DEF LifeInv, NewStage, OpenStage, ClosedStage, ErasedStage, RemovedStage,
         GoneStage, HandlersRunAlive
<1> QED BY <1>1, AlwaysLife, PTL

\* The stage of ConnectionLife in each of the stages.
StageFacts ==
  /\ NewStage => Stage = "new" /\ closes = 0
  /\ OpenStage => Stage = "open" /\ closes = 0
  /\ ClosedStage => Stage = "closed" /\ closes = 1
  /\ ErasedStage => Stage = "erased" /\ closes = 1
  /\ RemovedStage => Stage = "removed" /\ closes = 1
  /\ GoneStage => Stage = "gone" /\ closes = 1

\* They are those of the refinement mapping.
LEMMA StageIs == StageFacts
<1>1. NewStage => Stage = "new" /\ closes = 0
  BY ZenonT(60) DEF NewStage, Stage
<1>2. OpenStage => Stage = "open" /\ closes = 0
  BY ZenonT(60) DEF OpenStage, Stage
<1>3. ClosedStage => Stage = "closed" /\ closes = 1
  BY DEF ClosedStage, Stage
<1>4. ErasedStage => Stage = "erased" /\ closes = 1
  BY ZenonT(60) DEF ErasedStage, Disabled, Stage
<1>5. RemovedStage => Stage = "removed" /\ closes = 1
  <2>1. NoChannel # channel_
    BY TheChannel, ChannelAssumption, ZenonT(60)
  <2> QED BY <2>1, ZenonT(60) DEF RemovedStage, Unlisted, Stage
<1>6. GoneStage => Stage = "gone" /\ closes = 1
  BY ZenonT(60) DEF GoneStage, Stage
<1> QED BY <1>1, <1>2, <1>3, <1>4, <1>5, <1>6, ZenonT(60) DEF StageFacts

\* The same of the state after a step.
LEMMA StageIsNext == StageFacts'
BY StageIs, PTL

\* A TcpConnection implements ConnectionLife: it is opened, closed once,
\* erased, removed and destroyed in this order, whichever of a read, a write,
\* an event and a ForceClose finds its end, in whichever thread.
THEOREM LifeCorrect == ASSUME KeptCalls PROVE Spec => IsConnectionLife
<1>1. Init => Life!Init
  BY InitLife, StageIs, ZenonT(60) DEF StageFacts, Life!Init
<1>2. ASSUME IInv, LifeInv, [Next]_vars
      PROVE  [Life!Next]_<<Stage, closes>>
  <2>1. CASE Next
    <3>1. LifeStep
      BY <1>2, <2>1, NextLife, ZenonT(60)
    <3>2. CASE NewStage /\ (NewStage' \/ OpenStage')
      BY <3>2, StageIs, StageIsNext, ZenonT(60) DEF StageFacts, Life!Next, Life!Established, Life!Moves
    <3>3. CASE OpenStage /\ (OpenStage' \/ ClosedStage' \/ ErasedStage')
      BY <3>3, StageIs, StageIsNext DEF StageFacts, Life!Next, Life!Closed, Life!Moves
    <3>4. CASE ClosedStage /\ (ClosedStage' \/ ErasedStage')
      BY <3>4, StageIs, StageIsNext, ZenonT(60) DEF StageFacts, Life!Next, Life!Erased, Life!Moves
    <3>5. CASE ErasedStage /\ (ErasedStage' \/ RemovedStage')
      BY <3>5, StageIs, StageIsNext, ZenonT(60) DEF StageFacts, Life!Next, Life!Removed, Life!Moves
    <3>6. CASE RemovedStage /\ (RemovedStage' \/ GoneStage')
      BY <3>6, StageIs, StageIsNext, ZenonT(60) DEF StageFacts, Life!Next, Life!Destroyed, Life!Moves
    <3>7. CASE GoneStage /\ GoneStage'
      BY <3>7, StageIs, StageIsNext, ZenonT(60) DEF StageFacts
    <3> QED BY <3>1, <3>2, <3>3, <3>4, <3>5, <3>6, <3>7, ZenonT(60) DEF LifeStep
  <2>2. CASE UNCHANGED vars
    BY <2>2, ZenonT(60) DEF vars, Stage
  <2> QED BY <1>2, <2>1, <2>2, ZenonT(60)
<1> QED BY <1>1, <1>2, AlwaysLife, PTL DEF Spec, IsConnectionLife, Life!Spec
=============================================================================
