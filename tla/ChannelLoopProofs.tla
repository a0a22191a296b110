------------------------- MODULE ChannelLoopProofs -------------------------
(***************************************************************************)
(* Proofs for ChannelLoop: what EpollPoller and EventChannel keep true of  *)
(* the poller's records, for any channels and descriptors.                 *)
(***************************************************************************)
EXTENDS ChannelLoop, FiniteSetTheorems, TLAPS

\* The provers a step is tried with, and their time limits.
USE SMTT(30), ZenonT(60)

\* A poller all of whose records agree.
Consistent(p) ==
  /\ p.failed \subseteq {"removed_by_callback"}
  /\ \A c \in Channels : p.status[c] # "NEW_CHANNEL" <=> p.list[Fd[c]] = c
  /\ \A fd \in Fds : p.list[fd] # NoChannel => Fd[p.list[fd]] = fd
  /\ \A fd \in Fds : p.data[fd] # NoChannel =>
       /\ p.list[fd] = p.data[fd]
       /\ p.status[p.data[fd]] = "ADDED_CHANNEL"
       /\ p.mask[fd] = p.events[p.data[fd]]
  /\ p.ready \subseteq {fd \in Fds : p.data[fd] # NoChannel}

\* The channels with status ADDED_CHANNEL are watched, or were refused; the
\* others ask for nothing.
Watched(p) ==
  \A c \in Channels :
    IF p.status[c] = "ADDED_CHANNEL"
    THEN p.data[Fd[c]] = c \/ c \in p.refused
    ELSE p.events[c] = {}

\* OwnsFd, of any poller record.
Owns(p, c) ==
  \A d \in Channels \ {c} : Fd[d] = Fd[c] => p.status[d] = "NEW_CHANNEL"

\* What a channel call that sets the flags of c to e makes of a poller p.
Updated(p, c, e, r) ==
  /\ r \in PollerType
  /\ Consistent(r)
  /\ r.list = [p.list EXCEPT ![Fd[c]] = c]
  /\ r.events = [p.events EXCEPT ![c] = e]
  /\ \A d \in Channels \ {c} : r.status[d] = p.status[d]
  /\ r.status[c] # "NEW_CHANNEL"
  /\ r.failed = p.failed
  /\ Watched(p) => Watched(r)

USE ChannelAssumption

\* A poller record is its fields.
LEMMA PollerFields ==
  ASSUME NEW p \in PollerType
  PROVE  /\ p.events \in [Channels -> SUBSET Flags]
         /\ p.status \in [Channels -> ChannelStatus]
         /\ p.list \in [Fds -> Channels \cup {NoChannel}]
         /\ p.data \in [Fds -> Channels \cup {NoChannel}]
         /\ p.mask \in [Fds -> SUBSET Flags]
         /\ p.ready \in SUBSET Fds
         /\ p.nospc \in BOOLEAN /\ p.refused \in SUBSET Channels
         /\ p.failed \in SUBSET Asserts
BY ZenonT(60) DEF PollerType

\* The three epoll_ctl operations keep types.
LEMMA EpollCtlType ==
  ASSUME NEW p \in PollerType, NEW c \in Channels
  PROVE  /\ epoll_ctl_add(p, c) \in PollerType
         /\ epoll_ctl_mod(p, c) \in PollerType
         /\ epoll_ctl_del(p, c) \in PollerType
BY ZenonT(60) DEF PollerType, epoll_ctl_add, epoll_ctl_mod, epoll_ctl_del,
       none_event_flag, Flags

\* What EPOLL_CTL_ADD does for a descriptor that is not watched.
LEMMA EpollCtlAddFields ==
  ASSUME NEW p \in PollerType, NEW c \in Channels, p.data[Fd[c]] = NoChannel
  PROVE  LET r == epoll_ctl_add(p, c) IN
         /\ r.events = p.events /\ r.status = p.status
         /\ r.list = p.list /\ r.failed = p.failed
         /\ \/ /\ r.data = p.data /\ r.mask = p.mask /\ r.ready = p.ready
               /\ r.refused = p.refused \cup {c}
            \/ /\ r.data = [p.data EXCEPT ![Fd[c]] = c]
               /\ r.mask = [p.mask EXCEPT ![Fd[c]] = p.events[c]]
               /\ r.ready = p.ready \cup {Fd[c]}
               /\ r.refused = p.refused \ {c}
<1>1. CASE p.nospc
  BY <1>1, ZenonT(60) DEF epoll_ctl_add, PollerType
<1>2. CASE ~p.nospc
  BY <1>2, ZenonT(60) DEF epoll_ctl_add, PollerType
<1> QED
  BY <1>1, <1>2, ZenonT(60)

\* UpdateEpollCtrl is one of them.
LEMMA UpdateEpollCtrlIs ==
  ASSUME NEW p, NEW c
  PROVE  /\ UpdateEpollCtrl("EPOLL_CTL_ADD", p, c) = epoll_ctl_add(p, c)
         /\ UpdateEpollCtrl("EPOLL_CTL_MOD", p, c) = epoll_ctl_mod(p, c)
         /\ UpdateEpollCtrl("EPOLL_CTL_DEL", p, c) = epoll_ctl_del(p, c)
BY ZenonT(60) DEF UpdateEpollCtrl

\* UpdateEventChannel on a consistent poller whose channel c has just been
\* given the flags e.
LEMMA SetEventsConsistent ==
  ASSUME NEW p \in PollerType, NEW c \in Channels, NEW e \in SUBSET Flags,
         Consistent(p), Owns(p, c)
  PROVE  Updated(p, c, e, SetEvents(p, c, e))
<1> DEFINE q == [p EXCEPT !.events[c] = e]
           s == [q EXCEPT !.list[Fd[c]] = c, !.status[c] = "ADDED_CHANNEL"]
           r == SetEvents(p, c, e)
<1>q. /\ q \in PollerType
      /\ q.events = [p.events EXCEPT ![c] = e]
      /\ q.status = p.status /\ q.list = p.list /\ q.data = p.data
      /\ q.mask = p.mask /\ q.ready = p.ready /\ q.refused = p.refused
      /\ q.failed = p.failed
  BY ZenonT(60) DEF PollerType
<1>s. s \in PollerType
  BY <1>q, ZenonT(60) DEF PollerType, ChannelStatus
<1>1. CASE p.status[c] # "ADDED_CHANNEL"
  <2> DEFINE u == epoll_ctl_add(s, c)
  <2>1. p.list[Fd[c]] = IF p.status[c] = "NEW_CHANNEL" THEN NoChannel ELSE c
    BY <1>1, PollerFields DEF Consistent, Owns
  <2>2. p.data[Fd[c]] = NoChannel
    BY <1>1, <2>1, PollerFields DEF Consistent
  <2>3. r = u
    <3>1. CASE p.status[c] = "NEW_CHANNEL"
      <4>1. r = UpdateNew(q, c)
        BY <1>q, <3>1, ZenonT(60) DEF SetEvents, UpdateEventChannel
      <4>2. Expect(q, "new_not_listed", q.list[Fd[c]] = NoChannel) = q
        BY <1>q, <2>1, <3>1, ZenonT(60) DEF Expect
      <4>3. UpdateNew(q, c) = UpdateEpollCtrl("EPOLL_CTL_ADD", s, c)
        BY <4>2, ZenonT(60) DEF UpdateNew
      <4> QED
        BY <4>1, <4>3, UpdateEpollCtrlIs, ZenonT(60)
    <3>2. CASE p.status[c] = "DELETE_CHANNEL"
      <4>1. r = UpdateDeleted(q, c)
        BY <1>q, <3>2, ZenonT(60) DEF SetEvents, UpdateEventChannel
      <4>2. Expect(q, "delete_is_listed", q.list[Fd[c]] # NoChannel) = q
        BY <1>q, <2>1, <3>2 DEF Expect
      <4>3. UpdateDeleted(q, c) = UpdateEpollCtrl("EPOLL_CTL_ADD", s, c)
        BY <4>2, ZenonT(60) DEF UpdateDeleted
      <4> QED
        BY <4>1, <4>3, UpdateEpollCtrlIs, ZenonT(60)
    <3> QED
      BY <1>1, <3>1, <3>2, PollerFields, ZenonT(60) DEF ChannelStatus
  <2>4. /\ s.events = [p.events EXCEPT ![c] = e]
        /\ s.status = [p.status EXCEPT ![c] = "ADDED_CHANNEL"]
        /\ s.list = [p.list EXCEPT ![Fd[c]] = c]
        /\ s.data = p.data /\ s.mask = p.mask /\ s.ready = p.ready
        /\ s.refused = p.refused /\ s.failed = p.failed
    BY <1>q, ZenonT(60) DEF PollerType
  <2>5. u \in PollerType
    BY <1>s, EpollCtlType, ZenonT(60)
  <2> HIDE DEF q, s, r
  <2>6. /\ u.events = s.events /\ u.status = s.status
        /\ u.list = s.list /\ u.failed = s.failed
        /\ \/ /\ u.data = s.data /\ u.mask = s.mask /\ u.ready = s.ready
              /\ u.refused = s.refused \cup {c}
           \/ /\ u.data = [s.data EXCEPT ![Fd[c]] = c]
              /\ u.mask = [s.mask EXCEPT ![Fd[c]] = s.events[c]]
              /\ u.ready = s.ready \cup {Fd[c]}
              /\ u.refused = s.refused \ {c}
    BY <1>s, <2>2, <2>4, EpollCtlAddFields, ZenonT(60)
  <2> HIDE DEF u
  <2>7. Consistent(u)
    BY <1>1, <2>1, <2>2, <2>4, <2>6, PollerFields DEF Consistent, Owns
  <2>8. Watched(p) => Watched(u)
    <3> SUFFICES ASSUME Watched(p), NEW d \in Channels
                 PROVE  IF u.status[d] = "ADDED_CHANNEL"
                        THEN u.data[Fd[d]] = d \/ d \in u.refused
                        ELSE u.events[d] = {}
      BY ZenonT(60) DEF Watched
    <3>1. CASE d = c
      BY <3>1, <2>4, <2>6, PollerFields
    <3>2. CASE d # c
      BY <3>2, <2>2, <2>4, <2>6, PollerFields DEF Watched, Owns
    <3> QED
      BY <3>1, <3>2, ZenonT(60)
  <2> QED
    BY <2>3, <2>4, <2>5, <2>6, <2>7, <2>8, PollerFields DEF r, Updated
<1>2. CASE p.status[c] = "ADDED_CHANNEL"
  <2>1. p.list[Fd[c]] = c
    BY <1>2, PollerFields, ZenonT(60) DEF Consistent
  <2>2. CASE e = {}
    <3> DEFINE t == epoll_ctl_del(q, c)
               u == [t EXCEPT !.status[c] = "DELETE_CHANNEL"]
    <3>0. q.events[c] = {}
      BY <1>q, <2>2, PollerFields
    <3>1. r = u
      <4>1. r = UpdateAdded(q, c)
        BY <1>2, <1>q, ZenonT(60) DEF SetEvents, UpdateEventChannel
      <4>2. Expect(q, "added_is_listed", q.list[Fd[c]] = c) = q
        BY <1>q, <2>1, ZenonT(60) DEF Expect
      <4> QED
        BY <3>0, <4>1, <4>2, UpdateEpollCtrlIs
        DEF UpdateAdded, none_event_flag
    <3>2. t \in PollerType
      BY <1>q, EpollCtlType, ZenonT(60)
    <3>3. u \in PollerType
      BY <3>2, ZenonT(60) DEF PollerType, ChannelStatus
    <3>4. /\ u.events = q.events /\ u.list = q.list /\ u.refused = q.refused
          /\ u.failed = q.failed
          /\ u.status = [q.status EXCEPT ![c] = "DELETE_CHANNEL"]
          /\ u.data = [q.data EXCEPT ![Fd[c]] = NoChannel]
          /\ u.mask = [q.mask EXCEPT ![Fd[c]] = {}]
          /\ u.ready = q.ready \ {Fd[c]}
      BY <1>q, <3>2, ZenonT(60) DEF epoll_ctl_del, PollerType, none_event_flag
    <3> HIDE DEF u, t, s, q, r
    <3>5. Consistent(u)
      BY <1>2, <1>q, <2>1, <3>4, PollerFields DEF Consistent, Owns
    <3>6. Watched(p) => Watched(u)
      <4> SUFFICES ASSUME Watched(p), NEW d \in Channels
                   PROVE  IF u.status[d] = "ADDED_CHANNEL"
                          THEN u.data[Fd[d]] = d \/ d \in u.refused
                          ELSE u.events[d] = {}
        BY ZenonT(60) DEF Watched
      <4>1. CASE d = c
        BY <4>1, <1>2, <1>q, <2>1, <2>2, <3>4, PollerFields DEF Watched, Owns, Consistent
      <4>2. CASE d # c
        BY <4>2, <1>2, <1>q, <2>1, <2>2, <3>4, PollerFields DEF Watched, Owns, Consistent
      <4> QED
        BY <4>1, <4>2, ZenonT(60)
    <3>7. /\ u.list = [p.list EXCEPT ![Fd[c]] = c]
          /\ u.status[c] # "NEW_CHANNEL"
          /\ \A d \in Channels \ {c} : u.status[d] = p.status[d]
      BY <1>q, <2>1, <3>4, PollerFields
    <3> QED
      BY <3>1, <3>3, <3>4, <3>5, <3>6, <3>7, <1>q, ZenonT(60) DEF r, Updated
  <2>3. CASE e # {}
    <3> DEFINE u == epoll_ctl_mod(q, c)
    <3>0. q.events[c] # {}
      BY <1>q, <2>3, PollerFields
    <3>1. r = u
      <4>1. r = UpdateAdded(q, c)
        BY <1>2, <1>q, ZenonT(60) DEF SetEvents, UpdateEventChannel
      <4>2. Expect(q, "added_is_listed", q.list[Fd[c]] = c) = q
        BY <1>q, <2>1, ZenonT(60) DEF Expect
      <4> QED
        BY <3>0, <4>1, <4>2, UpdateEpollCtrlIs
        DEF UpdateAdded, none_event_flag
    <3>2. u \in PollerType
      BY <1>q, EpollCtlType, ZenonT(60)
    <3> HIDE DEF q, s
    <3>3. /\ u.events = q.events /\ u.list = q.list /\ u.refused = q.refused
          /\ u.failed = q.failed /\ u.status = q.status
      BY <1>q, ZenonT(60) DEF epoll_ctl_mod, PollerType
    <3>4. IF q.data[Fd[c]] = NoChannel
          THEN u = q
          ELSE /\ u.data = [q.data EXCEPT ![Fd[c]] = c]
               /\ u.mask = [q.mask EXCEPT ![Fd[c]] = e]
               /\ u.ready = q.ready \cup {Fd[c]}
      BY <1>q, PollerFields, ZenonT(60) DEF epoll_ctl_mod, PollerType
    <3> HIDE DEF u, r
    <3>5. Consistent(u)
      BY <1>2, <1>q, <2>1, <3>3, <3>4, PollerFields DEF Consistent, Owns
    <3>6. Watched(p) => Watched(u)
      <4> SUFFICES ASSUME Watched(p), NEW d \in Channels
                   PROVE  IF u.status[d] = "ADDED_CHANNEL"
                          THEN u.data[Fd[d]] = d \/ d \in u.refused
                          ELSE u.events[d] = {}
        BY ZenonT(60) DEF Watched
      <4>1. CASE d = c
        BY <4>1, <1>2, <1>q, <2>1, <3>3, <3>4, PollerFields DEF Watched, Owns, Consistent
      <4>2. CASE d # c
        BY <4>2, <1>2, <1>q, <2>1, <3>3, <3>4, PollerFields DEF Watched, Owns, Consistent
      <4> QED
        BY <4>1, <4>2, ZenonT(60)
    <3>7. u.list = [p.list EXCEPT ![Fd[c]] = c]
      BY <1>q, <2>1, <3>3, PollerFields
    <3> QED
      BY <3>1, <3>2, <3>3, <3>5, <3>6, <3>7, <1>q, <1>2, ZenonT(60) DEF r, Updated
  <2> QED
    BY <2>2, <2>3, ZenonT(60)
<1> QED
  BY <1>1, <1>2, ZenonT(60)

\* RemoveEventChannel of a listed channel that asks for nothing.
LEMMA RemoveConsistent ==
  ASSUME NEW p \in PollerType, NEW c \in Channels,
         Consistent(p), p.status[c] # "NEW_CHANNEL", p.events[c] = {}
  PROVE  LET r == RemoveEventChannel(p, c) IN
         /\ r \in PollerType
         /\ Consistent(r)
         /\ r.list = [p.list EXCEPT ![Fd[c]] = NoChannel]
         /\ r.failed = p.failed
         /\ Watched(p) => Watched(r)
<1> DEFINE q == [p EXCEPT !.list[Fd[c]] = NoChannel]
           t == IF p.status[c] = "ADDED_CHANNEL"
                THEN epoll_ctl_del(q, c) ELSE q
           u == [t EXCEPT !.status[c] = "NEW_CHANNEL"]
           r == RemoveEventChannel(p, c)
<1>1. p.list[Fd[c]] = c
  BY ZenonT(60) DEF Consistent
<1>2. r = u
  <2>1. /\ Expect(p, "remove_is_listed", p.list[Fd[c]] = c) = p
        /\ Expect(p, "remove_none_event", p.events[c] = none_event_flag) = p
        /\ Expect(p, "remove_status", p.status[c] # "NEW_CHANNEL") = p
    BY <1>1, ZenonT(60) DEF Expect, none_event_flag
  <2>2. UpdateEpollCtrl("EPOLL_CTL_DEL", q, c) = epoll_ctl_del(q, c)
    BY UpdateEpollCtrlIs, ZenonT(60)
  <2> DEFINE x == Expect(Expect(Expect(p, "remove_is_listed", p.list[Fd[c]] = c),
                                "remove_none_event", p.events[c] = none_event_flag),
                         "remove_status", p.status[c] # "NEW_CHANNEL")
             y == [x EXCEPT !.list[Fd[c]] = NoChannel]
             z == IF p.status[c] = "ADDED_CHANNEL"
                  THEN UpdateEpollCtrl("EPOLL_CTL_DEL", y, c) ELSE y
  <2>3. r = [z EXCEPT !.status[c] = "NEW_CHANNEL"]
    BY ZenonT(60) DEF RemoveEventChannel
  <2>4. x = p
    BY <2>1, ZenonT(60)
  <2> HIDE DEF x
  <2>5. y = q
    BY <2>4, ZenonT(60)
  <2> HIDE DEF y, q
  <2>6. z = t
    BY <2>2, <2>5, ZenonT(60)
  <2> HIDE DEF z, t, r
  <2> QED
    BY <2>3, <2>6, ZenonT(60)
<1>3. q \in PollerType
  BY ZenonT(60) DEF PollerType
<1>4. t \in PollerType
  BY <1>3, EpollCtlType, ZenonT(60)
<1>5. u \in PollerType
  BY <1>4, ZenonT(60) DEF PollerType, ChannelStatus
<1>6. /\ u.events = p.events /\ u.refused = p.refused /\ u.failed = p.failed
      /\ u.list = [p.list EXCEPT ![Fd[c]] = NoChannel]
      /\ u.status = [p.status EXCEPT ![c] = "NEW_CHANNEL"]
  BY <1>3, <1>4 DEF epoll_ctl_del, PollerType
<1>7. CASE p.status[c] = "ADDED_CHANNEL"
  <2>1. /\ u.data = [p.data EXCEPT ![Fd[c]] = NoChannel]
        /\ u.mask = [p.mask EXCEPT ![Fd[c]] = {}]
        /\ u.ready = p.ready \ {Fd[c]}
    BY <1>7, <1>3, <1>4, ZenonT(60) DEF epoll_ctl_del, PollerType, none_event_flag
  <2> HIDE DEF u, t, q, r
  <2>2. Consistent(u)
    BY <1>1, <1>6, <1>7, <2>1, PollerFields DEF Consistent
  <2>3. Watched(p) => Watched(u)
    <3> SUFFICES ASSUME Watched(p), NEW d \in Channels
                 PROVE  IF u.status[d] = "ADDED_CHANNEL"
                        THEN u.data[Fd[d]] = d \/ d \in u.refused
                        ELSE u.events[d] = {}
      BY ZenonT(60) DEF Watched
    <3>1. CASE d = c
      BY <3>1, <1>1, <1>6, <1>7, <2>1, PollerFields DEF Watched, Consistent
    <3>2. CASE d # c
      BY <3>2, <1>1, <1>6, <1>7, <2>1, PollerFields DEF Watched, Consistent
    <3> QED
      BY <3>1, <3>2, ZenonT(60)
  <2> QED
    BY <1>2, <1>5, <1>6, <2>2, <2>3, ZenonT(60) DEF r
<1>8. CASE p.status[c] = "DELETE_CHANNEL"
  <2>1. u.data = p.data /\ u.mask = p.mask /\ u.ready = p.ready
    BY <1>8, <1>3, <1>4, ZenonT(60) DEF PollerType
  <2> HIDE DEF u, t, q, r
  <2>2. p.data[Fd[c]] = NoChannel
    BY <1>1, <1>8, PollerFields, ZenonT(60) DEF Consistent
  <2>3. Consistent(u)
    BY <1>1, <1>6, <1>8, <2>1, <2>2, PollerFields DEF Consistent
  <2>4. Watched(p) => Watched(u)
    <3> SUFFICES ASSUME Watched(p), NEW d \in Channels
                 PROVE  IF u.status[d] = "ADDED_CHANNEL"
                        THEN u.data[Fd[d]] = d \/ d \in u.refused
                        ELSE u.events[d] = {}
      BY ZenonT(60) DEF Watched
    <3>1. CASE d = c
      BY <3>1, <1>1, <1>6, <1>8, <2>1, <2>2, PollerFields DEF Watched, Consistent
    <3>2. CASE d # c
      BY <3>2, <1>1, <1>6, <1>8, <2>1, <2>2, PollerFields DEF Watched, Consistent
    <3> QED
      BY <3>1, <3>2, ZenonT(60)
  <2> QED
    BY <1>2, <1>5, <1>6, <2>3, <2>4, <2>1, ZenonT(60) DEF r
<1> QED
  BY <1>7, <1>8, PollerFields, ZenonT(60) DEF ChannelStatus

-----------------------------------------------------------------------------
\* The inductive invariant.  PendingIsListed needs to know that a callback
\* runs for the entry after the ones that are done, whose channel is the
\* active one, and that no channel is in the list twice; the assertion of RemoveEventChannel needs to know
\* that outside of HandleEventContext there is no active channel, or (first
\* Loop() still to come, evt_channel_active_ uninitialized) no list.
LoopConsistent ==
  /\ phase = "callback" =>
       /\ done < Len(evt_channel_list_)
       /\ evt_channel_active_ = evt_channel_list_[done + 1]
  /\ \A i, j \in 1..Len(evt_channel_list_) :
       i # j => evt_channel_list_[i] # evt_channel_list_[j]
  /\ phase \in {"idle", "task"} =>
       evt_channel_active_ = NoChannel \/ evt_channel_list_ = <<>>

IInv ==
  /\ TypeOK
  /\ Consistent(poller)
  /\ Watched(poller)
  /\ LoopConsistent
  /\ PendingIsListed
  /\ ReadyIsBounded

USE LoopAssumption

\* A loop without channels satisfies the inductive invariant.
LEMMA InitIInv == Init => IInv
<1> SUFFICES ASSUME Init PROVE IInv
  OBVIOUS
<1>1. NewPoller \in PollerType
  BY ZenonT(60) DEF NewPoller, PollerType, none_event_flag, ChannelStatus
<1>2. Consistent(NewPoller) /\ Watched(NewPoller)
  BY ZenonT(60) DEF NewPoller, Consistent, Watched, none_event_flag
<1>3. TypeOK
  BY <1>1 DEF Init, TypeOK, Phases
<1>4. LoopConsistent /\ PendingIsListed /\ ReadyIsBounded
  BY DEF Init, LoopConsistent, PendingIsListed, StillToCome, ReadyIsBounded
<1> QED
  BY <1>2, <1>3, <1>4, ZenonT(60) DEF Init, IInv

\* A channel call changes the poller only, and keeps the other entries of
\* evt_channel_list_ listed.
LEMMA CallIInv ==
  ASSUME IInv, NEW c \in Channels, NEW e \in SUBSET Flags,
         UpdateChannel(c, SetEvents(poller, c, e))
  PROVE  IInv'
<1>1. /\ poller \in PollerType /\ Consistent(poller)
      /\ poller' = SetEvents(poller, c, e)
      /\ Owns(poller, c)
      /\ UNCHANGED loopVars
  BY ZenonT(60) DEF IInv, TypeOK, UpdateChannel, OwnsFd, Owns
<1>2. /\ poller' \in PollerType
      /\ Consistent(poller')
      /\ poller'.list = [poller.list EXCEPT ![Fd[c]] = c]
      /\ poller'.failed = poller.failed
      /\ Watched(poller) => Watched(poller')
  <2>1. Updated(poller, c, e, SetEvents(poller, c, e))
    BY <1>1, SetEventsConsistent, ZenonT(60)
  <2> QED
    BY <1>1, <2>1, ZenonT(60) DEF Updated
<1>3. TypeOK' /\ LoopConsistent' /\ ReadyIsBounded'
  BY <1>1, <1>2, ZenonT(60) DEF IInv, TypeOK, LoopConsistent, ReadyIsBounded, loopVars
<1>4. PendingIsListed'
  <2> SUFFICES ASSUME "removed_by_callback" \notin poller.failed,
                      NEW i \in StillToCome
               PROVE  poller'.list[Fd[evt_channel_list_[i]]]
                        = evt_channel_list_[i]
    BY <1>1, <1>2, ZenonT(60) DEF PendingIsListed, StillToCome, loopVars
  <2> DEFINE d == evt_channel_list_[i]
  <2>1. d \in Channels
    BY DEF StillToCome, IInv, TypeOK
  <2>2. poller.list[Fd[d]] = d
    BY ZenonT(60) DEF IInv, PendingIsListed
  <2>3. poller.status[d] # "NEW_CHANNEL"
    BY <2>1, <2>2, ZenonT(60) DEF IInv, Consistent
  <2>4. d = c \/ Fd[d] # Fd[c]
    BY <1>1, <2>1, <2>3, ZenonT(60) DEF Owns
  <2> QED
    BY <1>1, <1>2, <2>1, <2>2, <2>4, PollerFields, ZenonT(60)
<1> QED
  BY <1>2, <1>3, <1>4, ZenonT(60) DEF IInv

\* Removal of a listed channel by user code.  The assertion can fail in a
\* callback only; when it holds there, the channel is not among the entries
\* still to come.
LEMMA RemoveIInv ==
  ASSUME IInv, NEW c \in Channels, NEW p \in PollerType,
         Consistent(p), p.status[c] # "NEW_CHANNEL", p.events[c] = {},
         \/ "removed_by_callback" \in p.failed
         \/ \A i \in StillToCome :
              p.list[Fd[evt_channel_list_[i]]] = evt_channel_list_[i],
         Watched(p),
         UserCode,
         poller' = RemoveFromLoop(p, c),
         UNCHANGED loopVars
  PROVE  IInv'
<1> DEFINE allowed == \/ evt_channel_active_ = NoChannel
                      \/ c = evt_channel_active_
                      \/ \A i \in 1..Len(evt_channel_list_) :
                           evt_channel_list_[i] # c
           q == IF allowed
                THEN p
                ELSE [p EXCEPT !.failed = @ \cup {"removed_by_callback"}]
<1>0. allowed \/ phase = "callback"
  BY DEF IInv, LoopConsistent, UserCode
<1>1. poller' = RemoveEventChannel(q, c)
  <2> DEFINE caller == IF phase = "callback"
                       THEN "removed_by_callback" ELSE "remove_not_pending"
  <2>1. poller' = RemoveEventChannel(Expect(p, caller, allowed), c)
    BY ZenonT(60) DEF RemoveFromLoop
  <2>2. Expect(p, caller, allowed) = q
    BY <1>0, ZenonT(60) DEF Expect
  <2> QED
    BY <2>1, <2>2, ZenonT(60)
<1>q. /\ q \in PollerType /\ Consistent(q) /\ Watched(q)
      /\ q.status = p.status /\ q.events = p.events /\ q.list = p.list
      /\ allowed => q.failed = p.failed
      /\ ~allowed => "removed_by_callback" \in q.failed
  <2>1. CASE allowed
    BY <2>1, ZenonT(60)
  <2>2. CASE ~allowed
    <3> HIDE DEF allowed
    <3>1. /\ q.status = p.status /\ q.events = p.events /\ q.list = p.list
          /\ q.data = p.data /\ q.mask = p.mask /\ q.ready = p.ready
          /\ q.refused = p.refused
          /\ q.failed = p.failed \cup {"removed_by_callback"}
          /\ q \in PollerType
      BY <2>2, ZenonT(60) DEF PollerType, Asserts
    <3> HIDE DEF q
    <3>2. Consistent(q)
      BY <3>1 DEF Consistent
    <3>3. Watched(q)
      BY <3>1, ZenonT(60) DEF Watched
    <3> QED
      BY <2>2, <3>1, <3>2, <3>3
  <2> QED
    BY <2>1, <2>2, ZenonT(60)
<1> HIDE DEF q, allowed
<1>2. /\ poller' \in PollerType
      /\ Consistent(poller')
      /\ poller'.list = [p.list EXCEPT ![Fd[c]] = NoChannel]
      /\ poller'.failed = q.failed
      /\ Watched(poller')
  <2>1. q.status[c] # "NEW_CHANNEL" /\ q.events[c] = {}
    BY <1>q, ZenonT(60)
  <2> QED
    BY <1>1, <1>q, <2>1, RemoveConsistent
<1>3. TypeOK' /\ LoopConsistent' /\ ReadyIsBounded'
  BY <1>2, ZenonT(60) DEF IInv, TypeOK, LoopConsistent, ReadyIsBounded, loopVars
<1>4. PendingIsListed'
  <2> SUFFICES ASSUME "removed_by_callback" \notin poller'.failed,
                      NEW i \in StillToCome
               PROVE  poller'.list[Fd[evt_channel_list_[i]]]
                        = evt_channel_list_[i]
    BY ZenonT(60) DEF PendingIsListed, StillToCome, loopVars
  <2> DEFINE d == evt_channel_list_[i]
  <2>0. allowed /\ "removed_by_callback" \notin p.failed
    BY <1>q, <1>2, ZenonT(60)
  <2>1. d \in Channels /\ p.list[Fd[d]] = d
    BY <2>0 DEF StillToCome, IInv, TypeOK
  <2>2. phase = "callback" /\ i > done + 1
    BY ZenonT(60) DEF StillToCome, UserCode
  <2>3. d # c
    <3>1. /\ evt_channel_active_ = evt_channel_list_[done + 1]
          /\ done + 1 \in 1..Len(evt_channel_list_)
          /\ i \in 1..Len(evt_channel_list_) /\ i # done + 1
          /\ evt_channel_active_ \in Channels
      BY <2>2 DEF StillToCome, IInv, TypeOK, LoopConsistent
    <3>2. d # evt_channel_active_
      BY <3>1, ZenonT(60) DEF IInv, LoopConsistent
    <3> QED
      BY <2>0, <3>1, <3>2, ZenonT(60) DEF allowed
  <2>4. p.list[Fd[c]] = c
    BY ZenonT(60) DEF Consistent
  <2> QED
    BY <1>2, <2>1, <2>3, <2>4, PollerFields, ZenonT(60)
<1> QED
  BY <1>2, <1>3, <1>4, ZenonT(60) DEF IInv

\* Poll: what epoll_wait reports are distinct registered channels.
LEMMA PollIInv ==
  ASSUME IInv, Poll
  PROVE  IInv'
<1>1. PICK silent \in SUBSET poller.ready :
      \E got \in SUBSET (poller.ready \ silent) :
        LET rest == (poller.ready \ silent) \ got IN
        /\ \/ rest = {} /\ Cardinality(got) <= events_ready
           \/ rest # {} /\ Cardinality(got) = events_ready
        /\ \E stay \in SUBSET {fd \in got : "read" \notin poller.mask[fd]} :
             poller' = [poller EXCEPT !.ready = rest \cup stay]
        /\ \E order \in Orders(got) :
             evt_channel_list_' = [i \in 1..Cardinality(got) |->
                                     poller.data[order[i]]]
        /\ events_ready' = GrowReady(Cardinality(got))
  BY ZenonT(60) DEF Poll
<1>2. PICK got \in SUBSET poller.ready :
        /\ \E R \in SUBSET poller.ready :
             poller' = [poller EXCEPT !.ready = R]
        /\ \E order \in Orders(got) :
             evt_channel_list_' = [i \in 1..Cardinality(got) |->
                                     poller.data[order[i]]]
        /\ events_ready' = GrowReady(Cardinality(got))
  BY <1>1, ZenonT(60)
<1>3. phase' = "handle" /\ done' = 0 /\ evt_channel_active_' = NoChannel
  BY ZenonT(60) DEF Poll
<1>4. /\ poller \in PollerType /\ Consistent(poller)
      /\ events_ready \in Nat \ {0}
  BY ZenonT(60) DEF IInv, TypeOK
<1>5. got \subseteq Fds
  BY <1>4, PollerFields, ZenonT(60)
<1>6. \A fd \in got : /\ poller.data[fd] \in Channels
                      /\ Fd[poller.data[fd]] = fd
                      /\ poller.list[fd] = poller.data[fd]
  BY <1>4, <1>5, PollerFields DEF Consistent
<1>7. /\ IsFiniteSet(got) /\ Cardinality(got) \in Nat
      /\ Cardinality(got) <= Cardinality(Fds)
      /\ Cardinality(Fds) \in Nat
  BY <1>5, FS_Subset, FS_CardinalityType, ZenonT(60)
<1>8. PICK order \in Orders(got) :
        evt_channel_list_' = [i \in 1..Cardinality(got) |->
                                poller.data[order[i]]]
  BY <1>2, ZenonT(60)
<1>9. /\ evt_channel_list_' \in Seq(Channels)
      /\ \A i \in 1..Len(evt_channel_list_') :
           LET d == evt_channel_list_'[i] IN poller.list[Fd[d]] = d
      /\ \A i, j \in 1..Len(evt_channel_list_') :
           i # j => evt_channel_list_'[i] # evt_channel_list_'[j]
  <2> DEFINE n == Cardinality(got)
  <2>1. /\ order \in [1..n -> got]
        /\ \A i, j \in 1..n : i # j => order[i] # order[j]
    BY <1>8, ZenonT(60) DEF Orders
  <2>2. /\ evt_channel_list_' \in [1..n -> Channels]
        /\ \A i \in 1..n : evt_channel_list_'[i] = poller.data[order[i]]
    BY <1>6, <1>8, <2>1, ZenonT(60)
  <2> HIDE DEF n
  <2>3. n \in Nat
    BY <1>7, ZenonT(60) DEF n
  <2>4. evt_channel_list_' \in Seq(Channels) /\ Len(evt_channel_list_') = n
    BY <2>2, <2>3
  <2> QED
    BY <1>6, <2>1, <2>2, <2>4
<1>10. events_ready' \in Nat \ {0} /\ ReadyIsBounded'
  BY <1>2, <1>4, <1>7 DEF GrowReady, IInv, ReadyIsBounded
<1>11. /\ poller' \in PollerType
       /\ Consistent(poller')
       /\ Watched(poller) => Watched(poller')
       /\ poller'.list = poller.list
       /\ poller'.failed = poller.failed
  BY <1>2, <1>4 DEF PollerType, Consistent, Watched
<1>12. TypeOK'
  BY <1>3, <1>9, <1>10, <1>11 DEF TypeOK, Phases
<1>13. LoopConsistent'
  BY <1>3, <1>9, ZenonT(60) DEF LoopConsistent
<1>14. PendingIsListed'
  BY <1>3, <1>6, <1>9, <1>11, ZenonT(60) DEF PendingIsListed, StillToCome
<1> QED
  BY <1>10, <1>11, <1>12, <1>13, <1>14, ZenonT(60) DEF IInv

\* Every step of the loop, a callback or a task keeps the inductive invariant.
LEMMA NextIInv == IInv /\ [Next]_vars => IInv'
<1> SUFFICES ASSUME IInv, [Next]_vars PROVE IInv'
  OBVIOUS
<1>0. /\ poller \in PollerType /\ Consistent(poller)
      /\ Watched(poller)
  BY ZenonT(60) DEF IInv, TypeOK
<1>1. CASE LoopStart
  BY <1>1, ZenonT(60) DEF LoopStart, IInv, TypeOK, Phases, LoopConsistent,
              PendingIsListed, StillToCome, ReadyIsBounded
<1>2. CASE Poll
  BY <1>2, PollIInv, ZenonT(60)
<1>3. CASE HandleEventContext
  BY <1>3 DEF HandleEventContext, IInv, TypeOK, Phases, LoopConsistent,
              PendingIsListed, StillToCome, ReadyIsBounded
<1>4. CASE HandleEventReturn
  BY <1>4 DEF HandleEventReturn, IInv, TypeOK, Phases, LoopConsistent,
              PendingIsListed, StillToCome, ReadyIsBounded
<1>5. CASE HandleEventContextReturn
  BY <1>5, ZenonT(60) DEF HandleEventContextReturn, IInv, TypeOK, Phases, LoopConsistent,
              PendingIsListed, StillToCome, ReadyIsBounded
<1>6. CASE RunTaskFuncsReturn
  BY <1>6, ZenonT(60) DEF RunTaskFuncsReturn, IInv, TypeOK, Phases, LoopConsistent,
              PendingIsListed, StillToCome, ReadyIsBounded
<1>7. ASSUME NEW c \in Channels, ChannelCall(c)
      PROVE  IInv'
  <2> DEFINE E == poller.events[c]
  <2>0. E \in SUBSET Flags
    BY <1>0, PollerFields
  <2>1. ASSUME NEW e \in SUBSET Flags,
               UpdateChannel(c, SetEvents(poller, c, e))
        PROVE  IInv'
    BY <2>1, CallIInv, ZenonT(60)
  <2>2. CASE \/ DoEnableReading(c) \/ DoDisableReading(c)
             \/ DoEnableWriting(c) \/ DoDisableWriting(c)
             \/ DoDisableAll(c)
    <3>1. \E e \in SUBSET Flags : UpdateChannel(c, SetEvents(poller, c, e))
      BY <2>0, <2>2, ZenonT(60) DEF DoEnableReading, DoDisableReading, DoEnableWriting,
        DoDisableWriting, DoDisableAll, EnableReading, DisableReading,
        EnableWriting, DisableWriting, DisableAll, Flags, none_event_flag
    <3> QED
      BY <3>1, <2>1, ZenonT(60)
  <2>3. CASE DisableAndRemove(c)
    <3> DEFINE p == SetEvents(poller, c, {})
    <3>1. Updated(poller, c, {}, p)
      BY <1>0, <2>3, SetEventsConsistent, ZenonT(60) DEF DisableAndRemove, OwnsFd, Owns
    <3>2. p \in PollerType /\ Consistent(p) /\ p.status[c] # "NEW_CHANNEL"
          /\ p.events[c] = {} /\ Watched(p)
      BY <1>0, <3>1, PollerFields DEF Updated
    <3>3. \/ "removed_by_callback" \in p.failed
          \/ \A i \in StillToCome :
               p.list[Fd[evt_channel_list_[i]]] = evt_channel_list_[i]
      <4> SUFFICES ASSUME "removed_by_callback" \notin poller.failed,
                          NEW i \in StillToCome
                   PROVE  p.list[Fd[evt_channel_list_[i]]]
                            = evt_channel_list_[i]
        BY <3>1, ZenonT(60) DEF Updated
      <4> DEFINE d == evt_channel_list_[i]
      <4>1. d \in Channels /\ poller.list[Fd[d]] = d
        BY DEF StillToCome, IInv, TypeOK, PendingIsListed
      <4>2. poller.status[d] # "NEW_CHANNEL"
        BY <1>0, <4>1, ZenonT(60) DEF Consistent
      <4>3. d = c \/ Fd[d] # Fd[c]
        BY <2>3, <4>1, <4>2, ZenonT(60) DEF DisableAndRemove, OwnsFd
      <4> QED
        BY <1>0, <3>1, <4>1, <4>3, PollerFields, ZenonT(60) DEF Updated
    <3>4. UserCode /\ poller' = RemoveFromLoop(p, c) /\ UNCHANGED loopVars
      BY <2>3, ZenonT(60) DEF DisableAndRemove, DisableAll, none_event_flag
    <3> HIDE DEF p
    <3> QED
      BY <3>2, <3>3, <3>4, RemoveIInv, ZenonT(60)
  <2>4. CASE RemoveDisabled(c)
    <3>1. /\ UserCode /\ poller.status[c] # "NEW_CHANNEL"
          /\ poller.events[c] = {}
          /\ poller' = RemoveFromLoop(poller, c) /\ UNCHANGED loopVars
      BY <2>4, ZenonT(60) DEF RemoveDisabled, IsNoneEvent, none_event_flag
    <3>2. \/ "removed_by_callback" \in poller.failed
          \/ \A i \in StillToCome :
               poller.list[Fd[evt_channel_list_[i]]] = evt_channel_list_[i]
      BY ZenonT(60) DEF IInv, PendingIsListed
    <3> QED
      BY <1>0, <3>1, <3>2, RemoveIInv, ZenonT(60)
  <2> QED
    BY <1>7, <2>2, <2>3, <2>4, ZenonT(60) DEF ChannelCall
<1>8. ASSUME NEW fd \in Fds, KernelReady(fd)
      PROVE  IInv'
  <2>1. /\ poller' = [poller EXCEPT !.ready = @ \cup {fd}]
        /\ poller.data[fd] # NoChannel /\ UNCHANGED loopVars
    BY <1>8, ZenonT(60) DEF KernelReady
  <2>2. /\ poller' \in PollerType /\ Consistent(poller')
        /\ Watched(poller) => Watched(poller')
        /\ poller'.list = poller.list /\ poller'.failed = poller.failed
    BY <1>0, <2>1 DEF PollerType, Consistent, Watched
  <2> QED
    BY <2>1, <2>2, ZenonT(60) DEF IInv, TypeOK, LoopConsistent, PendingIsListed,
                      StillToCome, ReadyIsBounded, loopVars
<1>9. CASE KernelLimit
  <2>1. /\ poller' = [poller EXCEPT !.nospc = ~@]
        /\ UNCHANGED loopVars
    BY <1>9, ZenonT(60) DEF KernelLimit
  <2>2. /\ poller' \in PollerType /\ Consistent(poller')
        /\ Watched(poller')
        /\ poller'.list = poller.list /\ poller'.failed = poller.failed
    BY <1>0, <2>1, ZenonT(60) DEF PollerType, Consistent, Watched
  <2> QED
    BY <2>1, <2>2, ZenonT(60) DEF IInv, TypeOK, LoopConsistent, PendingIsListed,
                      StillToCome, ReadyIsBounded, loopVars
<1>10. CASE UNCHANGED vars
  BY <1>10, ZenonT(60) DEF vars, IInv, TypeOK, LoopConsistent, PendingIsListed,
               StillToCome, ReadyIsBounded
<1> QED
  BY <1>1, <1>2, <1>3, <1>4, <1>5, <1>6, <1>7, <1>8, <1>9, <1>10, ZenonT(60)
  DEF Next, LoopStep

\* The inductive invariant holds in every state of the loop.
LEMMA AlwaysIInv == Spec => []IInv
BY InitIInv, NextIInv, PTL DEF Spec

\* Type correctness of the loop thread and its poller.
THEOREM TypeCorrect == Spec => []TypeOK
BY AlwaysIInv, PTL DEF IInv

\* Whatever channel calls the callbacks and tasks of a loop make, in any
\* order, and whatever epoll_ctl answers: no assertion of Poller or
\* EpollPoller fails, and the one of EventLoop::RemoveEventChannel fails
\* only for a callback that removes another channel of its round.
THEOREM PollerCorrect == Spec => []AssertsHold
<1>1. IInv => AssertsHold
  BY ZenonT(60) DEF IInv, Consistent, AssertsHold
<1> QED
  BY <1>1, AlwaysIInv, PTL

\* evt_channel_list_, poller_status_ and the kernel's interest list agree.
THEOREM RecordsCorrect == Spec => []RecordsAgree
<1>1. IInv => RecordsAgree
  BY ZenonT(60) DEF IInv, Consistent, RecordsAgree, ListMatchesStatus, KernelMatchesList
<1> QED
  BY <1>1, AlwaysIInv, PTL

\* Unless the assertion of RemoveEventChannel fails in a callback,
\* HandleEventContext calls no channel that has left the poller.
THEOREM NoRemovedChannelCalled == Spec => []PendingIsListed
BY AlwaysIInv, PTL DEF IInv

\* A channel that asks for events is watched, unless epoll_ctl refused it.
THEOREM InterestWatched == Spec => []InterestIsWatched
<1>1. IInv => InterestIsWatched
  BY PollerFields, ZenonT(60)
  DEF IInv, TypeOK, Watched, InterestIsWatched, IsNoneEvent, none_event_flag
<1> QED
  BY <1>1, AlwaysIInv, PTL

\* The array handed to epoll_wait stays within twice the descriptors.
THEOREM ReadyBounded == Spec => []ReadyIsBounded
BY AlwaysIInv, PTL DEF IInv
=============================================================================
