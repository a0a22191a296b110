------------------------ MODULE TcpConnectionProofs ------------------------
(***************************************************************************)
(* The output side of a TcpConnection: write_buffer_, the write event, the  *)
(* FIN and the order of its states, for any messages, any size of the       *)
(* kernel's buffer and any calls of the application.                        *)
(***************************************************************************)
EXTENDS TcpConnection, SequenceTheorems, TLAPS

\* The provers a step is tried with, and their time limits.
USE SMTT(30), ZenonT(60)

\* ConnectEstablished is not queued.
Established(q) == \A i \in 1..Len(q) : q[i].op # "ConnectEstablished"

\* A connection is CONNECTING only while nothing but ConnectEstablished can
\* happen to it, and never again.
StartInv ==
  IF state_ = "CONNECTING"
  THEN /\ queue = <<Do("ConnectEstablished")>> /\ poller = NewPoller
       /\ write_buffer_ = <<>> /\ pc \in {"poll", "task"}
       /\ connections_ /\ server_queue = 0 /\ ~held /\ upc = "idle"
  ELSE Established(queue)

\* A closed connection asks for no write event.
WriteInv ==
  IsWriting(poller, channel_) <=>
    state_ # "DISCONNECTED" /\ write_buffer_ # <<>>

\* What is to be read was sent.
ReadInv == sock.rcv <= sock.sent

IInv ==
  TypeOK /\ ReadInv /\ StartInv /\ WriteInv /\ FinAfterData /\ StreamIntegrity

-----------------------------------------------------------------------------
(* The poller, as far as the connection's flags go.                         *)

\* The connection's channel and descriptor are the ones of the poller's instance.
LEMMA TheChannel ==
  channel_ \in Channels /\ fd_ \in Fds /\ Fd[channel_] = fd_
BY ConnectionAssumption, ZenonT(60)

\* An assertion changes nothing but the record of the failed ones.
LEMMA ExpectType ==
  ASSUME NEW p \in PollerType, NEW name \in Asserts, NEW cond
  PROVE  /\ Expect(p, name, cond) \in PollerType
         /\ Expect(p, name, cond).events = p.events
         /\ Expect(p, name, cond).list = p.list
         /\ Expect(p, name, cond).status = p.status
BY ZenonT(60) DEF Expect, PollerType

\* UpdateEpollCtrl keeps the type and the flags of every channel.
LEMMA EpollCtrlType ==
  ASSUME NEW p \in PollerType, NEW c \in Channels,
         NEW op \in {"EPOLL_CTL_ADD", "EPOLL_CTL_MOD", "EPOLL_CTL_DEL"}
  PROVE  /\ UpdateEpollCtrl(op, p, c) \in PollerType
         /\ UpdateEpollCtrl(op, p, c).events = p.events
<1> USE ChannelAssumption
<1>1. /\ epoll_ctl_add(p, c) \in PollerType
      /\ epoll_ctl_add(p, c).events = p.events
  <2>1. CASE p.nospc
    BY <2>1, ZenonT(60) DEF PollerType, epoll_ctl_add
  <2>2. CASE ~p.nospc
    BY <2>2, ZenonT(60) DEF PollerType, epoll_ctl_add
  <2> QED BY <2>1, <2>2, ZenonT(60)
<1>2. /\ epoll_ctl_mod(p, c) \in PollerType
      /\ epoll_ctl_mod(p, c).events = p.events
  BY ZenonT(60) DEF PollerType, epoll_ctl_mod
<1>3. /\ epoll_ctl_del(p, c) \in PollerType
      /\ epoll_ctl_del(p, c).events = p.events
  BY ZenonT(60) DEF PollerType, epoll_ctl_del, none_event_flag, Flags
<1> QED BY <1>1, <1>2, <1>3, ZenonT(60) DEF UpdateEpollCtrl

\* Enabling or disabling events sets one channel's flags to what was asked for.
LEMMA SetEventsType ==
  ASSUME NEW p \in PollerType, NEW c \in Channels, NEW e \in SUBSET Flags
  PROVE  /\ SetEvents(p, c, e) \in PollerType
         /\ SetEvents(p, c, e).events = [p.events EXCEPT ![c] = e]
<1> USE ChannelAssumption
<1> DEFINE q == [p EXCEPT !.events[c] = e]
<1>1. /\ q \in PollerType /\ q.events = [p.events EXCEPT ![c] = e]
  BY ZenonT(60) DEF PollerType
<1> HIDE DEF q
<1>2. ASSUME NEW r \in PollerType, r.events = q.events
      PROVE  LET s == [r EXCEPT !.list[Fd[c]] = c, !.status[c] = "ADDED_CHANNEL"]
             IN  /\ UpdateEpollCtrl("EPOLL_CTL_ADD", s, c) \in PollerType
                 /\ UpdateEpollCtrl("EPOLL_CTL_ADD", s, c).events = q.events
  <2> DEFINE s == [r EXCEPT !.list[Fd[c]] = c, !.status[c] = "ADDED_CHANNEL"]
  <2>1. s \in PollerType /\ s.events = q.events
    BY <1>2, ZenonT(60) DEF PollerType, ChannelStatus
  <2> HIDE DEF s
  <2>2. /\ UpdateEpollCtrl("EPOLL_CTL_ADD", s, c) \in PollerType
        /\ UpdateEpollCtrl("EPOLL_CTL_ADD", s, c).events = q.events
    BY <2>1, EpollCtrlType, ZenonT(60)
  <2> QED BY <2>2, ZenonT(60) DEF s
<1>3. UpdateNew(q, c) \in PollerType /\ UpdateNew(q, c).events = q.events
  <2> DEFINE r == Expect(q, "new_not_listed", q.list[Fd[c]] = NoChannel)
  <2>1. r \in PollerType /\ r.events = q.events
    BY <1>1, ExpectType DEF Asserts
  <2> HIDE DEF r
  <2> QED BY <1>2, <2>1, ZenonT(60) DEF UpdateNew, r
<1>4. UpdateDeleted(q, c) \in PollerType /\ UpdateDeleted(q, c).events = q.events
  <2> DEFINE r == Expect(q, "delete_is_listed", q.list[Fd[c]] # NoChannel)
  <2>1. r \in PollerType /\ r.events = q.events
    BY <1>1, ExpectType, ZenonT(60) DEF Asserts
  <2> HIDE DEF r
  <2> QED BY <1>2, <2>1, ZenonT(60) DEF UpdateDeleted, r
<1>5. UpdateAdded(q, c) \in PollerType /\ UpdateAdded(q, c).events = q.events
  <2> DEFINE r == Expect(q, "added_is_listed", q.list[Fd[c]] = c)
             u == UpdateEpollCtrl("EPOLL_CTL_DEL", r, c)
             w == [u EXCEPT !.status[c] = "DELETE_CHANNEL"]
             m == UpdateEpollCtrl("EPOLL_CTL_MOD", r, c)
  <2>1. r \in PollerType /\ r.events = q.events
    BY <1>1, ExpectType, ZenonT(60) DEF Asserts
  <2>0. UpdateAdded(q, c) = IF q.events[c] = none_event_flag THEN w ELSE m
    BY ZenonT(60) DEF UpdateAdded
  <2> HIDE DEF r
  <2>2. u \in PollerType /\ u.events = q.events
        /\ m \in PollerType /\ m.events = q.events
    BY <2>1, EpollCtrlType, ZenonT(60)
  <2> HIDE DEF u, m
  <2>3. w \in PollerType /\ w.events = q.events
    BY <2>2, ZenonT(60) DEF PollerType, ChannelStatus
  <2> HIDE DEF w
  <2> QED BY <2>0, <2>2, <2>3, ZenonT(60)
<1>6. q.status[c] \in ChannelStatus
  BY <1>1, ZenonT(60) DEF PollerType
<1> QED BY <1>1, <1>3, <1>4, <1>5, <1>6, ZenonT(60)
        DEF SetEvents, UpdateEventChannel, ChannelStatus, q

\* RemoveEventChannel keeps the type and the flags of every channel.
LEMMA RemoveType ==
  ASSUME NEW p \in PollerType, NEW c \in Channels
  PROVE  /\ RemoveEventChannel(p, c) \in PollerType
         /\ RemoveEventChannel(p, c).events = p.events
<1> USE ChannelAssumption
<1> DEFINE q1 == Expect(p, "remove_is_listed", p.list[Fd[c]] = c)
           q2 == Expect(q1, "remove_none_event", p.events[c] = none_event_flag)
           q3 == Expect(q2, "remove_status", p.status[c] # "NEW_CHANNEL")
           q4 == [q3 EXCEPT !.list[Fd[c]] = NoChannel]
           q5 == IF p.status[c] = "ADDED_CHANNEL"
                 THEN UpdateEpollCtrl("EPOLL_CTL_DEL", q4, c) ELSE q4
           q6 == [q5 EXCEPT !.status[c] = "NEW_CHANNEL"]
<1>0. RemoveEventChannel(p, c) = q6
  BY ZenonT(60) DEF RemoveEventChannel
<1>1. q1 \in PollerType /\ q1.events = p.events
  BY ExpectType, ZenonT(60) DEF Asserts
<1> HIDE DEF q1
<1>2. q2 \in PollerType /\ q2.events = p.events
  BY <1>1, ExpectType, ZenonT(60) DEF Asserts
<1> HIDE DEF q2
<1>3. q3 \in PollerType /\ q3.events = p.events
  BY <1>2, ExpectType, ZenonT(60) DEF Asserts
<1> HIDE DEF q3
<1>4. q4 \in PollerType /\ q4.events = p.events
  BY <1>3, ZenonT(60) DEF PollerType
<1> HIDE DEF q4
<1>5. q5 \in PollerType /\ q5.events = p.events
  BY <1>4, EpollCtrlType, ZenonT(60)
<1> HIDE DEF q5
<1>6. q6 \in PollerType /\ q6.events = p.events
  BY <1>5, ZenonT(60) DEF PollerType, ChannelStatus
<1> QED BY <1>0, <1>6, ZenonT(60)

\* What the calls on the connection's channel make of its flags.
LEMMA ChannelCalls ==
  ASSUME NEW p \in PollerType
  PROVE  /\ EnableReading(p, channel_) \in PollerType
         /\ DisableReading(p, channel_) \in PollerType
         /\ EnableWriting(p, channel_) \in PollerType
         /\ DisableWriting(p, channel_) \in PollerType
         /\ DisableAll(p, channel_) \in PollerType
         /\ RemoveEventChannel(p, channel_) \in PollerType
         /\ CloseFd(p, fd_) \in PollerType
         /\ IsWriting(EnableReading(p, channel_), channel_) = IsWriting(p, channel_)
         /\ IsWriting(DisableReading(p, channel_), channel_) = IsWriting(p, channel_)
         /\ IsWriting(EnableWriting(p, channel_), channel_)
         /\ ~IsWriting(DisableWriting(p, channel_), channel_)
         /\ ~IsWriting(DisableAll(p, channel_), channel_)
         /\ IsWriting(RemoveEventChannel(p, channel_), channel_)
              = IsWriting(p, channel_)
         /\ IsWriting(CloseFd(p, fd_), channel_) = IsWriting(p, channel_)
<1> DEFINE c == channel_
<1>1. c \in Channels /\ p.events[c] \in SUBSET Flags
      /\ p.events \in [Channels -> SUBSET Flags]
  BY TheChannel, ZenonT(60) DEF PollerType
<1>2. \A e \in SUBSET Flags : /\ SetEvents(p, c, e) \in PollerType
                              /\ SetEvents(p, c, e).events[c] = e
  <2> HIDE DEF c
  <2> TAKE e \in SUBSET Flags
  <2>1. /\ SetEvents(p, c, e) \in PollerType
        /\ SetEvents(p, c, e).events = [p.events EXCEPT ![c] = e]
    BY <1>1, SetEventsType, ZenonT(60)
  <2> QED BY <1>1, <2>1, ZenonT(60)
<1>3. CloseFd(p, fd_) \in PollerType /\ CloseFd(p, fd_).events = p.events
  BY TheChannel, ZenonT(60) DEF CloseFd, PollerType, none_event_flag
<1>4. /\ p.events[c] \cup read_event_flag \in SUBSET Flags
      /\ p.events[c] \ read_event_flag \in SUBSET Flags
      /\ p.events[c] \cup write_event_flag \in SUBSET Flags
      /\ p.events[c] \ write_event_flag \in SUBSET Flags
      /\ none_event_flag \in SUBSET Flags
  BY <1>1, ZenonT(60) DEF Flags, none_event_flag
<1>5. /\ "write" \in p.events[c] \cup read_event_flag <=> "write" \in p.events[c]
      /\ "write" \in p.events[c] \ read_event_flag <=> "write" \in p.events[c]
      /\ "write" \in p.events[c] \cup write_event_flag
      /\ "write" \notin p.events[c] \ write_event_flag
      /\ "write" \notin none_event_flag
  BY ZenonT(60) DEF read_event_flag, write_event_flag, none_event_flag
<1> HIDE DEF c
<1> QED BY <1>1, <1>2, <1>3, <1>4, <1>5, RemoveType
        DEF EnableReading, DisableReading, EnableWriting, DisableWriting,
            DisableAll, IsWriting, c

-----------------------------------------------------------------------------
(* Queues of tasks and streams of bytes.                                    *)

\* Posting and running tasks keeps the queue typed, and free of a second
\* ConnectEstablished.
LEMMA TaskQueues ==
  ASSUME NEW q \in Seq(Task)
  PROVE  /\ \A t \in Task : /\ Append(q, t) \in Seq(Task)
                            /\ Established(q) /\ t.op # "ConnectEstablished" =>
                                 Established(Append(q, t))
         /\ q # <<>> => /\ Head(q) \in Task /\ Tail(q) \in Seq(Task)
                        /\ Established(q) => Established(Tail(q))
                        /\ Established(q) => Head(q).op # "ConnectEstablished"
<1>1. ASSUME NEW t \in Task
      PROVE  /\ Append(q, t) \in Seq(Task)
             /\ Established(q) /\ t.op # "ConnectEstablished" =>
                  Established(Append(q, t))
  BY DEF Established
<1>2. ASSUME q # <<>>
      PROVE  /\ Head(q) \in Task /\ Tail(q) \in Seq(Task)
             /\ Established(q) => Established(Tail(q))
             /\ Established(q) => Head(q).op # "ConnectEstablished"
  <2>1. /\ Head(q) \in Task /\ Tail(q) \in Seq(Task)
        /\ Len(q) \in Nat \ {0} /\ Len(Tail(q)) = Len(q) - 1
        /\ \A i \in 1..Len(Tail(q)) : Tail(q)[i] = q[i + 1]
        /\ Head(q) = q[1]
    BY <1>2
  <2> QED BY <2>1 DEF Established
<1> QED BY <1>1, <1>2, ZenonT(60)

\* The tasks that carry no data are tasks, and none is ConnectEstablished.
LEMMA NamedTasks ==
  \A name \in {"ConnectDestoryed", "StartReadInLoop", "StopReadInLoop",
               "ShutdownInLoop", "ForceCloseInLoop", "written_cb_",
               "high_water_cb_"} :
    Do(name) \in Task /\ Do(name).op # "ConnectEstablished"
BY ZenonT(60) DEF Do, Task

Identity(n) == [i \in 1..n |-> i]

\* The bytes of a Send follow on those accepted before it.
LEMMA Extend ==
  ASSUME NEW s \in Seq(Nat), accepted \in Nat, NEW n \in Nat,
         s = Identity(accepted)
  PROVE  s \o NewBytes(n) = Identity(accepted + n)
<1> DEFINE b == NewBytes(n)
           r == s \o b
<1>1. b \in Seq(Nat) /\ Len(b) = n /\ \A i \in 1..n : b[i] = accepted + i
  <2>1. b \in [1..n -> Nat]
    BY DEF NewBytes
  <2> QED BY <2>1 DEF NewBytes
<1>2. Len(s) = accepted /\ \A i \in 1..accepted : s[i] = i
  BY DEF Identity
<1> HIDE DEF b
<1>3. r \in Seq(Nat) /\ Len(r) = accepted + n
      /\ \A i \in 1..(accepted + n) :
           r[i] = IF i <= accepted THEN s[i] ELSE b[i - accepted]
  BY <1>1, <1>2
<1>4. r \in [1..(accepted + n) -> Nat]
  <2> HIDE DEF r
  <2>1. r \in [1..Len(r) -> Nat]
    BY <1>3, LenProperties, ZenonT(60)
  <2> QED BY <1>3, <2>1, ZenonT(60)
<1> HIDE DEF r
<1>5. ASSUME NEW i \in 1..(accepted + n)
      PROVE  r[i] = i
  <2>1. CASE i <= accepted
    BY <1>2, <1>3, <2>1
  <2>2. CASE ~(i <= accepted)
    <3>1. i - accepted \in 1..n
      BY <2>2
    <3>2. b[i - accepted] = accepted + (i - accepted)
      BY <1>1, <3>1, ZenonT(60)
    <3> QED BY <1>3, <2>2, <3>2
  <2> QED BY <2>1, <2>2, ZenonT(60)
<1> QED BY <1>4, <1>5, ZenonT(60) DEF Identity, r, b

\* What one write takes and what it leaves are the buffer.
LEMMA Split ==
  ASSUME NEW b \in Seq(Nat), NEW n \in 0..Len(b)
  PROVE  /\ SubSeq(b, 1, n) \in Seq(Nat) /\ SubSeq(b, n + 1, Len(b)) \in Seq(Nat)
         /\ SubSeq(b, 1, n) \o SubSeq(b, n + 1, Len(b)) = b
         /\ SubSeq(b, n + 1, Len(b)) = <<>> <=> n = Len(b)
<1> DEFINE x == SubSeq(b, 1, n)
           y == SubSeq(b, n + 1, Len(b))
<1>1. Len(b) \in Nat /\ n \in Nat /\ n <= Len(b)
  OBVIOUS
<1>2. x \in Seq(Nat) /\ Len(x) = n /\ \A i \in 1..n : x[i] = b[i]
  BY <1>1
<1>3. y \in Seq(Nat) /\ Len(y) = Len(b) - n /\ \A i \in 1..(Len(b) - n) : y[i] = b[n + i]
  BY <1>1
<1> HIDE DEF x, y
<1>4. x \o y = b
  <2>1. /\ x \o y \in Seq(Nat) /\ Len(x \o y) = Len(b)
        /\ \A i \in 1..Len(b) : (x \o y)[i] = IF i <= n THEN x[i] ELSE y[i - n]
    <3>1. /\ x \o y \in Seq(Nat) /\ Len(x \o y) = Len(x) + Len(y)
          /\ \A i \in 1..(Len(x) + Len(y)) :
               (x \o y)[i] = IF i <= Len(x) THEN x[i] ELSE y[i - Len(x)]
      BY <1>2, <1>3, ConcatProperties, ZenonT(60)
    <3>2. Len(x) + Len(y) = Len(b)
      BY <1>1, <1>2, <1>3
    <3> QED BY <1>2, <3>1, <3>2, ZenonT(60)
  <2>2. \A i \in 1..Len(b) : (x \o y)[i] = b[i]
    BY <1>1, <1>2, <1>3, <2>1
  <2> QED BY <2>1, <2>2, SeqEqual, ZenonT(60)
<1>5. y = <<>> <=> n = Len(b)
  <2>1. Len(y) = 0 <=> n = Len(b)
    BY <1>1, <1>3
  <2>2. y = <<>> <=> Len(y) = 0
    <3>1. Len(<<>>) = 0 /\ (y # <<>> => Len(y) \in Nat \ {0})
      BY <1>3, EmptySeq, ZenonT(60)
    <3> QED BY <3>1, ZenonT(60)
  <2> QED BY <2>1, <2>2, ZenonT(60)
<1> QED BY <1>2, <1>3, <1>4, <1>5, ZenonT(60) DEF x, y

\* Length and elements of a concatenation.
LEMMA Concat ==
  ASSUME NEW a \in Seq(Nat), NEW b \in Seq(Nat)
  PROVE  /\ a \o b \in Seq(Nat) /\ Len(a \o b) = Len(a) + Len(b)
         /\ \A i \in 1..(Len(a) + Len(b)) :
              (a \o b)[i] = IF i <= Len(a) THEN a[i] ELSE b[i - Len(a)]
BY ConcatProperties, ZenonT(60)

\* Concatenation is associative, the inner ones given by name.
LEMMA AssociativeParts ==
  ASSUME NEW a \in Seq(Nat), NEW b \in Seq(Nat), NEW d \in Seq(Nat),
         NEW x, x = a \o b, NEW y, y = b \o d
  PROVE  x \o d = a \o y
<1> DEFINE l == x \o d
           r == a \o y
<1>1. /\ x \in Seq(Nat) /\ Len(x) = Len(a) + Len(b)
      /\ \A i \in 1..(Len(a) + Len(b)) :
           x[i] = IF i <= Len(a) THEN a[i] ELSE b[i - Len(a)]
  BY Concat, ZenonT(60)
<1>2. /\ y \in Seq(Nat) /\ Len(y) = Len(b) + Len(d)
      /\ \A i \in 1..(Len(b) + Len(d)) :
           y[i] = IF i <= Len(b) THEN b[i] ELSE d[i - Len(b)]
  BY Concat, ZenonT(60)
<1>3. /\ l \in Seq(Nat) /\ Len(l) = Len(x) + Len(d)
      /\ \A i \in 1..(Len(x) + Len(d)) :
           l[i] = IF i <= Len(x) THEN x[i] ELSE d[i - Len(x)]
  BY <1>1, Concat, ZenonT(60)
<1>4. /\ r \in Seq(Nat) /\ Len(r) = Len(a) + Len(y)
      /\ \A i \in 1..(Len(a) + Len(y)) :
           r[i] = IF i <= Len(a) THEN a[i] ELSE y[i - Len(a)]
  BY <1>2, Concat, ZenonT(60)
<1> HIDE DEF l, r
<1>5. Len(a) \in Nat /\ Len(b) \in Nat /\ Len(d) \in Nat
  OBVIOUS
<1>6. Len(l) = Len(r) /\ \A i \in 1..Len(l) : l[i] = r[i]
  <2>1. Len(l) = Len(r) /\ Len(l) = Len(a) + Len(b) + Len(d)
    BY <1>1, <1>2, <1>3, <1>4, <1>5
  <2>2. ASSUME NEW i \in 1..Len(l) PROVE l[i] = r[i]
    <3>0. /\ i \in 1..(Len(x) + Len(d)) /\ i \in 1..(Len(a) + Len(y)) /\ i \in Nat
      BY <1>1, <1>2, <1>3, <1>5, <2>1
    <3>1. CASE i <= Len(a)
      <4>1. i <= Len(x) /\ i \in 1..(Len(a) + Len(b))
        BY <1>1, <1>5, <3>0, <3>1
      <4> QED BY <1>1, <1>3, <1>4, <3>0, <3>1, <4>1, ZenonT(60)
    <3>2. CASE i > Len(a) /\ i <= Len(a) + Len(b)
      <4>1. /\ i <= Len(x) /\ i \in 1..(Len(a) + Len(b)) /\ ~(i <= Len(a))
            /\ i - Len(a) \in 1..(Len(b) + Len(d)) /\ i - Len(a) <= Len(b)
        BY <1>1, <1>5, <3>0, <3>2
      <4>2. l[i] = b[i - Len(a)]
        BY <1>1, <1>3, <3>0, <4>1, ZenonT(60)
      <4>3. r[i] = y[i - Len(a)] /\ y[i - Len(a)] = b[i - Len(a)]
        BY <1>2, <1>4, <3>0, <4>1, ZenonT(60)
      <4> QED BY <4>2, <4>3, ZenonT(60)
    <3>3. CASE i > Len(a) + Len(b)
      <4>1. /\ ~(i <= Len(x)) /\ ~(i <= Len(a))
            /\ i - Len(a) \in 1..(Len(b) + Len(d)) /\ ~(i - Len(a) <= Len(b))
            /\ i - Len(x) = (i - Len(a)) - Len(b)
        BY <1>1, <1>5, <2>1, <3>0, <3>3
      <4>2. l[i] = d[i - Len(x)]
        BY <1>3, <3>0, <4>1, ZenonT(60)
      <4>3. r[i] = y[i - Len(a)] /\ y[i - Len(a)] = d[(i - Len(a)) - Len(b)]
        BY <1>2, <1>4, <3>0, <4>1, ZenonT(60)
      <4> QED BY <4>1, <4>2, <4>3, ZenonT(60)
    <3> QED BY <1>5, <2>1, <3>1, <3>2, <3>3
  <2> QED BY <2>1, <2>2, ZenonT(60)
<1>7. l = r
  BY <1>3, <1>4, <1>6, SeqEqual, ZenonT(60)
<1> QED BY <1>7, ZenonT(60) DEF l, r

\* Concatenation under a name that the provers leave alone.
Cat(s, t) == s \o t

\* Concatenation is associative, with Cat kept closed to the provers.
LEMMA Associative ==
  ASSUME NEW a \in Seq(Nat), NEW b \in Seq(Nat), NEW d \in Seq(Nat)
  PROVE  Cat(Cat(a, b), d) = Cat(a, Cat(b, d))
BY AssociativeParts DEF Cat

-----------------------------------------------------------------------------
(* The parts of the handlers.                                               *)

\* What ConnectionAssumption says of the sizes, in one place.
LEMMA Bounds ==
  /\ SndBuf \in Nat /\ MaxCalls \in Nat /\ MaxChunks \in Nat
  /\ highWaterMark_ \in Nat /\ MaxQueue \in Nat /\ MsgSizes \subseteq Nat \ {0}
BY ConnectionAssumption, ZenonT(60)

\* An update of one field of the socket keeps its type and its other fields.
LEMMA Sockets ==
  ASSUME NEW s \in Socket
  PROVE  /\ [s EXCEPT !.err = FALSE] \in Socket
         /\ [s EXCEPT !.err = FALSE].fin = s.fin
         /\ [s EXCEPT !.err = FALSE].rcv = s.rcv
         /\ [s EXCEPT !.err = FALSE].sent = s.sent
         /\ [s EXCEPT !.fin = TRUE] \in Socket
         /\ [s EXCEPT !.fin = TRUE].rcv = s.rcv
         /\ [s EXCEPT !.fin = TRUE].sent = s.sent
         /\ \A n \in 0..(SndBuf - s.snd) :
              /\ [s EXCEPT !.snd = @ + n] \in Socket
              /\ [s EXCEPT !.snd = @ + n].fin = s.fin
              /\ [s EXCEPT !.snd = @ + n].rcv = s.rcv
              /\ [s EXCEPT !.snd = @ + n].sent = s.sent
<1>1. \A n \in 0..(SndBuf - s.snd) : s.snd + n \in 0..SndBuf
  BY Bounds DEF Socket
<1> QED BY <1>1, ZenonT(60) DEF Socket

\* A write takes no more than it is given and no more than there is room for.
LEMMA WritableBytes ==
  ASSUME NEW b \in Seq(Nat), sock \in Socket
  PROVE  Writable(b) \in 0..Len(b) /\ Writable(b) \in 0..(SndBuf - sock.snd)
<1>1. sock.snd \in Nat /\ sock.snd <= SndBuf /\ SndBuf \in Nat /\ Len(b) \in Nat
  BY Bounds DEF Socket
<1> QED BY <1>1 DEF Writable

\* CloseHandler leaves the connection DISCONNECTED with no write event asked for.
LEMMA CloseHandlerDoes ==
  ASSUME TypeOK, NEW q \in Seq(Task), Established(q), CloseHandler(q)
  PROVE  /\ state_' = "DISCONNECTED"
         /\ poller' \in PollerType /\ ~IsWriting(poller', channel_)
         /\ queue' \in Seq(Task) /\ Established(queue')
         /\ server_queue' \in Nat /\ connections_' \in BOOLEAN /\ closes' \in 0..2
<1>1. state_' = "DISCONNECTED" /\ poller' = DisableAll(poller, channel_)
      /\ RemoveConnection(q)
  BY ZenonT(60) DEF CloseHandler
<1>2. poller' \in PollerType /\ ~IsWriting(poller', channel_)
  BY <1>1, ChannelCalls, ZenonT(60) DEF TypeOK
<1>3. closes' \in 0..2
  BY <1>1 DEF RemoveConnection, TypeOK
<1>4. queue' \in Seq(Task) /\ Established(queue')
  BY <1>1, TaskQueues, NamedTasks, ZenonT(60) DEF RemoveConnection, RemoveConnectionInLoop
<1>5. server_queue' \in Nat
  BY <1>1 DEF RemoveConnection, TypeOK
<1>6. connections_' \in BOOLEAN
  BY <1>1, ZenonT(60) DEF RemoveConnection, RemoveConnectionInLoop, TypeOK
<1> QED BY <1>1, <1>2, <1>3, <1>4, <1>5, <1>6, ZenonT(60)

\* The output side after a step.
OutputOK ==
  /\ state_ \in ConnState \ {"CONNECTING"}
  /\ poller \in PollerType /\ write_buffer_ \in Seq(Nat)
  /\ queue \in Seq(Task) /\ Established(queue)
  /\ server_queue \in Nat /\ connections_ \in BOOLEAN /\ closes \in 0..2
  /\ sock \in Socket /\ ReadInv
  /\ accepted \in Nat /\ wire \in Seq(Nat)
  /\ WriteInv /\ FinAfterData /\ StreamIntegrity

\* A Send of n bytes accepts n bytes.
LEMMA NewBytesAre ==
  ASSUME NEW n \in Nat, accepted \in Nat
  PROVE  NewBytes(n) \in Seq(Nat) /\ Len(NewBytes(n)) = n
<1>1. NewBytes(n) \in [1..n -> Nat]
  BY DEF NewBytes
<1> QED BY <1>1 DEF NewBytes

\* The rest of a message goes behind write_buffer_.
LEMMA BufferRemainingDoes ==
  ASSUME TypeOK, state_ \in ConnState \ {"CONNECTING", "DISCONNECTED"},
         NEW b \in Seq(Nat), b # <<>>, NEW q \in Seq(Task), Established(q),
         BufferRemaining(b, q)
  PROVE  /\ state_' = state_ /\ poller' \in PollerType
         /\ write_buffer_' = write_buffer_ \o b /\ write_buffer_' \in Seq(Nat)
         /\ WriteInv'
         /\ queue' \in Seq(Task) /\ Established(queue')
         /\ UNCHANGED <<server_queue, connections_, closes>>
<1>1. /\ poller' \in PollerType /\ IsWriting(poller', channel_)
  BY ChannelCalls, ZenonT(60) DEF BufferRemaining, TypeOK
<1>2. write_buffer_' \in Seq(Nat) /\ write_buffer_' # <<>>
  <2>1. /\ write_buffer_' = write_buffer_ \o b /\ write_buffer_ \in Seq(Nat)
    BY ZenonT(60) DEF BufferRemaining, TypeOK
  <2>2. Len(b) \in Nat \ {0} /\ Len(write_buffer_) \in Nat
    BY <2>1, EmptySeq
  <2>3. write_buffer_' \in Seq(Nat) /\ Len(write_buffer_') = Len(write_buffer_) + Len(b)
    BY <2>1, Concat, ZenonT(60)
  <2>4. Len(write_buffer_') # 0
    BY <2>2, <2>3
  <2> QED BY <2>3, <2>4, EmptySeq, ZenonT(60)
<1>3. queue' \in Seq(Task) /\ Established(queue')
  BY TaskQueues, NamedTasks, ZenonT(60) DEF BufferRemaining, NoClose
<1> QED BY <1>1, <1>2, <1>3, ZenonT(60) DEF BufferRemaining, NoClose, WriteInv

\* SendInLoop keeps the stream, the order of FIN and data, and the write event.
LEMMA SendInLoopDoes ==
  ASSUME IInv, state_ # "CONNECTING", NEW n \in MsgSizes,
         NEW q \in Seq(Task), Established(q), SendInLoop(n, q)
  PROVE  OutputOK'
<1>0. /\ TypeOK /\ ReadInv /\ WriteInv /\ FinAfterData /\ StreamIntegrity
      /\ write_buffer_ \in Seq(Nat) /\ wire \in Seq(Nat) /\ accepted \in Nat
      /\ sock \in Socket /\ poller \in PollerType
      /\ state_ \in ConnState \ {"CONNECTING"} /\ n \in Nat \ {0}
      /\ server_queue \in Nat /\ connections_ \in BOOLEAN /\ closes \in 0..2
  BY Bounds, ZenonT(60) DEF IInv, TypeOK
<1>1. CASE SendDiscarded(q)
  <2>1. queue' = q /\ UNCHANGED <<server_queue, connections_, closes, state_, poller,
                                  write_buffer_, sock, accepted, wire>>
    BY <1>1, ZenonT(60) DEF SendDiscarded, NoClose, conn
  <2> QED BY <1>0, <2>1, ZenonT(60) DEF OutputOK, ReadInv, WriteInv, FinAfterData, StreamIntegrity
<1> DEFINE b == NewBytes(n)
<1>2. b \in Seq(Nat) /\ Len(b) = n /\ b # <<>>
  <2>1. b \in Seq(Nat) /\ Len(b) = n
    BY <1>0, NewBytesAre, ZenonT(60)
  <2> HIDE DEF b
  <2> QED BY <1>0, <2>1, ZenonT(60)
<1>3. accepted + n \in Nat
  BY <1>0
<1>4. ASSUME wire \in Seq(Nat), write_buffer_ = <<>>
      PROVE  wire \o b = Identity(accepted + n)
  <2>1. wire \o <<>> = wire
    BY <1>0, ConcatEmptySeq, ZenonT(60)
  <2>2. wire = Identity(accepted)
    BY <1>0, <1>4, <2>1, ZenonT(60) DEF StreamIntegrity, Identity
  <2> QED BY <1>0, <2>2, Extend, ZenonT(60)
\* All of the message goes behind the buffer.
<1>5. ASSUME state_ # "DISCONNECTED", BufferRemaining(b, q), accepted' = accepted + n,
             UNCHANGED <<sock, wire>>, ~sock.fin
      PROVE  OutputOK'
  <2> HIDE DEF b
  <2>1. /\ state_' = state_ /\ poller' \in PollerType
        /\ write_buffer_' = write_buffer_ \o b /\ write_buffer_' \in Seq(Nat)
        /\ WriteInv'
        /\ queue' \in Seq(Task) /\ Established(queue')
        /\ UNCHANGED <<server_queue, connections_, closes>>
    BY <1>0, <1>2, <1>5, BufferRemainingDoes, ZenonT(60)
  <2>2. StreamIntegrity'
    <3>1. wire \o write_buffer_ \in Seq(Nat) /\ wire \o write_buffer_ = Identity(accepted)
      BY <1>0, Concat, ZenonT(60) DEF StreamIntegrity, Identity
    <3>2. (wire \o write_buffer_) \o b = Identity(accepted + n)
      BY <1>0, <3>1, Extend, ZenonT(60) DEF b
    <3>3. (wire \o write_buffer_) \o b = wire \o write_buffer_'
      <4> DEFINE out == wire \o write_buffer_
                 behind == write_buffer_'
      <4>1. /\ wire \in Seq(Nat) /\ write_buffer_ \in Seq(Nat) /\ b \in Seq(Nat)
            /\ out = wire \o write_buffer_ /\ behind = write_buffer_ \o b
        BY <1>0, <1>2, <2>1, ZenonT(60)
      <4> HIDE DEF out, behind
      <4>2. Cat(out, b) = Cat(wire, behind)
        <5>1. out = Cat(wire, write_buffer_) /\ behind = Cat(write_buffer_, b)
          BY <4>1, ZenonT(60) DEF Cat
        <5> QED BY <4>1, <5>1, Associative
      <4> QED BY <4>2, ZenonT(60) DEF out, behind, Cat
    <3> QED BY <1>5, <2>1, <3>2, <3>3, ZenonT(60) DEF StreamIntegrity, Identity
  <2>3. FinAfterData' /\ ReadInv'
    BY <1>0, <1>5, ZenonT(60) DEF FinAfterData, ReadInv
  <2> QED BY <1>0, <1>3, <1>5, <2>1, <2>2, <2>3, ZenonT(60) DEF OutputOK
<1>6. CASE SendWritten(n, q)
  <2> DEFINE m == Writable(b)
             x == SubSeq(b, 1, m)
             y == SubSeq(b, m + 1, Len(b))
  <2>1. /\ state_ # "DISCONNECTED" /\ ~IsWriting(poller, channel_)
        /\ write_buffer_ = <<>> /\ ~sock.fin
        /\ wire' = wire \o x /\ sock' = [sock EXCEPT !.snd = @ + m]
        /\ accepted' = accepted + n
    BY <1>6, ZenonT(60) DEF SendWritten, WritesDirectly, WriteError
  <2>2. m \in 0..n /\ m \in 0..(SndBuf - sock.snd)
    BY <1>0, <1>2, WritableBytes, ZenonT(60)
  <2>3. IF m < n THEN BufferRemaining(y, q)
        ELSE \E r \in {q, Append(q, Do("written_cb_"))} : NoClose(r) /\ UNCHANGED conn
    BY <1>2, <1>6, ZenonT(60) DEF SendWritten
  <2> HIDE DEF m, b
  <2>4. /\ x \in Seq(Nat) /\ y \in Seq(Nat) /\ x \o y = b
        /\ y = <<>> <=> m = n
    BY <1>2, <2>2, Split, ZenonT(60)
  <2>5. sock' \in Socket /\ ~sock'.fin /\ ReadInv'
    BY <1>0, <2>1, <2>2, Sockets, ZenonT(60) DEF ReadInv
  <2> HIDE DEF x, y
  <2>6. wire' \in Seq(Nat) /\ wire' \o y = Identity(accepted + n)
    <3>1. wire' \in Seq(Nat) /\ wire' \o y = wire \o b
      <4> DEFINE out == wire'
      <4>1. /\ wire \in Seq(Nat) /\ x \in Seq(Nat) /\ y \in Seq(Nat)
            /\ out = wire \o x /\ b = x \o y
        BY <1>0, <2>1, <2>4, ZenonT(60)
      <4> HIDE DEF out
      <4>2. Cat(out, y) = Cat(wire, b)
        <5>1. out = Cat(wire, x) /\ b = Cat(x, y)
          BY <4>1, ZenonT(60) DEF Cat
        <5> QED BY <4>1, <5>1, Associative
      <4> QED BY <4>1, <4>2, Concat, ZenonT(60) DEF out, Cat
    <3> QED BY <1>0, <1>4, <2>1, <2>4, <3>1, ZenonT(60)
  <2>7. FinAfterData'
    BY <2>5, ZenonT(60) DEF FinAfterData
  <2>8. CASE m < n
    <3>1. y # <<>>
      BY <1>0, <2>2, <2>4, <2>8
    <3>2. /\ state_' = state_ /\ poller' \in PollerType
          /\ write_buffer_' = write_buffer_ \o y /\ write_buffer_' \in Seq(Nat)
          /\ WriteInv'
          /\ queue' \in Seq(Task) /\ Established(queue')
          /\ UNCHANGED <<server_queue, connections_, closes>>
      BY <1>0, <2>1, <2>3, <2>4, <2>8, <3>1, BufferRemainingDoes, ZenonT(60)
    <3>3. write_buffer_' = y
      BY <2>1, <2>4, <3>2, ConcatEmptySeq, ZenonT(60)
    <3>4. StreamIntegrity'
      BY <2>1, <2>6, <3>3, ZenonT(60) DEF StreamIntegrity, Identity
    <3> QED BY <1>0, <1>3, <2>1, <2>5, <2>6, <2>7, <3>2, <3>4, ZenonT(60) DEF OutputOK
  <2>9. CASE ~(m < n)
    <3>1. PICK r \in {q, Append(q, Do("written_cb_"))} : NoClose(r) /\ UNCHANGED conn
      BY <2>3, <2>9, ZenonT(60)
    <3>2. queue' \in Seq(Task) /\ Established(queue')
      BY <3>1, TaskQueues, NamedTasks, ZenonT(60) DEF NoClose
    <3>3. y = <<>>
      BY <1>0, <2>2, <2>4, <2>9
    <3>4. /\ state_' = state_ /\ poller' = poller /\ write_buffer_' = <<>>
          /\ UNCHANGED <<server_queue, connections_, closes>>
      BY <2>1, <3>1, ZenonT(60) DEF NoClose, conn
    <3>5. StreamIntegrity'
      BY <2>1, <2>6, <3>3, <3>4, ZenonT(60) DEF StreamIntegrity, Identity
    <3>6. WriteInv'
      BY <2>1, <3>4, ZenonT(60) DEF WriteInv
    <3>7. write_buffer_' \in Seq(Nat)
      BY <1>0, <2>1, <3>4, ZenonT(60)
    <3> QED BY <1>0, <1>3, <2>1, <2>5, <2>6, <2>7, <3>2, <3>4, <3>5, <3>6, <3>7, ZenonT(60)
            DEF OutputOK
  <2> QED BY <2>8, <2>9, ZenonT(60)
<1>7. CASE SendRefused(n, q)
  <2>1. ~sock.fin /\ state_ # "DISCONNECTED"
    BY <1>7, ZenonT(60) DEF SendRefused, WriteError, WritesDirectly
  <2> QED BY <1>5, <1>7, <2>1, ZenonT(60) DEF SendRefused
<1>8. CASE SendFault(q)
  <2>1. CloseHandler(q) /\ sock' = [sock EXCEPT !.err = FALSE]
        /\ UNCHANGED <<write_buffer_, accepted, wire>>
    BY <1>8, ZenonT(60) DEF SendFault
  <2>2. /\ state_' = "DISCONNECTED"
        /\ poller' \in PollerType /\ ~IsWriting(poller', channel_)
        /\ queue' \in Seq(Task) /\ Established(queue')
        /\ server_queue' \in Nat /\ connections_' \in BOOLEAN /\ closes' \in 0..2
    BY <1>0, <2>1, CloseHandlerDoes, ZenonT(60)
  <2>3. sock' \in Socket /\ ReadInv'
    BY <1>0, <2>1, Sockets, ZenonT(60) DEF ReadInv
  <2>4. StreamIntegrity' /\ WriteInv' /\ FinAfterData'
    BY <1>0, <2>1, <2>2, ZenonT(60) DEF StreamIntegrity, WriteInv, FinAfterData
  <2> QED BY <1>0, <2>1, <2>2, <2>3, <2>4, ZenonT(60) DEF OutputOK, ConnState
<1>9. CASE SendBuffered(n, q)
  <2>1. state_ # "DISCONNECTED" /\ ~WritesDirectly
    BY <1>9, ZenonT(60) DEF SendBuffered
  <2>2. ~sock.fin
    BY <1>0, <2>1, ZenonT(60) DEF WritesDirectly, WriteInv, FinAfterData
  <2> QED BY <1>5, <1>9, <2>1, <2>2, ZenonT(60) DEF SendBuffered
<1> QED BY <1>1, <1>6, <1>7, <1>8, <1>9, ZenonT(60) DEF SendInLoop

\* A step that leaves the stream, the write event and the FIN alone.
LEMMA QuietStep ==
  ASSUME IInv, state_' \in ConnState \ {"CONNECTING"},
         state_' = "DISCONNECTED" <=> state_ = "DISCONNECTED",
         UNCHANGED <<write_buffer_, accepted, wire>>,
         poller' \in PollerType,
         IsWriting(poller', channel_) <=> IsWriting(poller, channel_),
         queue' \in Seq(Task), Established(queue'),
         server_queue' \in Nat, connections_' \in BOOLEAN, closes' \in 0..2,
         sock' \in Socket, ReadInv', sock'.fin = sock.fin
  PROVE  OutputOK'
<1>1. WriteInv' /\ FinAfterData' /\ StreamIntegrity'
  BY ZenonT(60) DEF IInv, WriteInv, FinAfterData, StreamIntegrity
<1>2. write_buffer_' \in Seq(Nat) /\ accepted' \in Nat /\ wire' \in Seq(Nat)
  BY ZenonT(60) DEF IInv, TypeOK
<1> QED BY <1>1, <1>2, ZenonT(60) DEF OutputOK

\* A step that closes the connection.
LEMMA ClosingStep ==
  ASSUME IInv, NEW q \in Seq(Task), Established(q), CloseHandler(q),
         UNCHANGED <<write_buffer_, accepted, wire>>,
         sock' \in Socket, ReadInv'
  PROVE  OutputOK'
<1>1. TypeOK
  BY ZenonT(60) DEF IInv
<1>2. /\ state_' = "DISCONNECTED"
      /\ poller' \in PollerType /\ ~IsWriting(poller', channel_)
      /\ queue' \in Seq(Task) /\ Established(queue')
      /\ server_queue' \in Nat /\ connections_' \in BOOLEAN /\ closes' \in 0..2
  BY <1>1, CloseHandlerDoes, ZenonT(60)
<1>3. WriteInv' /\ FinAfterData' /\ StreamIntegrity'
  BY <1>2, ZenonT(60) DEF IInv, WriteInv, FinAfterData, StreamIntegrity
<1>4. write_buffer_' \in Seq(Nat) /\ accepted' \in Nat /\ wire' \in Seq(Nat)
  BY ZenonT(60) DEF IInv, TypeOK
<1> QED BY <1>2, <1>3, <1>4, ZenonT(60) DEF OutputOK, ConnState

\* WriteHandler keeps the stream, the order of FIN and data, and the write event.
LEMMA WriteHandlerDoes ==
  ASSUME IInv, state_ # "CONNECTING", WriteHandler
  PROVE  OutputOK'
<1>0. /\ TypeOK /\ ReadInv /\ WriteInv /\ FinAfterData /\ StreamIntegrity
      /\ write_buffer_ \in Seq(Nat) /\ wire \in Seq(Nat) /\ accepted \in Nat
      /\ sock \in Socket /\ poller \in PollerType
      /\ state_ \in ConnState \ {"CONNECTING"}
      /\ queue \in Seq(Task) /\ Established(queue)
      /\ server_queue \in Nat /\ connections_ \in BOOLEAN /\ closes \in 0..2
  BY ZenonT(60) DEF IInv, TypeOK, StartInv
<1>1. /\ UNCHANGED <<state_, queue, server_queue, connections_, accepted, closes>>
  BY ZenonT(60) DEF WriteHandler, rest
<1>2. CASE ~(IsWriting(poller, channel_) /\ WriteError = "none")
  <2>1. /\ UNCHANGED <<wire, write_buffer_, poller>>
        /\ sock' = sock \/ sock' = [sock EXCEPT !.err = FALSE]
    BY <1>2, ZenonT(60) DEF WriteHandler
  <2>2. sock' \in Socket /\ ReadInv' /\ sock'.fin = sock.fin
    BY <1>0, <2>1, Sockets, ZenonT(60) DEF ReadInv
  <2> QED BY <1>0, <1>1, <2>1, <2>2, QuietStep, ZenonT(60)
<1>3. CASE IsWriting(poller, channel_) /\ WriteError = "none"
  <2> DEFINE n == Writable(write_buffer_)
             x == SubSeq(write_buffer_, 1, n)
             y == SubSeq(write_buffer_, n + 1, Len(write_buffer_))
             s == [sock EXCEPT !.snd = @ + n]
             p == DisableWriting(poller, channel_)
  <2>1. /\ wire' = wire \o x /\ write_buffer_' = y
        /\ IF y = <<>>
           THEN poller' = p /\ sock' = IF state_ = "DISCONNECTING"
                                       THEN ShutdownInLoop(p, s) ELSE s
           ELSE sock' = s /\ UNCHANGED poller
    BY <1>3, ZenonT(60) DEF WriteHandler
  <2>2. ~sock.fin /\ state_ # "DISCONNECTED"
    BY <1>0, <1>3, ZenonT(60) DEF WriteError, WriteInv
  <2>3. n \in 0..Len(write_buffer_) /\ n \in 0..(SndBuf - sock.snd)
    BY <1>0, WritableBytes, ZenonT(60)
  <2> HIDE DEF n
  <2>4. x \in Seq(Nat) /\ y \in Seq(Nat) /\ x \o y = write_buffer_
    BY <1>0, <2>3, Split, ZenonT(60)
  <2>5. s \in Socket /\ ~s.fin /\ s.rcv = sock.rcv /\ s.sent = sock.sent
    BY <1>0, <2>2, <2>3, Sockets, ZenonT(60)
  <2>6. p \in PollerType /\ ~IsWriting(p, channel_)
    BY <1>0, ChannelCalls, ZenonT(60)
  <2> HIDE DEF x, y, s, p
  <2>7. sock' \in Socket /\ ReadInv' /\ (sock'.fin => y = <<>>)
    <3>1. sock' = s \/ (y = <<>> /\ sock' = [s EXCEPT !.fin = TRUE])
      BY <2>1, ZenonT(60) DEF ShutdownInLoop
    <3>2. /\ [s EXCEPT !.fin = TRUE] \in Socket
          /\ [s EXCEPT !.fin = TRUE].rcv = s.rcv
          /\ [s EXCEPT !.fin = TRUE].sent = s.sent
      BY <2>5, Sockets, ZenonT(60)
    <3> QED BY <1>0, <2>5, <3>1, <3>2, ZenonT(60) DEF ReadInv
  <2>8. poller' \in PollerType /\ (IsWriting(poller', channel_) <=> y # <<>>)
    BY <1>0, <1>3, <2>1, <2>6, ZenonT(60)
  <2>9. WriteInv' /\ FinAfterData'
    BY <1>1, <2>1, <2>2, <2>7, <2>8, ZenonT(60) DEF WriteInv, FinAfterData
  <2>10. wire' \in Seq(Nat) /\ StreamIntegrity'
    <3> DEFINE out == wire'
               all == wire \o write_buffer_
    <3>1. out = Cat(wire, x) /\ write_buffer_ = Cat(x, y) /\ out \in Seq(Nat)
      BY <1>0, <2>1, <2>4, Concat, ZenonT(60) DEF Cat
    <3>2. all = Cat(wire, write_buffer_)
      BY ZenonT(60) DEF Cat
    <3> HIDE DEF out, all
    <3>3. Cat(out, y) = all
      BY <1>0, <2>4, <3>1, <3>2, Associative
    <3> QED BY <1>0, <1>1, <2>1, <3>1, <3>3, ZenonT(60) DEF StreamIntegrity, out, all, Cat
  <2> QED BY <1>0, <1>1, <2>1, <2>4, <2>7, <2>8, <2>9, <2>10, ZenonT(60) DEF OutputOK
<1> QED BY <1>2, <1>3, ZenonT(60)

-----------------------------------------------------------------------------
(* The steps of an open connection.                                         *)

\* What every case below starts from.
Open ==
  /\ TypeOK /\ ReadInv
  /\ write_buffer_ \in Seq(Nat) /\ sock \in Socket /\ poller \in PollerType
  /\ state_ \in ConnState \ {"CONNECTING"}
  /\ queue \in Seq(Task) /\ Established(queue)
  /\ server_queue \in Nat /\ connections_ \in BOOLEAN /\ closes \in 0..2

\* The inductive invariant, for a connection that has been established.
LEMMA OpenState ==
  ASSUME IInv, state_ # "CONNECTING"
  PROVE  Open
BY ZenonT(60) DEF IInv, TypeOK, StartInv, Open

\* Steps that change the queue of tasks and the state only.
LEMMA QueueStep ==
  ASSUME IInv, state_ # "CONNECTING",
         state_' \in ConnState \ {"CONNECTING"},
         state_' = "DISCONNECTED" <=> state_ = "DISCONNECTED",
         UNCHANGED <<poller, write_buffer_, sock, server_queue, connections_,
                     accepted, wire, closes>>,
         queue' \in Seq(Task), Established(queue')
  PROVE  OutputOK'
<1>1. Open
  BY OpenState, ZenonT(60)
<1> QED BY <1>1, QuietStep, ZenonT(60) DEF Open, ReadInv

\* Every task the loop runs keeps the output side of an established connection.
LEMMA TaskStep ==
  ASSUME IInv, state_ # "CONNECTING", RunTaskFuncs
  PROVE  OutputOK'
<1>0. Open
  BY OpenState, ZenonT(60)
<1>1. CASE NoTask
  <2>1. UNCHANGED <<state_, poller, write_buffer_, queue, server_queue,
                    connections_, sock, accepted, wire, closes>>
    BY <1>1, ZenonT(60) DEF NoTask, conn, hist
  <2> QED BY <1>0, <2>1, QueueStep, ZenonT(60) DEF Open
<1>2. ASSUME queue # <<>>
      PROVE  /\ Tail(queue) \in Seq(Task) /\ Established(Tail(queue))
             /\ Head(queue) \in Task /\ Head(queue).op # "ConnectEstablished"
  BY <1>0, <1>2, TaskQueues, ZenonT(60) DEF Open
<1>3. CASE ConnectEstablished
  BY <1>2, <1>3, ZenonT(60) DEF ConnectEstablished, Runs
<1>4. CASE ConnectDestoryed
  <2>1. /\ queue # <<>> /\ queue' = Tail(queue)
        /\ UNCHANGED <<write_buffer_, sock, server_queue, connections_, accepted,
                       wire, closes>>
    BY <1>4, ZenonT(60) DEF ConnectDestoryed, Runs, NoClose
  <2>2. queue' \in Seq(Task) /\ Established(queue')
    BY <1>2, <2>1, ZenonT(60)
  <2>3. CASE state_ # "CONNECTED"
    <3>1. state_' = state_ /\ poller' = RemoveEventChannel(poller, channel_)
      BY <1>4, <2>3, ZenonT(60) DEF ConnectDestoryed
    <3>2. /\ poller' \in PollerType
          /\ IsWriting(poller', channel_) <=> IsWriting(poller, channel_)
      BY <1>0, <3>1, ChannelCalls, ZenonT(60) DEF Open
    <3> QED BY <1>0, <2>1, <2>2, <3>1, <3>2, QuietStep, ZenonT(60) DEF Open, ReadInv
  <2>4. CASE state_ = "CONNECTED"
    <3> DEFINE p == DisableAll(poller, channel_)
    <3>1. state_' = "DISCONNECTED" /\ poller' = RemoveEventChannel(p, channel_)
      BY <1>4, <2>4, ZenonT(60) DEF ConnectDestoryed
    <3>2. p \in PollerType /\ ~IsWriting(p, channel_)
      BY <1>0, ChannelCalls, ZenonT(60) DEF Open
    <3> HIDE DEF p
    <3>3. poller' \in PollerType /\ ~IsWriting(poller', channel_)
      BY <3>1, <3>2, ChannelCalls, ZenonT(60)
    <3>4. WriteInv' /\ FinAfterData' /\ StreamIntegrity'
      BY <2>1, <3>1, <3>3, ZenonT(60) DEF IInv, WriteInv, FinAfterData, StreamIntegrity
    <3>5. accepted' \in Nat /\ wire' \in Seq(Nat)
      BY <2>1, ZenonT(60) DEF IInv, TypeOK
    <3> QED BY <1>0, <2>1, <2>2, <3>1, <3>3, <3>4, <3>5, ZenonT(60)
            DEF OutputOK, Open, ConnState, ReadInv
  <2> QED BY <2>3, <2>4, ZenonT(60)
<1>5. CASE StartReadInLoop \/ StopReadInLoop
  <2>1. /\ queue # <<>> /\ queue' = Tail(queue)
        /\ UNCHANGED <<state_, write_buffer_, sock, server_queue, connections_,
                       accepted, wire, closes>>
        /\ poller' \in {poller, EnableReading(poller, channel_),
                        DisableReading(poller, channel_)}
    BY <1>5, ZenonT(60) DEF StartReadInLoop, StopReadInLoop, Runs, NoClose
  <2>2. /\ poller' \in PollerType
        /\ IsWriting(poller', channel_) <=> IsWriting(poller, channel_)
    BY <1>0, <2>1, ChannelCalls DEF Open
  <2>3. queue' \in Seq(Task) /\ Established(queue')
    BY <1>2, <2>1, ZenonT(60)
  <2> QED BY <1>0, <2>1, <2>2, <2>3, QuietStep, ZenonT(60) DEF Open, ReadInv
<1>6. CASE RunShutdownInLoop
  <2>1. /\ queue # <<>> /\ queue' = Tail(queue)
        /\ UNCHANGED <<state_, poller, write_buffer_, server_queue, connections_,
                       accepted, wire, closes>>
        /\ sock' = ShutdownInLoop(poller, sock)
    BY <1>6, ZenonT(60) DEF RunShutdownInLoop, Runs, NoClose, conn
  <2>2. queue' \in Seq(Task) /\ Established(queue')
    BY <1>2, <2>1, ZenonT(60)
  <2>3. sock' \in Socket /\ ReadInv'
    BY <1>0, <2>1, Sockets, ZenonT(60) DEF Open, ShutdownInLoop, ReadInv
  <2>4. FinAfterData'
    <3>1. CASE IsWriting(poller, channel_)
      BY <2>1, <3>1, ZenonT(60) DEF ShutdownInLoop, IInv, FinAfterData
    <3>2. CASE ~IsWriting(poller, channel_)
      BY <2>1, <3>2, ZenonT(60) DEF IInv, WriteInv, FinAfterData
    <3> QED BY <3>1, <3>2, ZenonT(60)
  <2>5. WriteInv' /\ StreamIntegrity' /\ accepted' \in Nat /\ wire' \in Seq(Nat)
    BY <2>1, ZenonT(60) DEF IInv, WriteInv, StreamIntegrity, TypeOK
  <2> QED BY <1>0, <2>1, <2>2, <2>3, <2>4, <2>5, ZenonT(60) DEF OutputOK, Open
<1>7. CASE ForceCloseInLoop
  <2>1. /\ queue # <<>> /\ UNCHANGED <<write_buffer_, sock, accepted, wire>>
    BY <1>7, ZenonT(60) DEF ForceCloseInLoop, Runs
  <2>2. CASE CloseHandler(Tail(queue))
    BY <1>0, <1>2, <2>1, <2>2, ClosingStep, ZenonT(60) DEF Open, ReadInv
  <2>3. CASE NoClose(Tail(queue)) /\ UNCHANGED <<state_, poller>>
    BY <1>0, <1>2, <2>1, <2>3, QueueStep, ZenonT(60) DEF Open, NoClose
  <2> QED BY <1>7, <2>2, <2>3, ZenonT(60) DEF ForceCloseInLoop
<1>8. CASE RunSendInLoop
  <2>1. /\ queue # <<>> /\ Head(queue).op = "SendInLoop"
        /\ SendInLoop(Head(queue).size, Tail(queue))
    BY <1>8, ZenonT(60) DEF RunSendInLoop, Runs
  <2>2. Head(queue).size \in MsgSizes
    BY <1>2, <2>1, ZenonT(60) DEF Task
  <2> QED BY <1>2, <2>1, <2>2, SendInLoopDoes, ZenonT(60)
<1>9. CASE RunNotification
  <2>1. /\ queue # <<>> /\ queue' = Tail(queue)
        /\ UNCHANGED <<state_, poller, write_buffer_, sock, server_queue,
                       connections_, accepted, wire, closes>>
    BY <1>9, ZenonT(60) DEF RunNotification, Runs, NoClose, conn
  <2> QED BY <1>0, <1>2, <2>1, QueueStep, ZenonT(60) DEF Open
<1> QED BY <1>1, <1>3, <1>4, <1>5, <1>6, <1>7, <1>8, <1>9, ZenonT(60) DEF RunTaskFuncs

\* Changes of the ready list leave the flags alone.
LEMMA ReadyType ==
  ASSUME NEW p \in PollerType, NEW r \in SUBSET Fds
  PROVE  /\ [p EXCEPT !.ready = r] \in PollerType
         /\ IsWriting([p EXCEPT !.ready = r], channel_) <=> IsWriting(p, channel_)
BY ZenonT(60) DEF PollerType, IsWriting

\* So does every poll, read, close and error event;
LEMMA EventStep ==
  ASSUME IInv, state_ # "CONNECTING",
         \/ Poll \/ CloseEvent \/ ErrorEvent
         \/ ReadData \/ ReadUnwanted \/ ReadEof \/ ReadError \/ ReadAgain
  PROVE  OutputOK'
<1>0. Open
  BY OpenState, ZenonT(60)
<1>1. CASE Poll
  <2>1. /\ UNCHANGED <<state_, write_buffer_, queue, server_queue, connections_,
                       sock, accepted, wire, closes>>
        /\ poller' = [poller EXCEPT !.ready = {}]
           \/ poller' = [poller EXCEPT !.ready = poller.ready]
    BY <1>1, ZenonT(60) DEF Poll, hist
  <2>2. poller.ready \in SUBSET Fds
    BY <1>0, ZenonT(60) DEF Open, PollerType
  <2>3. /\ poller' \in PollerType
        /\ IsWriting(poller', channel_) <=> IsWriting(poller, channel_)
    <3>1. /\ poller \in PollerType /\ {} \in SUBSET Fds
          /\ \E r \in {{}, poller.ready} : poller' = [poller EXCEPT !.ready = r]
      BY <1>0, <2>1, ZenonT(60) DEF Open
    <3>2. PICK r \in SUBSET Fds : poller' = [poller EXCEPT !.ready = r]
      BY <2>2, <3>1, ZenonT(60)
    <3> DEFINE np == [poller EXCEPT !.ready = r]
    <3>3. np \in PollerType /\ (IsWriting(np, channel_) <=> IsWriting(poller, channel_))
      BY <3>1, ReadyType, ZenonT(60)
    <3> HIDE DEF np
    <3> QED BY <3>2, <3>3, ZenonT(60) DEF np
  <2> QED BY <1>0, <2>1, <2>3, QuietStep, ZenonT(60) DEF Open, ReadInv
<1>2. CASE CloseEvent
  <2>1. CloseHandler(queue) /\ UNCHANGED <<write_buffer_, sock, accepted, wire>>
    BY <1>2, ZenonT(60) DEF CloseEvent
  <2> QED BY <1>0, <2>1, ClosingStep, ZenonT(60) DEF Open, ReadInv
<1>3. CASE ReadEof
  <2>1. CloseHandler(queue) /\ UNCHANGED <<write_buffer_, sock, accepted, wire>>
    BY <1>3, ZenonT(60) DEF ReadEof
  <2> QED BY <1>0, <2>1, ClosingStep, ZenonT(60) DEF Open, ReadInv
<1>4. ASSUME sock.rcv > 0, sock' = [sock EXCEPT !.rcv = @ - 1]
      PROVE  sock' \in Socket /\ ReadInv' /\ sock'.fin = sock.fin
  <2>1. sock.rcv \in 0..MaxChunks /\ sock.sent \in 0..MaxChunks /\ sock.rcv <= sock.sent
        /\ MaxChunks \in Nat
    BY <1>0, Bounds, ZenonT(60) DEF Open, Socket, ReadInv
  <2>2. sock.rcv - 1 \in 0..MaxChunks /\ sock.rcv - 1 <= sock.sent
    BY <1>4, <2>1
  <2> QED BY <1>0, <1>4, <2>2, ZenonT(60) DEF Open, Socket, ReadInv
<1>5. CASE ReadUnwanted
  <2>1. /\ CloseHandler(queue) /\ UNCHANGED <<write_buffer_, accepted, wire>>
        /\ sock.rcv > 0 /\ sock' = [sock EXCEPT !.rcv = @ - 1]
    BY <1>5, ZenonT(60) DEF ReadUnwanted
  <2> QED BY <1>0, <1>4, <2>1, ClosingStep, ZenonT(60) DEF Open
<1>6. CASE ReadData
  <2>1. /\ UNCHANGED <<state_, poller, write_buffer_, queue, server_queue,
                       connections_, accepted, wire, closes>>
        /\ sock.rcv > 0 /\ sock' = [sock EXCEPT !.rcv = @ - 1]
    BY <1>6, ZenonT(60) DEF ReadData, conn, hist
  <2> QED BY <1>0, <1>4, <2>1, QuietStep, ZenonT(60) DEF Open
<1>7. CASE ErrorEvent \/ ReadError
  <2>1. /\ UNCHANGED <<state_, poller, write_buffer_, queue, server_queue,
                       connections_, accepted, wire, closes>>
        /\ sock' = [sock EXCEPT !.err = FALSE]
    BY <1>7, ZenonT(60) DEF ErrorEvent, ReadError, conn, hist
  <2>2. sock' \in Socket /\ ReadInv' /\ sock'.fin = sock.fin
    BY <1>0, <2>1, Sockets, ZenonT(60) DEF Open, ReadInv
  <2> QED BY <1>0, <2>1, <2>2, QuietStep, ZenonT(60) DEF Open
<1>8. CASE ReadAgain
  <2>1. UNCHANGED <<state_, poller, write_buffer_, queue, server_queue,
                    connections_, sock, accepted, wire, closes>>
    BY <1>8, ZenonT(60) DEF ReadAgain, conn, hist
  <2> QED BY <1>0, <2>1, QueueStep, ZenonT(60) DEF Open
<1> QED BY <1>1, <1>2, <1>3, <1>5, <1>6, <1>7, <1>8, ZenonT(60)

\* so does every call the message callback makes;
LEMMA MessageStep ==
  ASSUME IInv, state_ # "CONNECTING", MessageCallback
  PROVE  OutputOK'
<1>0. Open
  BY OpenState, ZenonT(60)
<1>1. CASE MessageReturn
  <2>1. UNCHANGED <<state_, poller, write_buffer_, queue, server_queue,
                    connections_, sock, accepted, wire, closes>>
    BY <1>1, ZenonT(60) DEF MessageReturn, conn, hist
  <2> QED BY <1>0, <2>1, QueueStep, ZenonT(60) DEF Open
<1>2. CASE \E n \in MsgSizes : MessageSend(n)
  <2>1. PICK n \in MsgSizes : SendInLoop(n, queue)
    BY <1>2, ZenonT(60) DEF MessageSend
  <2> QED BY <1>0, <2>1, SendInLoopDoes, ZenonT(60) DEF Open
<1>3. CASE MessageShutdown
  <2>1. /\ state_ = "CONNECTED" /\ state_' = "DISCONNECTING"
        /\ queue' = Append(queue, Do("ShutdownInLoop"))
        /\ UNCHANGED <<poller, write_buffer_, sock, server_queue, connections_,
                       accepted, wire, closes>>
    BY <1>3, ZenonT(60) DEF MessageShutdown, NoClose
  <2>2. queue' \in Seq(Task) /\ Established(queue')
    BY <1>0, <2>1, TaskQueues, NamedTasks, ZenonT(60) DEF Open
  <2> QED BY <2>1, <2>2, QueueStep, ZenonT(60) DEF ConnState
<1>4. CASE MessageForceClose
  <2> DEFINE t == Do("ForceCloseInLoop")
             k == IF state_ = "CONNECTED" THEN 2 ELSE 1
             f == [i \in 1..k |-> t]
  <2>1. /\ state_ \in {"CONNECTED", "DISCONNECTING"} /\ state_' = "DISCONNECTING"
        /\ queue' = queue \o f
        /\ UNCHANGED <<poller, write_buffer_, sock, server_queue, connections_,
                       accepted, wire, closes>>
    BY <1>4, ZenonT(60) DEF MessageForceClose, NoClose
  <2>2. t \in Task /\ t.op # "ConnectEstablished" /\ k \in Nat
    BY NamedTasks, ZenonT(60)
  <2> HIDE DEF t, k
  <2>3. f \in Seq(Task) /\ Len(f) = k /\ \A i \in 1..k : f[i] = t
    <3>1. f \in [1..k -> Task]
      BY <2>2, ZenonT(60)
    <3> QED BY <2>2, <3>1
  <2> HIDE DEF f
  <2>4. /\ queue' \in Seq(Task) /\ Len(queue') = Len(queue) + k
        /\ \A i \in 1..(Len(queue) + k) :
             queue'[i] = IF i <= Len(queue) THEN queue[i] ELSE f[i - Len(queue)]
    BY <1>0, <2>1, <2>3, ConcatProperties, ZenonT(60) DEF Open
  <2>5. Established(queue')
    <3>1. Len(queue) \in Nat /\ Established(queue)
      BY <1>0 DEF Open
    <3> QED BY <2>2, <2>3, <2>4, <3>1 DEF Established
  <2> QED BY <2>1, <2>4, <2>5, QueueStep, ZenonT(60) DEF ConnState
<1>5. ASSUME NEW call, NEW task \in {"StartReadInLoop", "StopReadInLoop"},
             MessageRead(call, task)
      PROVE  OutputOK'
  <2>1. /\ queue' = Append(queue, Do(task))
        /\ UNCHANGED <<state_, poller, write_buffer_, sock, server_queue,
                       connections_, accepted, wire, closes>>
    BY <1>5, ZenonT(60) DEF MessageRead, NoClose, conn
  <2>2. queue' \in Seq(Task) /\ Established(queue')
    BY <1>0, <2>1, TaskQueues, NamedTasks, ZenonT(60) DEF Open
  <2> QED BY <1>0, <2>1, <2>2, QueueStep, ZenonT(60) DEF Open
<1> QED BY <1>1, <1>2, <1>3, <1>4, <1>5, ZenonT(60) DEF MessageCallback

\* so does every step of another thread, of the server's loop and of the
\* destructor;
LEMMA ThreadStep ==
  ASSUME IInv, state_ # "CONNECTING", UserThread \/ ServerThread \/ Destroy
  PROVE  OutputOK'
<1>0. Open
  BY OpenState, ZenonT(60)
<1>1. ASSUME UserThread
      PROVE  /\ UNCHANGED <<poller, write_buffer_, sock, server_queue,
                            connections_, accepted, wire, closes>>
             /\ \/ state_' = state_
                \/ state_ = "CONNECTED" /\ state_' = "DISCONNECTING"
             /\ \/ queue' = queue
                \/ \E t \in Task : /\ t.op # "ConnectEstablished"
                                   /\ queue' = Append(queue, t)
  <2>1. ASSUME NEW n \in MsgSizes, Send(n)
        PROVE  <1>1!2
    <3> DEFINE t == [op |-> "SendInLoop", size |-> n]
    <3>1. t \in Task /\ t.op # "ConnectEstablished"
      BY ZenonT(60) DEF Task
    <3> QED BY <2>1, <3>1, ZenonT(60) DEF Send, UserCall, UserStep, hist
  <2>2. CASE StartRead
    BY <2>2, NamedTasks, ZenonT(60) DEF StartRead, UserCall, UserStep, hist
  <2>3. CASE StopRead
    BY <2>3, NamedTasks, ZenonT(60) DEF StopRead, UserCall, UserStep, hist
  <2>4. CASE Shutdown
    BY <2>4, ZenonT(60) DEF Shutdown, UserCall, UserStep, hist
  <2>5. CASE ForceClose
    BY <2>5, ZenonT(60) DEF ForceClose, UserCall, UserStep, hist
  <2>6. CASE UserContinues
    BY <2>6, NamedTasks, ZenonT(60)
       DEF UserContinues, ShutdownQueue, ForceCloseQueue, ForceCloseAgain, UserStep, hist
  <2>7. CASE UserRelease
    BY <2>7, ZenonT(60) DEF UserRelease, conn, hist
  <2> QED BY <1>1, <2>1, <2>2, <2>3, <2>4, <2>5, <2>6, <2>7, ZenonT(60) DEF UserThread
<1>2. CASE UserThread
  <2>1. queue' \in Seq(Task) /\ Established(queue')
    BY <1>0, <1>1, <1>2, TaskQueues, ZenonT(60) DEF Open
  <2>2. state_' \in ConnState \ {"CONNECTING"}
        /\ (state_' = "DISCONNECTED" <=> state_ = "DISCONNECTED")
    BY <1>0, <1>1, <1>2, ZenonT(60) DEF Open, ConnState
  <2> QED BY <1>1, <1>2, <2>1, <2>2, QueueStep, ZenonT(60)
<1>3. CASE ServerThread
  <2>1. /\ queue' = Append(queue, Do("ConnectDestoryed")) /\ connections_' = FALSE
        /\ server_queue > 0 /\ server_queue' = server_queue - 1
        /\ UNCHANGED <<state_, poller, write_buffer_, sock, accepted, wire, closes>>
    BY <1>3, ZenonT(60) DEF ServerThread, RemoveConnectionInLoop, conn, hist
  <2>2. queue' \in Seq(Task) /\ Established(queue')
    BY <1>0, <2>1, TaskQueues, NamedTasks, ZenonT(60) DEF Open
  <2>3. server_queue' \in Nat
    BY <1>0, <2>1 DEF Open
  <2> QED BY <1>0, <2>1, <2>2, <2>3, QuietStep, ZenonT(60) DEF Open, ReadInv
<1>4. CASE Destroy
  <2>1. /\ poller' = CloseFd(poller, fd_)
        /\ UNCHANGED <<state_, write_buffer_, queue, server_queue, connections_,
                       sock, accepted, wire, closes>>
    BY <1>4, ZenonT(60) DEF Destroy, hist
  <2>2. /\ poller' \in PollerType
        /\ IsWriting(poller', channel_) <=> IsWriting(poller, channel_)
    BY <1>0, <2>1, ChannelCalls, ZenonT(60) DEF Open
  <2> QED BY <1>0, <2>1, <2>2, QuietStep, ZenonT(60) DEF Open, ReadInv
<1> QED BY <1>2, <1>3, <1>4, ZenonT(60)

\* What the peer does to the socket and to the ready list.
LEMMA PeerDoes ==
  ASSUME TypeOK, ReadInv, Peer
  PROVE  /\ sock' \in Socket /\ ReadInv' /\ sock'.fin = sock.fin
         /\ poller' \in PollerType
         /\ IsWriting(poller', channel_) <=> IsWriting(poller, channel_)
         /\ poller.data[fd_] = NoChannel => poller' = poller
         /\ UNCHANGED <<state_, write_buffer_, queue, server_queue, connections_,
                        pc, recieved_events, setup, held, upc, calls, alive,
                        accepted, wire, closes>>
<1>0. sock \in Socket /\ poller \in PollerType
  BY ZenonT(60) DEF TypeOK
<1>1. /\ sock.rcv \in Nat /\ sock.sent \in Nat /\ sock.snd \in Nat
      /\ sock.rcv <= sock.sent /\ sock.sent <= MaxChunks /\ sock.snd <= SndBuf
      /\ MaxChunks \in Nat /\ SndBuf \in Nat
  BY <1>0, Bounds DEF Socket, ReadInv
<1>2. PICK s : PeerStep(s) /\ s \in Socket /\ s.rcv <= s.sent /\ s.fin = sock.fin
  <2>1. CASE PeerData
    <3> DEFINE s == [sock EXCEPT !.rcv = @ + 1, !.sent = @ + 1]
    <3>1. PeerStep(s) /\ sock.sent < MaxChunks
      BY <2>1, ZenonT(60) DEF PeerData
    <3>2. /\ sock.rcv + 1 \in 0..MaxChunks /\ sock.sent + 1 \in 0..MaxChunks
          /\ sock.rcv + 1 <= sock.sent + 1
      BY <1>1, <3>1
    <3>3. s \in Socket /\ s.rcv <= s.sent /\ s.fin = sock.fin
      BY <1>0, <3>2, ZenonT(60) DEF Socket
    <3> HIDE DEF s
    <3> QED BY <3>1, <3>3, ZenonT(60)
  <2>2. CASE PeerFin
    <3> DEFINE s == [sock EXCEPT !.rdhup = TRUE]
    <3>1. PeerStep(s)
      BY <2>2, ZenonT(60) DEF PeerFin
    <3>3. s \in Socket /\ s.rcv <= s.sent /\ s.fin = sock.fin
      BY <1>0, <1>1, ZenonT(60) DEF Socket
    <3> HIDE DEF s
    <3> QED BY <3>1, <3>3, ZenonT(60)
  <2>3. CASE PeerDrain
    <3> DEFINE s == [sock EXCEPT !.snd = @ - 1]
    <3>1. PeerStep(s) /\ sock.snd > 0
      BY <2>3, ZenonT(60) DEF PeerDrain
    <3>2. sock.snd - 1 \in 0..SndBuf
      BY <1>1, <3>1
    <3>3. s \in Socket /\ s.rcv <= s.sent /\ s.fin = sock.fin
      BY <1>0, <1>1, <3>2, ZenonT(60) DEF Socket
    <3> HIDE DEF s
    <3> QED BY <3>1, <3>3, ZenonT(60)
  <2>4. CASE PeerReset
    <3> DEFINE s == [sock EXCEPT !.rst = TRUE, !.err = TRUE, !.snd = 0]
    <3>1. PeerStep(s)
      BY <2>4, ZenonT(60) DEF PeerReset
    <3>2. 0 \in 0..SndBuf
      BY <1>1
    <3>3. s \in Socket /\ s.rcv <= s.sent /\ s.fin = sock.fin
      BY <1>0, <1>1, <3>2, ZenonT(60) DEF Socket
    <3> HIDE DEF s
    <3> QED BY <3>1, <3>3, ZenonT(60)
  <2> QED BY <2>1, <2>2, <2>3, <2>4, ZenonT(60) DEF Peer
<1>3. sock' = s /\ Edge
  BY <1>2, ZenonT(60) DEF PeerStep
<1>4. UNCHANGED <<state_, write_buffer_, queue, server_queue, connections_,
                  pc, recieved_events, setup, held, upc, calls, alive,
                  accepted, wire, closes>>
  BY <1>2, ZenonT(60) DEF PeerStep, rest, hist
<1>5. {fd_} \in SUBSET Fds
  BY TheChannel, ZenonT(60)
<1>6. /\ poller' \in PollerType
      /\ IsWriting(poller', channel_) <=> IsWriting(poller, channel_)
  <2> DEFINE np == [poller EXCEPT !.ready = {fd_}]
  <2>1. poller' = poller \/ poller' = np
    BY <1>3, ZenonT(60) DEF Edge
  <2>2. np \in PollerType /\ (IsWriting(np, channel_) <=> IsWriting(poller, channel_))
    BY <1>0, <1>5, ReadyType, ZenonT(60)
  <2> HIDE DEF np
  <2> QED BY <1>0, <2>1, <2>2, ZenonT(60)
<1> QED BY <1>2, <1>3, <1>4, <1>6, ZenonT(60) DEF Edge, ReadInv

\* and so does every step.
LEMMA OpenStep ==
  ASSUME IInv, state_ # "CONNECTING", Next
  PROVE  OutputOK'
<1>1. CASE Peer
  <2>1. Open
    BY OpenState, ZenonT(60)
  <2>2. /\ sock' \in Socket /\ ReadInv' /\ sock'.fin = sock.fin
        /\ poller' \in PollerType
        /\ IsWriting(poller', channel_) <=> IsWriting(poller, channel_)
        /\ UNCHANGED <<state_, write_buffer_, queue, server_queue, connections_,
                       accepted, wire, closes>>
    BY <1>1, <2>1, PeerDoes, ZenonT(60) DEF Open
  <2> QED BY <2>1, <2>2, QuietStep, ZenonT(60) DEF Open
<1>2. CASE LoopThread
  BY <1>2, EventStep, WriteHandlerDoes, MessageStep, TaskStep, ZenonT(60) DEF LoopThread
<1> QED BY <1>1, <1>2, ThreadStep, ZenonT(60) DEF Next

-----------------------------------------------------------------------------
(* The control state.                                                       *)

ControlOK ==
  /\ setup \in Setups
  /\ held \in BOOLEAN /\ alive \in BOOLEAN
  /\ pc \in {"poll", "close", "error", "read", "message", "write", "task"}
  /\ recieved_events \subseteq Events
  /\ upc \in {"idle", "shutdown", "force1", "force2", "force3"}
  /\ calls \in 0..MaxCalls

\* HandleEvent always finds a next callback, or goes on to the tasks.
LEMMA HandleEventType ==
  ASSUME NEW from \in {1, 2, 3, 4}, NEW evs
  PROVE  HandleEvent(from, evs) \in {"close", "error", "read", "write", "task"}
<1> DEFINE due == {i \in from..5 : Due(Handlers[i], evs)}
           first == CHOOSE i \in due : \A j \in due : i <= j
<1>1. 5 \in due /\ \A i \in due : i \in {1, 2, 3, 4, 5}
  <2>1. 5 \in from..5 /\ \A i \in from..5 : i \in {1, 2, 3, 4, 5}
    OBVIOUS
  <2>2. Due(Handlers[5], evs)
    <3>1. Handlers[5] = "task"
      BY ZenonT(60) DEF Handlers
    <3> QED BY <3>1, ZenonT(60) DEF Due
  <2> QED BY <2>1, <2>2, ZenonT(60)
<1>2. \E i \in due : \A j \in due : i <= j
  <2> HIDE DEF due
  <2>1. CASE 1 \in due
    BY <1>1, <2>1
  <2>2. CASE 1 \notin due /\ 2 \in due
    BY <1>1, <2>2
  <2>3. CASE 1 \notin due /\ 2 \notin due /\ 3 \in due
    BY <1>1, <2>3
  <2>4. CASE 1 \notin due /\ 2 \notin due /\ 3 \notin due /\ 4 \in due
    BY <1>1, <2>4
  <2>5. CASE 1 \notin due /\ 2 \notin due /\ 3 \notin due /\ 4 \notin due
    BY <1>1, <2>5
  <2> QED BY <2>1, <2>2, <2>3, <2>4, <2>5, ZenonT(60)
<1>3. first \in due
  <2> HIDE DEF due
  <2> QED BY <1>2, ZenonT(60)
<1>4. first \in {1, 2, 3, 4, 5}
  BY <1>1, <1>3, ZenonT(60)
<1>5. HandleEvent(from, evs) = Handlers[first]
  BY ZenonT(60) DEF HandleEvent
<1> HIDE DEF first
<1> QED BY <1>4, <1>5 DEF Handlers

\* Every step keeps the types of the control state.
LEMMA NextControl ==
  ASSUME TypeOK, ReadInv, Next
  PROVE  ControlOK'
<1>0. ControlOK /\ calls \in Nat /\ MaxCalls \in Nat /\ calls <= MaxCalls
  BY Bounds DEF TypeOK, ControlOK
\* Steps of the loop thread, but for the calls that msg_cb_ makes.
<1>1. ASSUME UNCHANGED <<setup, held, upc, calls, alive, recieved_events>>,
             pc' \in {"poll", "close", "error", "read", "message", "write", "task"}
      PROVE  ControlOK'
  BY <1>0, <1>1, ZenonT(60) DEF ControlOK
<1>2. CASE Poll
  <2>1. /\ UNCHANGED <<setup, held, upc, calls, alive>>
        /\ recieved_events' = {} \/ recieved_events' \subseteq SocketEvents
        /\ pc' = "task" \/ pc' = HandleEvent(1, recieved_events')
    BY <1>2, ZenonT(60) DEF Poll, rest
  <2>2. recieved_events' \subseteq Events
    BY <2>1, ZenonT(60) DEF SocketEvents
  <2>3. pc' \in {"close", "error", "read", "write", "task"}
    BY <2>1, HandleEventType, ZenonT(60)
  <2> QED BY <1>0, <2>1, <2>2, <2>3, ZenonT(60) DEF ControlOK
<1>3. CASE \/ CloseEvent \/ ErrorEvent \/ ReadData \/ ReadUnwanted
           \/ ReadEof \/ ReadError \/ ReadAgain \/ WriteHandler \/ MessageReturn
  <2>1. /\ UNCHANGED <<setup, held, upc, calls, alive, recieved_events>>
        /\ \/ pc' \in {"read", "message", "task"}
           \/ \E k \in {1, 2, 3, 4} : pc' = HandleEvent(k, recieved_events)
    BY <1>3, ZenonT(60) DEF CloseEvent, ErrorEvent, ReadData, ReadUnwanted, ReadEof, ReadError,
                ReadAgain, WriteHandler, MessageReturn, rest
  <2> QED BY <1>1, <2>1, HandleEventType, ZenonT(60)
<1>4. CASE RunTaskFuncs
  <2>1. CASE ConnectEstablished
    <3>1. /\ UNCHANGED <<setup, upc, calls, alive, recieved_events>>
          /\ pc' = "poll" /\ held' = TRUE
      BY <2>1, ZenonT(60) DEF ConnectEstablished, TaskReturn
    <3> QED BY <1>0, <3>1, ZenonT(60) DEF ControlOK
  <2>2. CASE ~ConnectEstablished
    <3>1. /\ UNCHANGED <<setup, held, upc, calls, alive, recieved_events>>
          /\ pc' = "poll"
      BY <1>4, <2>2, ZenonT(60)
         DEF RunTaskFuncs, NoTask, ConnectDestoryed, StartReadInLoop, StopReadInLoop,
             RunShutdownInLoop, ForceCloseInLoop, RunSendInLoop, RunNotification,
             TaskReturn, rest
    <3> QED BY <1>1, <3>1, ZenonT(60)
  <2> QED BY <2>1, <2>2, ZenonT(60)
<1>5. CASE MessageCallback /\ ~MessageReturn
  <2>1. /\ UNCHANGED <<setup, held, upc, alive, recieved_events, pc>>
        /\ calls' = calls \/ (calls < MaxCalls /\ calls' = calls + 1)
    BY <1>5, ZenonT(60) DEF MessageCallback, MessageSend, MessageShutdown, MessageForceClose,
                MessageRead, MessageCall
  <2>2. calls' \in 0..MaxCalls
    BY <1>0, <2>1
  <2> QED BY <1>0, <2>1, <2>2, ZenonT(60) DEF ControlOK
<1>6. CASE UserThread
  <2>1. /\ UNCHANGED <<setup, alive, recieved_events, pc>>
        /\ held' = held \/ held' = FALSE
        /\ upc' \in {upc, "idle", "shutdown", "force1", "force2", "force3"}
        /\ calls' = calls \/ (calls < MaxCalls /\ calls' = calls + 1)
    BY <1>6, ZenonT(60) DEF UserThread, Send, StartRead, StopRead, Shutdown, ForceClose,
                UserContinues, ShutdownQueue, ForceCloseQueue, ForceCloseAgain,
                UserRelease, UserCall, UserStep
  <2>2. calls' \in 0..MaxCalls
    BY <1>0, <2>1
  <2>3. held' \in BOOLEAN
    BY <1>0, <2>1, ZenonT(60) DEF ControlOK
  <2>4. upc' \in {"idle", "shutdown", "force1", "force2", "force3"}
    BY <1>0, <2>1, ZenonT(60) DEF ControlOK
  <2> QED BY <1>0, <2>1, <2>2, <2>3, <2>4, ZenonT(60) DEF ControlOK
<1>7. CASE ServerThread
  <2>1. UNCHANGED <<setup, held, upc, calls, alive, recieved_events, pc>>
    BY <1>7, ZenonT(60) DEF ServerThread, rest
  <2> QED BY <1>0, <2>1, ZenonT(60) DEF ControlOK
<1>8. CASE Destroy
  <2>1. /\ UNCHANGED <<setup, held, upc, calls, recieved_events, pc>>
        /\ alive' = FALSE
    BY <1>8, ZenonT(60) DEF Destroy
  <2> QED BY <1>0, <2>1, ZenonT(60) DEF ControlOK
<1>9. CASE Peer
  <2>1. UNCHANGED <<setup, held, upc, calls, alive, recieved_events, pc>>
    BY <1>9, PeerDoes, ZenonT(60)
  <2> QED BY <1>0, <2>1, ZenonT(60) DEF ControlOK
<1> QED BY <1>2, <1>3, <1>4, <1>5, <1>6, <1>7, <1>8, <1>9, ZenonT(60) DEF Next, LoopThread, MessageCallback

-----------------------------------------------------------------------------
(* A connection that is not established yet.                                *)

\* A poller without channels is well typed and watches nothing.
LEMMA NewPollerType ==
  /\ NewPoller \in PollerType /\ ~IsWriting(NewPoller, channel_)
  /\ NewPoller.data[fd_] = NoChannel /\ NewPoller.ready = {}
  /\ [NewPoller EXCEPT !.ready = {}] = NewPoller
<1>1. NewPoller \in PollerType
  BY ZenonT(60) DEF NewPoller, PollerType, none_event_flag, ChannelStatus
<1>2. ~IsWriting(NewPoller, channel_) /\ NewPoller.data[fd_] = NoChannel
  BY TheChannel, ZenonT(60) DEF NewPoller, IsWriting, none_event_flag
<1>3. NewPoller.ready = {}
  BY ZenonT(60) DEF NewPoller
<1>4. \A p \in PollerType : p.ready = {} => [p EXCEPT !.ready = {}] = p
  BY ZenonT(60) DEF PollerType
<1> QED BY <1>1, <1>2, <1>3, <1>4, ZenonT(60)

\* A connection just constructed satisfies the inductive invariant.
LEMMA InitIInv == Init => IInv
<1> SUFFICES ASSUME Init PROVE IInv
  OBVIOUS
<1> USE DEF Init
<1>1. queue \in Seq(Task)
  <2>1. Do("ConnectEstablished") \in Task
    BY ZenonT(60) DEF Do, Task
  <2> QED BY <2>1
<1>2. sock \in Socket
  BY Bounds DEF Socket
<1>3. TypeOK
  <2>1. setup \in Setups /\ state_ \in ConnState /\ poller \in PollerType
    BY NewPollerType, ZenonT(60) DEF ConnState
  <2>2. /\ write_buffer_ \in Seq(Nat) /\ wire \in Seq(Nat) /\ server_queue \in Nat
        /\ accepted \in Nat /\ closes \in 0..2 /\ calls \in 0..MaxCalls
    BY Bounds
  <2>3. connections_ \in BOOLEAN /\ held \in BOOLEAN /\ alive \in BOOLEAN
    BY ZenonT(60)
  <2>4. recieved_events \subseteq Events
    OBVIOUS
  <2> QED BY <1>1, <1>2, <2>1, <2>2, <2>3, <2>4, ZenonT(60) DEF TypeOK
<1>4. StreamIntegrity
  BY DEF StreamIntegrity
<1> QED BY <1>3, <1>4, NewPollerType
        DEF IInv, ReadInv, StartInv, WriteInv, FinAfterData

\* Only its first task, polls and the peer's steps are possible.
LEMMA ConnectingOnly ==
  ASSUME IInv, state_ = "CONNECTING", Next
  PROVE  Poll \/ ConnectEstablished \/ Peer
<1>1. /\ queue = <<Do("ConnectEstablished")>>
      /\ pc \in {"poll", "task"}
      /\ connections_ /\ server_queue = 0 /\ ~held /\ upc = "idle"
  BY ZenonT(60) DEF IInv, StartInv
<1>2. queue # <<>> /\ Head(queue).op = "ConnectEstablished"
  BY <1>1 DEF Do
<1>3. CASE RunTaskFuncs
  BY <1>2, <1>3, ZenonT(60) DEF RunTaskFuncs, NoTask, ConnectDestoryed, StartReadInLoop,
                    StopReadInLoop, RunShutdownInLoop, ForceCloseInLoop,
                    RunSendInLoop, RunNotification, Runs
<1>4. ~MessageCallback
  BY <1>1, ZenonT(60) DEF MessageCallback, MessageReturn, MessageSend, MessageShutdown,
              MessageForceClose, MessageRead, MessageCall
<1>5. ~UserThread
  BY <1>1, ZenonT(60) DEF UserThread, Send, StartRead, StopRead, Shutdown, ForceClose,
              UserContinues, ShutdownQueue, ForceCloseQueue, ForceCloseAgain,
              UserRelease, UserCall, UserStep
<1>6. ~ServerThread /\ ~Destroy
  BY <1>1 DEF ServerThread, Destroy
<1>7. /\ ~CloseEvent /\ ~ErrorEvent /\ ~ReadData /\ ~ReadUnwanted /\ ~ReadEof
      /\ ~ReadError /\ ~ReadAgain /\ ~WriteHandler
  BY <1>1, ZenonT(60) DEF CloseEvent, ErrorEvent, ReadData, ReadUnwanted, ReadEof, ReadError,
              ReadAgain, WriteHandler
<1> QED BY <1>3, <1>4, <1>5, <1>6, <1>7, ZenonT(60) DEF Next, LoopThread

\* Before ConnectEstablished has run there is no output: every step keeps the
\* inductive invariant.
LEMMA ConnectingStep ==
  ASSUME IInv, state_ = "CONNECTING", Next
  PROVE  IInv'
<1>0. /\ TypeOK /\ ReadInv /\ FinAfterData /\ StreamIntegrity
      /\ queue = <<Do("ConnectEstablished")>> /\ poller = NewPoller
      /\ write_buffer_ = <<>> /\ pc \in {"poll", "task"}
      /\ connections_ /\ server_queue = 0 /\ ~held /\ upc = "idle"
      /\ queue \in Seq(Task) /\ sock \in Socket /\ wire \in Seq(Nat)
      /\ accepted \in Nat /\ closes \in 0..2
  BY ZenonT(60) DEF IInv, StartInv, TypeOK
<1>1. ControlOK'
  BY <1>0, NextControl, ZenonT(60)
<1>2. Poll \/ ConnectEstablished \/ Peer
  BY ConnectingOnly, ZenonT(60)
<1>3. CASE ConnectEstablished
  <2>1. /\ state_' = "CONNECTED" /\ poller' = EnableReading(poller, channel_)
        /\ queue' = Tail(queue)
        /\ UNCHANGED <<write_buffer_, sock, server_queue, connections_, accepted,
                       wire, closes>>
    BY <1>3, ZenonT(60) DEF ConnectEstablished, NoClose
  <2>2. poller' \in PollerType /\ ~IsWriting(poller', channel_)
    BY <1>0, <2>1, ChannelCalls, NewPollerType, ZenonT(60)
  <2>3. queue' = <<>>
    BY <1>0, <2>1
  <2>4. queue' \in Seq(Task) /\ Established(queue')
    BY <2>3 DEF Established
  <2>5. connections_' \in BOOLEAN
    BY <2>1, ZenonT(60) DEF IInv, TypeOK
  <2>6. TypeOK'
    BY <1>0, <1>1, <2>1, <2>2, <2>4, <2>5, ZenonT(60) DEF TypeOK, ControlOK, ConnState
  <2>7. ReadInv' /\ WriteInv' /\ FinAfterData' /\ StreamIntegrity'
    BY <1>0, <2>1, <2>2, ZenonT(60) DEF ReadInv, WriteInv, FinAfterData, StreamIntegrity
  <2> QED BY <2>1, <2>4, <2>6, <2>7, ZenonT(60) DEF IInv, StartInv
<1>4. ASSUME UNCHANGED <<state_, poller, write_buffer_, queue, server_queue,
                         connections_, held, upc, accepted, wire, closes>>,
             pc' \in {"poll", "task"}, sock' \in Socket, ReadInv',
             sock'.fin = sock.fin
      PROVE  IInv'
  <2>1. connections_' \in BOOLEAN
    BY <1>4, ZenonT(60) DEF IInv, TypeOK
  <2>2. TypeOK'
    BY <1>0, <1>1, <1>4, <2>1, NewPollerType, ZenonT(60) DEF TypeOK, ControlOK, ConnState
  <2>3. StartInv'
    BY <1>0, <1>4, ZenonT(60) DEF StartInv
  <2>4. WriteInv' /\ FinAfterData' /\ StreamIntegrity'
    BY <1>0, <1>4, NewPollerType, ZenonT(60) DEF WriteInv, FinAfterData, StreamIntegrity
  <2> QED BY <1>4, <2>2, <2>3, <2>4, ZenonT(60) DEF IInv
<1>5. CASE Poll
  <2>1. fd_ \notin poller.ready
    BY <1>0, NewPollerType, ZenonT(60)
  <2>2. /\ pc' = "task" /\ poller' = [poller EXCEPT !.ready = {}]
        /\ UNCHANGED <<state_, write_buffer_, queue, server_queue, connections_,
                       sock, held, upc, accepted, wire, closes>>
    BY <1>5, <2>1, ZenonT(60) DEF Poll, rest, hist
  <2>3. poller' = poller
    BY <1>0, <2>2, NewPollerType, ZenonT(60)
  <2> QED BY <1>0, <1>4, <2>2, <2>3, ZenonT(60) DEF ReadInv
<1>6. CASE Peer
  <2>1. poller.data[fd_] = NoChannel
    BY <1>0, NewPollerType, ZenonT(60)
  <2> QED BY <1>0, <1>4, <1>6, <2>1, PeerDoes, ZenonT(60)
<1> QED BY <1>2, <1>3, <1>5, <1>6, ZenonT(60)

-----------------------------------------------------------------------------

\* Every step keeps the inductive invariant.
LEMMA NextIInv == IInv /\ [Next]_vars => IInv'
<1>1. ASSUME IInv, Next, state_ # "CONNECTING"
      PROVE  IInv'
  <2>1. OutputOK'
    BY <1>1, OpenStep, ZenonT(60)
  <2>2. ControlOK'
    BY <1>1, NextControl, ZenonT(60) DEF IInv
  <2>3. TypeOK'
    BY <2>1, <2>2, ZenonT(60) DEF TypeOK, OutputOK, ControlOK
  <2>4. StartInv'
    BY <2>1, ZenonT(60) DEF StartInv, OutputOK
  <2> QED BY <2>1, <2>3, <2>4, ZenonT(60) DEF IInv, OutputOK
<1>2. ASSUME IInv, UNCHANGED vars
      PROVE  IInv'
  BY <1>2 DEF vars, IInv, TypeOK, ReadInv, StartInv, Established, WriteInv,
              FinAfterData, StreamIntegrity
<1> QED BY <1>1, <1>2, ConnectingStep, ZenonT(60)

\* The inductive invariant holds in every state of the connection.
LEMMA AlwaysIInv == Spec => []IInv
BY InitIInv, NextIInv, PTL DEF Spec

\* Every state of the connection is well typed: no counter of the socket is
\* driven below zero or past its size, every queued task is one the loop
\* knows, and HandleEvent always finds what to do next.
THEOREM ConnectionTypeCorrect == Spec => []TypeOK
<1>1. IInv => TypeOK
  BY ZenonT(60) DEF IInv
<1> QED BY <1>1, AlwaysIInv, PTL

\* For messages of any size and a kernel buffer of any size: the bytes
\* written, followed by those in write_buffer_, are the bytes SendInLoop has
\* accepted, in order.
THEOREM StreamCorrect == Spec => []StreamIntegrity
<1>1. IInv => StreamIntegrity
  BY ZenonT(60) DEF IInv
<1> QED BY <1>1, AlwaysIInv, PTL

\* BufferRemaining and WriteHandler keep the write event enabled exactly as
\* long as write_buffer_ holds something.
THEOREM WritingCorrect == Spec => []WritingIffBuffered
<1>1. IInv => WritingIffBuffered
  BY ZenonT(60) DEF IInv, WriteInv, WritingIffBuffered
<1> QED BY <1>1, AlwaysIInv, PTL

\* Neither ShutdownInLoop nor WriteHandler sends the FIN of an open
\* connection before write_buffer_ is empty.
THEOREM FinCorrect == Spec => []FinAfterData
<1>1. IInv => FinAfterData
  BY ZenonT(60) DEF IInv
<1> QED BY <1>1, AlwaysIInv, PTL


\* How a step may change state_, and that a closed connection writes nothing.
LEMMA StateMoves ==
  ASSUME IInv, Next
  PROVE  /\ \/ state_' = state_
            \/ state_ = "CONNECTING" /\ state_' = "CONNECTED"
            \/ state_ = "CONNECTED" /\ state_' = "DISCONNECTING"
            \/ state_' = "DISCONNECTED"
         /\ state_ = "DISCONNECTED" => wire' = wire
<1>1. CASE state_ = "CONNECTING"
  <2>1. Poll \/ ConnectEstablished \/ Peer
    BY <1>1, ConnectingOnly, ZenonT(60)
  <2>2. CASE Peer
    BY <1>1, <2>2, PeerDoes, ZenonT(60) DEF IInv
  <2> QED BY <1>1, <2>1, <2>2, ZenonT(60) DEF Poll, ConnectEstablished
<1>2. ASSUME NEW n, NEW q, SendInLoop(n, q)
      PROVE  /\ state_' = state_ \/ state_' = "DISCONNECTED"
             /\ state_ = "DISCONNECTED" => wire' = wire
  BY <1>2, ZenonT(60) DEF SendInLoop, SendDiscarded, SendWritten, SendRefused, SendFault,
              SendBuffered, WritesDirectly, BufferRemaining, CloseHandler, conn
<1>3. CASE state_ # "CONNECTING"
  <2>1. CASE Peer
    BY <2>1, PeerDoes, ZenonT(60) DEF IInv
  <2>2. CASE WriteHandler
    <3>1. state_ = "DISCONNECTED" => ~IsWriting(poller, channel_)
      BY ZenonT(60) DEF IInv, WriteInv
    <3> QED BY <2>2, <3>1, ZenonT(60) DEF WriteHandler
  <2>3. CASE \/ Poll \/ CloseEvent \/ ErrorEvent
             \/ ReadData \/ ReadUnwanted \/ ReadEof \/ ReadError \/ ReadAgain
    BY <2>3, ZenonT(60) DEF Poll, CloseEvent, ErrorEvent, ReadData, ReadUnwanted, ReadEof,
                ReadError, ReadAgain, CloseHandler, conn, hist
  <2>4. CASE MessageCallback
    BY <1>2, <2>4, ZenonT(60) DEF MessageCallback, MessageReturn, MessageSend, MessageShutdown,
                      MessageForceClose, MessageRead, conn, hist
  <2>5. CASE RunTaskFuncs
    <3>1. ~ConnectEstablished
      <4>1. Open
        BY <1>3, OpenState, ZenonT(60)
      <4>2. queue # <<>> => Head(queue).op # "ConnectEstablished"
        BY <4>1, TaskQueues, ZenonT(60) DEF Open
      <4> QED BY <4>2, ZenonT(60) DEF ConnectEstablished, Runs
    <3> QED BY <1>2, <2>5, <3>1, ZenonT(60)
            DEF RunTaskFuncs, NoTask, ConnectDestoryed, StartReadInLoop,
                StopReadInLoop, RunShutdownInLoop, ForceCloseInLoop, RunSendInLoop,
                RunNotification, CloseHandler, conn, hist
  <2>6. CASE UserThread
    BY <2>6, ZenonT(60) DEF UserThread, Send, StartRead, StopRead, Shutdown, ForceClose,
                UserContinues, ShutdownQueue, ForceCloseQueue, ForceCloseAgain,
                UserRelease, UserCall, UserStep, conn, hist
  <2>7. CASE ServerThread \/ Destroy
    BY <2>7, ZenonT(60) DEF ServerThread, Destroy, conn, hist
  <2> QED BY <2>1, <2>2, <2>3, <2>4, <2>5, <2>6, <2>7, ZenonT(60) DEF Next, LoopThread
<1> QED BY <1>1, <1>3, ZenonT(60)

\* Although the application's thread and the loop's both assign state_, it
\* never goes back; and after the close neither SendInLoop nor WriteHandler
\* writes another byte.
THEOREM StateOrder == Spec => StateAdvances
<1>1. IInv /\ [Next]_vars =>
        [/\ Rank(state_) <= Rank(state_')
         /\ state_ = "DISCONNECTED" => wire' = wire]_vars
  <2> SUFFICES ASSUME IInv, Next
               PROVE  /\ Rank(state_) <= Rank(state_')
                      /\ state_ = "DISCONNECTED" => wire' = wire
    OBVIOUS
  <2>1. state_ \in ConnState /\ state_' \in ConnState
    BY NextIInv, ZenonT(60) DEF IInv, TypeOK
  <2> QED BY <2>1, StateMoves DEF Rank, ConnState
<1> QED BY <1>1, AlwaysIInv, PTL DEF Spec, StateAdvances
=============================================================================
