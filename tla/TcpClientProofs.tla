-------------------------- MODULE TcpClientProofs --------------------------
(***************************************************************************)
(* TcpClient and TcpConnector hand the socket over and are destroyed safely *)
(* for any number of refused attempts and calls of Stop.                    *)
(***************************************************************************)
EXTENDS TcpClient, SequenceTheorems, TLAPS

\* The provers a step is tried with, and their time limits.
USE SMTT(30), ZenonT(60)

AllTasks == ConnectorTasks \cup ConnectionTasks

Has(q, task) == \E i \in 1..Len(q) : q[i] = task

\* StartInLoop, ResetChannelPtr and ConnectDestoryed are queued at most once
\* at a time, and a reset of the channel never behind the attempt that will
\* make a new one.
Ordered(q) ==
  \A i \in 1..Len(q) : \A j \in 1..Len(q) : i < j =>
    /\ q[i] \in {"StartInLoop", "ResetChannelPtr", "ConnectDestoryed"} =>
         q[i] # q[j]
    /\ q[i] = "StartInLoop" => q[j] # "ResetChannelPtr"

\* The connector: what is queued for it, its channel and the socket.
ConnectorInv ==
  /\ Ordered(queue)
  /\ state_ = "kDisconnected" =>
       /\ channel_ = "none" /\ conn = "none" /\ sock = "none"
       /\ ~Has(queue, "StartInLoop") /\ ~Has(queue, "ResetChannelPtr")
  /\ exists /\ Has(queue, "StartInLoop") =>
       conn = "none" /\ channel_ # "listed" /\ sock = "none"
  /\ exists /\ Has(queue, "ResetChannelPtr") => channel_ = "removed"

\* The connection: who holds it and what is queued for it.
ConnectionInv ==
  /\ conn = "closed" <=> Has(queue, "ConnectDestoryed")
  /\ connection_ <=> conn = "open" /\ exists
  /\ Has(queue, "SetCloseCB") => hasty

\* A client that was let go when nothing of it was in use.
DestroyedInv ==
  /\ exists => ~hasty
  /\ ~exists /\ ~hasty =>
       /\ channel_ = "none"
       /\ \A task \in ConnectorTasks : ~Has(queue, task)
       /\ conn = "open" => held /\ close_cb_ = "tcp::RemoveConnection"

Safe == ChannelIsSafe /\ SocketIsOwned /\ DestroyedIsUnused

IInv ==
  /\ TypeOK /\ ConnectorInv /\ ConnectionInv /\ DestroyedInv
  /\ ChannelIsSafe /\ SocketIsOwned /\ DestroyedIsUnused

-----------------------------------------------------------------------------
(* What appending to the queue and taking its first task do.                *)

\* QueueInLoop of a task that is not queued yet, and no ResetChannelPtr behind a
\* StartInLoop, keeps the queue ordered.
LEMMA AppendTask ==
  ASSUME NEW q \in Seq(AllTasks), NEW t \in AllTasks
  PROVE  /\ Append(q, t) \in Seq(AllTasks)
         /\ \A u : Has(Append(q, t), u) <=> Has(q, u) \/ t = u
         /\ /\ Ordered(q)
            /\ t \in {"StartInLoop", "ResetChannelPtr", "ConnectDestoryed"} =>
                 ~Has(q, t)
            /\ t = "ResetChannelPtr" => ~Has(q, "StartInLoop")
            => Ordered(Append(q, t))
<1> DEFINE r == Append(q, t)
<1>1. /\ r \in Seq(AllTasks) /\ Len(r) = Len(q) + 1 /\ Len(q) \in Nat
      /\ \A i \in 1..Len(q) : r[i] = q[i]
      /\ r[Len(q) + 1] = t
  OBVIOUS
<1> HIDE DEF r
<1>2. ASSUME NEW u PROVE Has(r, u) <=> Has(q, u) \/ t = u
  <2>1. ASSUME Has(r, u) PROVE Has(q, u) \/ t = u
    BY <1>1, <2>1 DEF Has
  <2>2. ASSUME Has(q, u) PROVE Has(r, u)
    <3>1. PICK i \in 1..Len(q) : q[i] = u
      BY <2>2, ZenonT(60) DEF Has
    <3>2. i \in 1..Len(r) /\ r[i] = u
      BY <1>1, <3>1
    <3> QED
      BY <3>2, ZenonT(60) DEF Has
  <2>3. ASSUME t = u PROVE Has(r, u)
    <3>1. Len(q) + 1 \in 1..Len(r)
      BY <1>1
    <3> QED
      BY <1>1, <2>3, <3>1, ZenonT(60) DEF Has
  <2> QED
    BY <2>1, <2>2, <2>3, ZenonT(60)
<1>3. ASSUME Ordered(q),
             t \in {"StartInLoop", "ResetChannelPtr", "ConnectDestoryed"} =>
               ~Has(q, t),
             t = "ResetChannelPtr" => ~Has(q, "StartInLoop"),
             NEW i \in 1..Len(r), NEW j \in 1..Len(r), i < j
      PROVE  /\ r[i] \in {"StartInLoop", "ResetChannelPtr", "ConnectDestoryed"}
                  => r[i] # r[j]
             /\ r[i] = "StartInLoop" => r[j] # "ResetChannelPtr"
  <2>1. i \in 1..Len(q) /\ r[i] = q[i]
    BY <1>1, <1>3
  <2>2. CASE j \in 1..Len(q)
    BY <1>1, <1>3, <2>1, <2>2, ZenonT(60) DEF Ordered
  <2>3. CASE j = Len(q) + 1
    BY <1>1, <1>3, <2>1, <2>3, ZenonT(60) DEF Has
  <2> QED
    BY <1>1, <2>2, <2>3
<1> QED
  BY <1>1, <1>2, <1>3, ZenonT(60) DEF Ordered, r

\* Taking the first task of a queue keeps it ordered, and a task that is queued
\* at most once is then queued no more.
LEMMA TakeTask ==
  ASSUME NEW q \in Seq(AllTasks), q # <<>>
  PROVE  /\ Tail(q) \in Seq(AllTasks) /\ Head(q) \in AllTasks
         /\ \A u : Has(q, u) <=> Head(q) = u \/ Has(Tail(q), u)
         /\ Ordered(q) =>
              /\ Ordered(Tail(q))
              /\ Head(q) \in {"StartInLoop", "ResetChannelPtr", "ConnectDestoryed"}
                   => ~Has(Tail(q), Head(q))
              /\ Head(q) = "StartInLoop" => ~Has(Tail(q), "ResetChannelPtr")
<1> DEFINE r == Tail(q)
<1>1. /\ r \in Seq(AllTasks) /\ Head(q) = q[1] /\ Head(q) \in AllTasks
      /\ Len(q) \in Nat /\ Len(q) >= 1 /\ Len(r) = Len(q) - 1
      /\ \A i \in 1..Len(r) : r[i] = q[i + 1]
  OBVIOUS
<1> HIDE DEF r
<1>2. ASSUME NEW u PROVE Has(q, u) <=> Head(q) = u \/ Has(r, u)
  <2>1. ASSUME Has(q, u) PROVE Head(q) = u \/ Has(r, u)
    <3>1. PICK i \in 1..Len(q) : q[i] = u
      BY <2>1, ZenonT(60) DEF Has
    <3>2. CASE i = 1
      BY <1>1, <3>1, <3>2, ZenonT(60)
    <3>3. CASE i # 1
      <4>1. i - 1 \in 1..Len(r) /\ r[i - 1] = q[(i - 1) + 1] /\ (i - 1) + 1 = i
        BY <1>1, <3>3
      <4> QED
        BY <3>1, <4>1, ZenonT(60) DEF Has
    <3> QED
      BY <3>2, <3>3, ZenonT(60)
  <2>2. ASSUME Has(r, u) PROVE Has(q, u)
    <3>1. PICK i \in 1..Len(r) : r[i] = u
      BY <2>2, ZenonT(60) DEF Has
    <3>2. i + 1 \in 1..Len(q) /\ q[i + 1] = u
      BY <1>1, <3>1
    <3> QED
      BY <3>2, ZenonT(60) DEF Has
  <2>3. ASSUME Head(q) = u PROVE Has(q, u)
    BY <1>1, <2>3 DEF Has
  <2> QED
    BY <2>1, <2>2, <2>3, ZenonT(60)
<1>3. ASSUME Ordered(q)
      PROVE  /\ Ordered(r)
             /\ Head(q) \in {"StartInLoop", "ResetChannelPtr", "ConnectDestoryed"}
                  => ~Has(r, Head(q))
             /\ Head(q) = "StartInLoop" => ~Has(r, "ResetChannelPtr")
  <2>1. \A i \in 1..Len(r) : i + 1 \in 1..Len(q) /\ 1 < i + 1
    BY <1>1
  <2>2. \A i \in 1..Len(r), j \in 1..Len(r) : i < j => i + 1 < j + 1
    BY <1>1
  <2>3. Ordered(r)
    BY <1>1, <1>3, <2>1, <2>2, ZenonT(60) DEF Ordered
  <2>4. 1 \in 1..Len(q)
    BY <1>1
  <2> QED
    BY <1>1, <1>3, <2>1, <2>3, <2>4 DEF Ordered, Has
<1> QED
  BY <1>1, <1>2, <1>3, ZenonT(60) DEF r

-----------------------------------------------------------------------------
(* Dropping a shared_ptr: the connection stays, or this was the last one.   *)

\* The two outcomes of giving up references: the connection is still referenced
\* and nothing else changes, or it is destroyed and closes its socket.
LEMMA SettleParts ==
  ASSUME NEW c, NEW q \in Seq(AllTasks), NEW member \in BOOLEAN,
         NEW h \in BOOLEAN, dangling \in BOOLEAN, Settle(c, q, member, h)
  PROVE  /\ queue' = q /\ connection_' = member /\ held' = h
         /\ dangling' \in BOOLEAN
         /\ \/ /\ \/ c \in {"none", "gone"} \/ member \/ h
                  \/ Has(q, "SetCloseCB") \/ Has(q, "ConnectDestoryed")
               /\ conn' = c /\ sock' = sock /\ dangling' = dangling
            \/ /\ c \notin {"none", "gone"} /\ ~member /\ ~h
               /\ ~Has(q, "SetCloseCB") /\ ~Has(q, "ConnectDestoryed")
               /\ conn' = "gone" /\ sock' = "none"
               /\ c = "removed" => dangling' = dangling
<1> DEFINE none == \A i \in 1..Len(q) : q[i] \notin ConnectionTasks
           last == c \notin {"none", "gone"} /\ ~member /\ ~h /\ none
<1>1. none <=> ~Has(q, "SetCloseCB") /\ ~Has(q, "ConnectDestoryed")
  BY ZenonT(60) DEF Has, ConnectionTasks
<1>2. /\ queue' = q /\ connection_' = member /\ held' = h
      /\ conn' = IF last THEN "gone" ELSE c
      /\ sock' = IF last THEN "none" ELSE sock
      /\ dangling' = (dangling \/ (last /\ c # "removed"))
  BY ZenonT(60) DEF Settle
<1> HIDE DEF none
<1> QED
  BY <1>1, <1>2, ZenonT(60)

\* A client just constructed satisfies the inductive invariant.
LEMMA InitIInv == Init => IInv
<1> SUFFICES ASSUME Init PROVE IInv
  OBVIOUS
<1>1. \A u : ~Has(queue, u)
  BY DEF Init, Has
<1>2. Flags
  BY ClientAssumption, ZenonT(60) DEF Init, Flags
<1>3. Places
  BY ClientAssumption DEF Init, Places
<1>4. Ordered(queue)
  BY DEF Init, Ordered
<1> QED
  BY <1>1, <1>2, <1>3, <1>4, ZenonT(60)
  DEF Init, IInv, TypeOK, ConnectorInv, ConnectionInv, DestroyedInv,
      ChannelIsSafe, SocketIsOwned, DestroyedIsUnused

\* Every step of the client, its connector and its connection keeps the
\* inductive invariant.
LEMMA NextIInv == IInv /\ [Next]_vars => IInv'
<1> SUFFICES ASSUME IInv, [Next]_vars PROVE IInv'
  OBVIOUS
<1> USE DEF IInv, Safe, ChannelIsSafe, SocketIsOwned, DestroyedIsUnused
<1>q. queue \in Seq(AllTasks)
  BY ZenonT(60) DEF TypeOK, Places, AllTasks
<1>t. /\ "StartInLoop" \in AllTasks /\ "ResetChannelPtr" \in AllTasks
      /\ "StopInLoop" \in AllTasks /\ "SetCloseCB" \in AllTasks
      /\ "ConnectDestoryed" \in AllTasks
      /\ AllTasks = ConnectorTasks \cup ConnectionTasks
  BY ZenonT(60) DEF AllTasks, ConnectorTasks, ConnectionTasks
<1>1. CASE WriteEventHandler
  <2> DEFINE q1 == Append(queue, "ResetChannelPtr")
             q2 == Append(q1, "StartInLoop")
  <2>1. ~Has(queue, "StartInLoop") /\ ~Has(queue, "ResetChannelPtr")
    BY <1>1, ZenonT(60) DEF WriteEventHandler, HandleWrite, ConnectorInv
  <2>2. /\ q1 \in Seq(AllTasks) /\ Ordered(q1)
        /\ \A u : Has(q1, u) <=> Has(queue, u) \/ u = "ResetChannelPtr"
    BY <1>q, <1>t, <2>1, AppendTask, ZenonT(60) DEF ConnectorInv
  <2>3. /\ q2 \in Seq(AllTasks) /\ Ordered(q2)
        /\ \A u : Has(q2, u) <=> Has(q1, u) \/ u = "StartInLoop"
    BY <1>q, <1>t, <2>1, <2>2, AppendTask, ZenonT(60)
  <2>4. queue \o <<"ResetChannelPtr">> \o <<"StartInLoop">> = q2
    BY <1>q, <1>t, <2>2, AppendIsConcat
  <2> HIDE DEF q1, q2
  <2>5. CASE sock = "refused"
    <3> USE <1>1, <2>1, <2>2, <2>3, <2>4, <2>5, <1>t DEF WriteEventHandler,
      HandleWrite, connection, owner
    <3>1. Places'         BY ZenonT(60) DEF TypeOK, Places, Flags
    <3>2. Flags'          BY ZenonT(60) DEF TypeOK, Places, Flags
    <3>3. ConnectorInv'
      BY ZenonT(60) DEF ConnectorInv, ConnectionInv, DestroyedInv, Flags, Places, TypeOK
    <3>4. ConnectionInv'
      BY ZenonT(60) DEF ConnectionInv, DestroyedInv, Flags, Places, TypeOK
    <3>5. DestroyedInv'
      BY ZenonT(60) DEF ConnectorInv, ConnectionInv, DestroyedInv, Flags, Places, TypeOK
    <3>6. Safe'
      BY ZenonT(60) DEF ConnectorInv, ConnectionInv, DestroyedInv, Flags, Places, TypeOK
    <3> QED  BY <3>1, <3>2, <3>3, <3>4, <3>5, <3>6, ZenonT(60) DEF TypeOK
  <2>6. CASE sock # "refused"
    <3>0. queue' = q1
      BY <1>1, <2>6, ZenonT(60) DEF WriteEventHandler, HandleWrite, q1
    <3> USE <1>1, <2>1, <2>2, <2>6, <3>0, <1>t DEF WriteEventHandler,
      HandleWrite, connection, owner
    <3>1. Places'         BY ZenonT(60) DEF TypeOK, Places, Flags
    <3>2. Flags'          BY ZenonT(60) DEF TypeOK, Places, Flags
    <3>3. ConnectorInv'
      BY ZenonT(60) DEF ConnectorInv, ConnectionInv, DestroyedInv, Flags, Places, TypeOK
    <3>4. ConnectionInv'
      BY ZenonT(60) DEF ConnectionInv, DestroyedInv, Flags, Places, TypeOK
    <3>5. DestroyedInv'
      BY ZenonT(60) DEF ConnectorInv, ConnectionInv, DestroyedInv, Flags, Places, TypeOK
    <3>6. Safe'
      BY ZenonT(60) DEF ConnectorInv, ConnectionInv, DestroyedInv, Flags, Places, TypeOK
    <3> QED  BY <3>1, <3>2, <3>3, <3>4, <3>5, <3>6, ZenonT(60) DEF TypeOK
  <2> QED  BY <2>5, <2>6, ZenonT(60)
<1>2. CASE WriteEventDangling
  <2> USE <1>2 DEF WriteEventDangling, connector, connection, owner
  <2>1. Places'         BY ZenonT(60) DEF TypeOK, Places, Flags
  <2>2. Flags'          BY ZenonT(60) DEF TypeOK, Places, Flags
  <2>3. ConnectorInv'
    BY ZenonT(60) DEF ConnectorInv, ConnectionInv, DestroyedInv, Flags, Places, TypeOK
  <2>4. ConnectionInv'
    BY ZenonT(60) DEF ConnectionInv, DestroyedInv, Flags, Places, TypeOK
  <2>5. DestroyedInv'
    BY ZenonT(60) DEF ConnectorInv, ConnectionInv, DestroyedInv, Flags, Places, TypeOK
  <2>6. Safe'
    BY ZenonT(60) DEF ConnectorInv, ConnectionInv, DestroyedInv, Flags, Places, TypeOK
  <2> QED  BY <2>1, <2>2, <2>3, <2>4, <2>5, <2>6, ZenonT(60) DEF TypeOK
<1>3. ASSUME NEW task \in ConnectorTasks, ConnectorTask(task)
      PROVE  IInv'
  <2> DEFINE q == Tail(queue)
  <2>q. /\ q \in Seq(AllTasks) /\ Ordered(q)
        /\ \A u : Has(queue, u) <=> u = task \/ Has(q, u)
        /\ task = "StartInLoop" =>
             ~Has(q, "StartInLoop") /\ ~Has(q, "ResetChannelPtr")
        /\ task = "ResetChannelPtr" => ~Has(q, "ResetChannelPtr")
    BY <1>3, <1>q, TakeTask, ZenonT(60) DEF ConnectorTask, Runs, ConnectorInv
  <2>r. queue' = q
    BY <1>3, ZenonT(60) DEF ConnectorTask
  <2> HIDE DEF q
  <2>0. CASE ~exists
    <3> USE <1>3, <1>t, <2>q, <2>r, <2>0 DEF ConnectorTask, connector,
      connection, owner, ConnectorTasks
    <3>1. Places'         BY ZenonT(60) DEF TypeOK, Places, Flags
    <3>2. Flags'          BY ZenonT(60) DEF TypeOK, Places, Flags
    <3>3. ConnectorInv'
      BY ZenonT(60) DEF ConnectorInv, ConnectionInv, DestroyedInv, Flags, Places, TypeOK
    <3>4. ConnectionInv'
      BY ZenonT(60) DEF ConnectionInv, DestroyedInv, Flags, Places, TypeOK
    <3>5. DestroyedInv'
      BY ZenonT(60) DEF ConnectorInv, ConnectionInv, DestroyedInv, Flags, Places, TypeOK
    <3>6. Safe'
      BY ZenonT(60) DEF ConnectorInv, ConnectionInv, DestroyedInv, Flags, Places, TypeOK
    <3> QED  BY <3>1, <3>2, <3>3, <3>4, <3>5, <3>6, ZenonT(60) DEF TypeOK
  <2>4. CASE exists /\ task = "StartInLoop"
    <3> USE <1>3, <1>t, <2>q, <2>r, <2>4 DEF ConnectorTask, StartInLoop,
      ResetChannel, connection, owner
    <3>1. Places'         BY ZenonT(60) DEF TypeOK, Places, Flags
    <3>2. Flags'          BY ZenonT(60) DEF TypeOK, Places, Flags
    <3>3. ConnectorInv'
      BY ZenonT(60) DEF ConnectorInv, ConnectionInv, DestroyedInv, Flags, Places, TypeOK
    <3>4. ConnectionInv'
      BY ZenonT(60) DEF ConnectionInv, DestroyedInv, Flags, Places, TypeOK
    <3>5. DestroyedInv'
      BY ZenonT(60) DEF ConnectorInv, ConnectionInv, DestroyedInv, Flags, Places, TypeOK
    <3>6. Safe'
      BY ZenonT(60) DEF ConnectorInv, ConnectionInv, DestroyedInv, Flags, Places, TypeOK
    <3> QED  BY <3>1, <3>2, <3>3, <3>4, <3>5, <3>6, ZenonT(60) DEF TypeOK
  <2>5. CASE exists /\ task = "StopInLoop"
    <3> USE <1>3, <1>t, <2>q, <2>r, <2>5 DEF ConnectorTask, connection, owner
    <3>1. Places'         BY ZenonT(60) DEF TypeOK, Places, Flags
    <3>2. Flags'          BY ZenonT(60) DEF TypeOK, Places, Flags
    <3>3. ConnectorInv'
      BY ZenonT(60) DEF ConnectorInv, ConnectionInv, DestroyedInv, Flags, Places, TypeOK
    <3>4. ConnectionInv'
      BY ZenonT(60) DEF ConnectionInv, DestroyedInv, Flags, Places, TypeOK
    <3>5. DestroyedInv'
      BY ZenonT(60) DEF ConnectorInv, ConnectionInv, DestroyedInv, Flags, Places, TypeOK
    <3>6. Safe'
      BY ZenonT(60) DEF ConnectorInv, ConnectionInv, DestroyedInv, Flags, Places, TypeOK
    <3> QED  BY <3>1, <3>2, <3>3, <3>4, <3>5, <3>6, ZenonT(60) DEF TypeOK
  <2>6. CASE exists /\ task = "ResetChannelPtr"
    <3> USE <1>3, <1>t, <2>q, <2>r, <2>6 DEF ConnectorTask, ResetChannel,
      connection, owner
    <3>1. Places'         BY ZenonT(60) DEF TypeOK, Places, Flags
    <3>2. Flags'          BY ZenonT(60) DEF TypeOK, Places, Flags
    <3>3. ConnectorInv'
      BY ZenonT(60) DEF ConnectorInv, ConnectionInv, DestroyedInv, Flags, Places, TypeOK
    <3>4. ConnectionInv'
      BY ZenonT(60) DEF ConnectionInv, DestroyedInv, Flags, Places, TypeOK
    <3>5. DestroyedInv'
      BY ZenonT(60) DEF ConnectorInv, ConnectionInv, DestroyedInv, Flags, Places, TypeOK
    <3>6. Safe'
      BY ZenonT(60) DEF ConnectorInv, ConnectionInv, DestroyedInv, Flags, Places, TypeOK
    <3> QED  BY <3>1, <3>2, <3>3, <3>4, <3>5, <3>6, ZenonT(60) DEF TypeOK
  <2> QED  BY <1>3, <2>0, <2>4, <2>5, <2>6, ZenonT(60) DEF ConnectorTasks, TypeOK, Places, Flags
<1>4. CASE RunSetCloseCB
  <2> DEFINE q == Tail(queue)
  <2>q. /\ q \in Seq(AllTasks) /\ Ordered(q) /\ Has(queue, "SetCloseCB")
        /\ \A u : Has(queue, u) <=> u = "SetCloseCB" \/ Has(q, u)
    BY <1>4, <1>q, TakeTask DEF RunSetCloseCB, Runs, ConnectorInv
  <2> HIDE DEF q
  <2>s. Settle(conn, q, connection_, held)
    BY <1>4, ZenonT(60) DEF RunSetCloseCB, q
  <2>p. /\ queue' = q /\ connection_' = connection_ /\ held' = held
        /\ dangling' \in BOOLEAN
        /\ \/ /\ \/ conn \in {"none", "gone"} \/ connection_ \/ held
                 \/ Has(q, "SetCloseCB") \/ Has(q, "ConnectDestoryed")
              /\ conn' = conn /\ sock' = sock /\ dangling' = dangling
           \/ /\ conn \notin {"none", "gone"} /\ ~connection_ /\ ~held
              /\ ~Has(q, "SetCloseCB") /\ ~Has(q, "ConnectDestoryed")
              /\ conn' = "gone" /\ sock' = "none"
              /\ conn = "removed" => dangling' = dangling
    BY <2>q, <2>s, SettleParts DEF TypeOK, Flags
  <2> USE <1>4, <1>t, <2>q, <2>p DEF RunSetCloseCB, owner, ConnectorTasks
  <2>1. Places'         BY ZenonT(60) DEF TypeOK, Places, Flags
  <2>2. Flags'          BY ZenonT(60) DEF TypeOK, Places, Flags
  <2>3. ConnectorInv'
    BY ZenonT(60) DEF ConnectorInv, ConnectionInv, DestroyedInv, Flags, Places, TypeOK
  <2>4. ConnectionInv'
    BY ZenonT(60) DEF ConnectionInv, DestroyedInv, Flags, Places, TypeOK
  <2>5. DestroyedInv'
    BY ZenonT(60) DEF ConnectorInv, ConnectionInv, DestroyedInv, Flags, Places, TypeOK
  <2>6. Safe'
    BY ZenonT(60) DEF ConnectorInv, ConnectionInv, DestroyedInv, Flags, Places, TypeOK
  <2> QED  BY <2>1, <2>2, <2>3, <2>4, <2>5, <2>6, ZenonT(60) DEF TypeOK
<1>5. CASE ConnectDestoryed
  <2> DEFINE q == Tail(queue)
  <2>q. /\ q \in Seq(AllTasks) /\ Ordered(q) /\ Has(queue, "ConnectDestoryed")
        /\ \A u : Has(queue, u) <=> u = "ConnectDestoryed" \/ Has(q, u)
        /\ ~Has(q, "ConnectDestoryed")
    BY <1>5, <1>q, TakeTask, ZenonT(60) DEF ConnectDestoryed, Runs, ConnectorInv
  <2> HIDE DEF q
  <2>s. Settle("removed", q, connection_, held)
    BY <1>5, ZenonT(60) DEF ConnectDestoryed, q
  <2>p. /\ queue' = q /\ connection_' = connection_ /\ held' = held
        /\ dangling' \in BOOLEAN
        /\ \/ /\ \/ "removed" \in {"none", "gone"} \/ connection_ \/ held
                 \/ Has(q, "SetCloseCB") \/ Has(q, "ConnectDestoryed")
              /\ conn' = "removed" /\ sock' = sock /\ dangling' = dangling
           \/ /\ "removed" \notin {"none", "gone"} /\ ~connection_ /\ ~held
              /\ ~Has(q, "SetCloseCB") /\ ~Has(q, "ConnectDestoryed")
              /\ conn' = "gone" /\ sock' = "none"
              /\ "removed" = "removed" => dangling' = dangling
    BY <2>q, <2>s, SettleParts DEF TypeOK, Flags
  <2> USE <1>5, <1>t, <2>q, <2>p DEF ConnectDestoryed, owner, ConnectorTasks
  <2>1. Places'         BY ZenonT(60) DEF TypeOK, Places, Flags
  <2>2. Flags'          BY ZenonT(60) DEF TypeOK, Places, Flags
  <2>3. ConnectorInv'
    BY ZenonT(60) DEF ConnectorInv, ConnectionInv, DestroyedInv, Flags, Places, TypeOK
  <2>4. ConnectionInv'
    BY ZenonT(60) DEF ConnectionInv, DestroyedInv, Flags, Places, TypeOK
  <2>5. DestroyedInv'
    BY ZenonT(60) DEF ConnectorInv, ConnectionInv, DestroyedInv, Flags, Places, TypeOK
  <2>6. Safe'
    BY ZenonT(60) DEF ConnectorInv, ConnectionInv, DestroyedInv, Flags, Places, TypeOK
  <2> QED  BY <2>1, <2>2, <2>3, <2>4, <2>5, <2>6, ZenonT(60) DEF TypeOK
<1>6. CASE Answer
  <2> USE <1>6 DEF Answer, connection, owner
  <2>1. Places'         BY ClientAssumption DEF TypeOK, Places, Flags
  <2>2. Flags'          BY ZenonT(60) DEF TypeOK, Places, Flags
  <2>3. ConnectorInv'
    BY ZenonT(60) DEF ConnectorInv, ConnectionInv, DestroyedInv, Flags, Places, TypeOK
  <2>4. ConnectionInv'
    BY ZenonT(60) DEF ConnectionInv, DestroyedInv, Flags, Places, TypeOK
  <2>5. DestroyedInv'
    BY ZenonT(60) DEF ConnectorInv, ConnectionInv, DestroyedInv, Flags, Places, TypeOK
  <2>6. Safe'
    BY ZenonT(60) DEF ConnectorInv, ConnectionInv, DestroyedInv, Flags, Places, TypeOK
  <2> QED  BY <2>1, <2>2, <2>3, <2>4, <2>5, <2>6, ZenonT(60) DEF TypeOK
<1>7. CASE CloseHandler
  <2> DEFINE q == Append(queue, "ConnectDestoryed")
  <2>q. /\ q \in Seq(AllTasks) /\ Ordered(q)
        /\ \A u : Has(q, u) <=> Has(queue, u) \/ u = "ConnectDestoryed"
    BY <1>7, <1>q, <1>t, AppendTask, ZenonT(60) DEF CloseHandler, ConnectorInv, ConnectionInv
  <2>r. queue' = q
    BY <1>7, ZenonT(60) DEF CloseHandler
  <2> HIDE DEF q
  <2> USE <1>7, <1>t, <2>q, <2>r DEF CloseHandler, connector, owner,
    ConnectorTasks
  <2>1. Places'         BY ZenonT(60) DEF TypeOK, Places, Flags
  <2>2. Flags'          BY ZenonT(60) DEF TypeOK, Places, Flags
  <2>3. ConnectorInv'
    BY ZenonT(60) DEF ConnectorInv, ConnectionInv, DestroyedInv, Flags, Places, TypeOK
  <2>4. ConnectionInv'
    BY ZenonT(60) DEF ConnectionInv, DestroyedInv, Flags, Places, TypeOK
  <2>5. DestroyedInv'
    BY ZenonT(60) DEF ConnectorInv, ConnectionInv, DestroyedInv, Flags, Places, TypeOK
  <2>6. Safe'
    BY ZenonT(60) DEF ConnectorInv, ConnectionInv, DestroyedInv, Flags, Places, TypeOK
  <2> QED  BY <2>1, <2>2, <2>3, <2>4, <2>5, <2>6, ZenonT(60) DEF TypeOK
<1>8. CASE Release
  <2>q. queue \in Seq(AllTasks) /\ FALSE \in BOOLEAN
    BY <1>q, ZenonT(60)
  <2>s. Settle(conn, queue, connection_, FALSE)
    BY <1>8, ZenonT(60) DEF Release
  <2>p. /\ queue' = queue /\ connection_' = connection_ /\ held' = FALSE
        /\ dangling' \in BOOLEAN
        /\ \/ /\ \/ conn \in {"none", "gone"} \/ connection_ \/ FALSE
                 \/ Has(queue, "SetCloseCB") \/ Has(queue, "ConnectDestoryed")
              /\ conn' = conn /\ sock' = sock /\ dangling' = dangling
           \/ /\ conn \notin {"none", "gone"} /\ ~connection_ /\ ~FALSE
              /\ ~Has(queue, "SetCloseCB") /\ ~Has(queue, "ConnectDestoryed")
              /\ conn' = "gone" /\ sock' = "none"
              /\ conn = "removed" => dangling' = dangling
    BY <2>q, <2>s, SettleParts, ZenonT(60) DEF TypeOK, Flags
  <2> USE <1>8, <2>p DEF Release
  <2>1. Places'         BY ZenonT(60) DEF TypeOK, Places, Flags
  <2>2. Flags'          BY ZenonT(60) DEF TypeOK, Places, Flags
  <2>3. ConnectorInv'
    BY ZenonT(60) DEF ConnectorInv, ConnectionInv, DestroyedInv, Flags, Places, TypeOK
  <2>4. ConnectionInv'
    BY ZenonT(60) DEF ConnectionInv, DestroyedInv, Flags, Places, TypeOK
  <2>5. DestroyedInv'
    BY ZenonT(60) DEF ConnectorInv, ConnectionInv, DestroyedInv, Flags, Places, TypeOK
  <2>6. Safe'
    BY ZenonT(60) DEF ConnectorInv, ConnectionInv, DestroyedInv, Flags, Places, TypeOK
  <2> QED  BY <2>1, <2>2, <2>3, <2>4, <2>5, <2>6, ZenonT(60) DEF TypeOK
<1>9. CASE Connect
  <2>1. CASE in_loop
    <3> USE <1>9, <2>1 DEF Connect, Owner, StartInLoop, ResetChannel
    <3>1. Places'         BY ZenonT(60) DEF TypeOK, Places, Flags
    <3>2. Flags'          BY ZenonT(60) DEF TypeOK, Places, Flags
    <3>3. ConnectorInv'
      BY ZenonT(60) DEF ConnectorInv, ConnectionInv, DestroyedInv, Flags, Places, TypeOK
    <3>4. ConnectionInv'
      BY ZenonT(60) DEF ConnectionInv, DestroyedInv, Flags, Places, TypeOK
    <3>5. DestroyedInv'
      BY ZenonT(60) DEF ConnectorInv, ConnectionInv, DestroyedInv, Flags, Places, TypeOK
    <3>6. Safe'
      BY ZenonT(60) DEF ConnectorInv, ConnectionInv, DestroyedInv, Flags, Places, TypeOK
    <3> QED  BY <3>1, <3>2, <3>3, <3>4, <3>5, <3>6, ZenonT(60) DEF TypeOK
  <2>2. CASE ~in_loop
    <3> DEFINE q == Append(queue, "StartInLoop")
    <3>q. /\ q \in Seq(AllTasks) /\ Ordered(q)
          /\ \A u : Has(q, u) <=> Has(queue, u) \/ u = "StartInLoop"
      BY <1>9, <2>2, <1>q, <1>t, AppendTask, ZenonT(60) DEF Connect, ConnectorInv
    <3>r. queue' = q
      BY <1>9, <2>2, ZenonT(60) DEF Connect
    <3> HIDE DEF q
    <3> USE <1>9, <1>t, <2>2, <3>q, <3>r DEF Connect, Owner
    <3>1. Places'         BY ZenonT(60) DEF TypeOK, Places, Flags
    <3>2. Flags'          BY ZenonT(60) DEF TypeOK, Places, Flags
    <3>3. ConnectorInv'
      BY ZenonT(60) DEF ConnectorInv, ConnectionInv, DestroyedInv, Flags, Places, TypeOK
    <3>4. ConnectionInv'
      BY ZenonT(60) DEF ConnectionInv, DestroyedInv, Flags, Places, TypeOK
    <3>5. DestroyedInv'
      BY ZenonT(60) DEF ConnectorInv, ConnectionInv, DestroyedInv, Flags, Places, TypeOK
    <3>6. Safe'
      BY ZenonT(60) DEF ConnectorInv, ConnectionInv, DestroyedInv, Flags, Places, TypeOK
    <3> QED  BY <3>1, <3>2, <3>3, <3>4, <3>5, <3>6, ZenonT(60) DEF TypeOK
  <2> QED  BY <2>1, <2>2, ZenonT(60)
<1>10. CASE Stop
  <2> DEFINE q == Append(queue, "StopInLoop")
  <2>q. /\ q \in Seq(AllTasks) /\ Ordered(q)
        /\ \A u : Has(q, u) <=> Has(queue, u) \/ u = "StopInLoop"
    BY <1>10, <1>q, <1>t, AppendTask, ZenonT(60) DEF Stop, ConnectorInv
  <2>r. queue' = q
    BY <1>10, ZenonT(60) DEF Stop
  <2> HIDE DEF q
  <2> USE <1>10, <1>t, <2>q, <2>r DEF Stop, Owner, connector
  <2>1. Places'         BY ClientAssumption DEF TypeOK, Places, Flags
  <2>2. Flags'          BY ZenonT(60) DEF TypeOK, Places, Flags
  <2>3. ConnectorInv'
    BY ZenonT(60) DEF ConnectorInv, ConnectionInv, DestroyedInv, Flags, Places, TypeOK
  <2>4. ConnectionInv'
    BY ZenonT(60) DEF ConnectionInv, DestroyedInv, Flags, Places, TypeOK
  <2>5. DestroyedInv'
    BY ZenonT(60) DEF ConnectorInv, ConnectionInv, DestroyedInv, Flags, Places, TypeOK
  <2>6. Safe'
    BY ZenonT(60) DEF ConnectorInv, ConnectionInv, DestroyedInv, Flags, Places, TypeOK
  <2> QED  BY <2>1, <2>2, <2>3, <2>4, <2>5, <2>6, ZenonT(60) DEF TypeOK
<1>11. CASE Disconnect
  <2> USE <1>11 DEF Disconnect, Owner, connector
  <2>1. Places'         BY ZenonT(60) DEF TypeOK, Places, Flags
  <2>2. Flags'          BY ZenonT(60) DEF TypeOK, Places, Flags
  <2>3. ConnectorInv'
    BY ZenonT(60) DEF ConnectorInv, ConnectionInv, DestroyedInv, Flags, Places, TypeOK
  <2>4. ConnectionInv'
    BY ZenonT(60) DEF ConnectionInv, DestroyedInv, Flags, Places, TypeOK
  <2>5. DestroyedInv'
    BY ZenonT(60) DEF ConnectorInv, ConnectionInv, DestroyedInv, Flags, Places, TypeOK
  <2>6. Safe'
    BY ZenonT(60) DEF ConnectorInv, ConnectionInv, DestroyedInv, Flags, Places, TypeOK
  <2> QED  BY <2>1, <2>2, <2>3, <2>4, <2>5, <2>6, ZenonT(60) DEF TypeOK
<1>12. CASE DisconnectCall
  <2> USE <1>12 DEF DisconnectCall, connector, connection
  <2>1. Places'         BY ZenonT(60) DEF TypeOK, Places, Flags
  <2>2. Flags'          BY ZenonT(60) DEF TypeOK, Places, Flags
  <2>3. ConnectorInv'
    BY ZenonT(60) DEF ConnectorInv, ConnectionInv, DestroyedInv, Flags, Places, TypeOK
  <2>4. ConnectionInv'
    BY ZenonT(60) DEF ConnectionInv, DestroyedInv, Flags, Places, TypeOK
  <2>5. DestroyedInv'
    BY ZenonT(60) DEF ConnectorInv, ConnectionInv, DestroyedInv, Flags, Places, TypeOK
  <2>6. Safe'
    BY ZenonT(60) DEF ConnectorInv, ConnectionInv, DestroyedInv, Flags, Places, TypeOK
  <2> QED  BY <2>1, <2>2, <2>3, <2>4, <2>5, <2>6, ZenonT(60) DEF TypeOK
<1>13. CASE DestroyClient
  <2> DEFINE q == IF connection_ /\ ~in_loop THEN Append(queue, "SetCloseCB")
                  ELSE queue
  <2>q. /\ q \in Seq(AllTasks) /\ Ordered(q) /\ FALSE \in BOOLEAN
        /\ \A u : Has(q, u) <=>
             Has(queue, u) \/ (connection_ /\ ~in_loop /\ u = "SetCloseCB")
    BY <1>q, <1>t, AppendTask, ZenonT(60) DEF ConnectorInv
  <2>s. Settle(conn, q, FALSE, held)
    BY <1>13, ZenonT(60) DEF DestroyClient
  <2> HIDE DEF q
  <2>p. /\ queue' = q /\ connection_' = FALSE /\ held' = held
        /\ dangling' \in BOOLEAN
        /\ \/ /\ \/ conn \in {"none", "gone"} \/ FALSE \/ held
                 \/ Has(q, "SetCloseCB") \/ Has(q, "ConnectDestoryed")
              /\ conn' = conn /\ sock' = sock /\ dangling' = dangling
           \/ /\ conn \notin {"none", "gone"} /\ ~FALSE /\ ~held
              /\ ~Has(q, "SetCloseCB") /\ ~Has(q, "ConnectDestoryed")
              /\ conn' = "gone" /\ sock' = "none"
              /\ conn = "removed" => dangling' = dangling
    BY <2>q, <2>s, SettleParts, ZenonT(60) DEF TypeOK, Flags
  <2>u. hasty' = ( \/ channel_ # "none"
                   \/ \E task \in ConnectorTasks : Has(queue, task)
                   \/ conn = "open" /\ ~(in_loop /\ held))
    BY <1>13, ZenonT(60) DEF DestroyClient, InUse, Has
  <2> USE <1>13, <1>t, <2>q, <2>p, <2>u DEF DestroyClient, ConnectorTasks
  <2>1. Places'         BY ZenonT(60) DEF TypeOK, Places, Flags
  <2>2. Flags'          BY ZenonT(60) DEF TypeOK, Places, Flags
  <2>3. ConnectorInv'
    BY ZenonT(60) DEF ConnectorInv, ConnectionInv, DestroyedInv, Flags, Places, TypeOK
  <2>4. ConnectionInv'
    BY DEF ConnectionInv, DestroyedInv, Flags, Places, TypeOK
  <2>5. DestroyedInv'
    BY ZenonT(60) DEF ConnectorInv, ConnectionInv, DestroyedInv, Flags, Places, TypeOK
  <2>6. Safe'
    BY ZenonT(60) DEF ConnectorInv, ConnectionInv, DestroyedInv, Flags, Places, TypeOK
  <2> QED  BY <2>1, <2>2, <2>3, <2>4, <2>5, <2>6, ZenonT(60) DEF TypeOK
<1>14. CASE UNCHANGED vars
  BY <1>14 DEF vars, connector, connection, owner, TypeOK, Places, Flags,
    ConnectorInv, ConnectionInv, DestroyedInv
<1> QED
  BY <1>1, <1>2, <1>3, <1>4, <1>5, <1>6, <1>7, <1>8, <1>9, <1>10,
     <1>11, <1>12, <1>13, <1>14, ZenonT(60)
  DEF Next, LoopThread, OwnerThread

\* The inductive invariant holds in every state of the client.
LEMMA AlwaysIInv == Spec => []IInv
BY InitIInv, NextIInv, PTL DEF Spec

\* Type correctness of the client.
THEOREM ClientTypeCorrect == Spec => []TypeOK
BY AlwaysIInv, PTL DEF IInv

\* The poller never lists a channel that a retry, ResetChannelPtr or a
\* destructor has destroyed, unless the client or the connection was let go
\* while it was in use.
THEOREM ClientChannelSafe == Spec => []ChannelIsSafe
BY AlwaysIInv, PTL DEF IInv

\* The socket of an attempt is handed from the connector to the connection
\* without being lost or registered twice.
THEOREM ClientSocketOwned == Spec => []SocketIsOwned
BY AlwaysIInv, PTL DEF IInv

\* A client that is destroyed when nothing of it is in use is not called by
\* the loop any more.
THEOREM ClientDestroyedUnused == Spec => []DestroyedIsUnused
BY AlwaysIInv, PTL DEF IInv
=============================================================================
