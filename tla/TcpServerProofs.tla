-------------------------- MODULE TcpServerProofs --------------------------
(***************************************************************************)
(* The connection table and the descriptors of a TcpServer, for any number  *)
(* of loops, connections and descriptors.                                   *)
(***************************************************************************)
EXTENDS TcpServer, WellFoundedInduction, TLAPS

\* The provers a step is tried with, and their time limits.
USE SMTT(30), ZenonT(60)

Queues == [Loops -> Seq(Task)]

InQueue(q, t) == \E l \in Loops : \E i \in 1..Len(q[l]) : q[l][i] = t

\* A connection is queued to be established at most once.
Once(q) ==
  \A l \in Loops, m \in Loops :
    \A i \in 1..Len(q[l]), j \in 1..Len(q[m]) :
      q[l][i] = q[m][j] /\ q[l][i].op = "ConnectEstablished" => l = m /\ i = j

\* A shared_ptr to connection c is in the table, in a task or with the
\* application.
Referenced(table, q, h, c) ==
  \/ \E f \in Fds : table[f] = c
  \/ \E t \in Task : InQueue(q, t) /\ t.conn = c
  \/ c \in h

\* Every connection that was accepted had arrived.
AcceptInv == conns + backlog <= arrivals

\* The destroyed connections are those without a shared_ptr.
GoneInv ==
  /\ gone \subseteq Created
  /\ \A c \in Created :
       c \in gone <=> ~Referenced(connections_, queue, held, c)

\* The numbers below idle_fd_ are taken, the connections are above it, and
\* idle_fd_ itself is what the place in AcceptHandle says.
DescriptorInv ==
  /\ \A c \in Alive : files[fd_[c]] = c /\ fd_[c] > idle_fd_
  /\ \A f \in Fds : files[f] = Dropped => f = idle_fd_ /\ spc = "reclose"
  /\ exists =>
       /\ \A f \in Fds : f < idle_fd_ => files[f] # Free
       /\ spc \in {"loop", "accept", "close"} => files[idle_fd_] = DevNull
       /\ spc \in {"reaccept", "reopen"} => files[idle_fd_] = Free
       /\ spc = "reclose" => files[idle_fd_] \in {Free, Dropped}
  /\ ~exists => spc = "loop"

\* A connection is closed only after it was established.
OrderInv ==
  /\ Once(queue)
  /\ \A t \in Task : InQueue(queue, t) =>
       /\ t.conn <= conns
       /\ t.op = "ConnectEstablished" => state_[t.conn] = "CONNECTING"
       /\ t.op = "RemoveConnectionInLoop" => state_[t.conn] = "DISCONNECTED"
  /\ \A c \in Conns : c > conns => state_[c] = "CONNECTING"
  /\ \A f \in Fds : list[f] # NoConn =>
       list[f] <= conns /\ state_[list[f]] # "CONNECTING"

TableInv ==
  /\ \A f \in Fds : connections_[f] # NoConn =>
       connections_[f] \in Alive /\ fd_[connections_[f]] = f
  /\ exists => \A c \in Alive : state_[c] # "DISCONNECTED" =>
                                  connections_[fd_[c]] = c

Kept == GoneInv /\ DescriptorInv /\ OrderInv /\ TableInv

IInv == TypeOK /\ AcceptInv /\ (disturbed \/ Kept)

\* Until ~TcpServer: a registered channel belongs to a connection that is in
\* the table or about to be removed; an established connection in the table is
\* registered; it is removed only once it is closed and out of the table; and
\* it is closed once close_cb_ has been called.
LifeInv ==
  /\ \A f \in Fds : list[f] # NoConn =>
       /\ fd_[list[f]] = f
       /\ connections_[f] = list[f] \/ InQueue(queue, Do("ConnectDestoryed", list[f]))
  /\ \A c \in Created :
       /\ InQueue(queue, Do("ConnectDestoryed", c)) =>
            state_[c] = "DISCONNECTED" /\ connections_[fd_[c]] # c
       /\ connections_[fd_[c]] = c /\ state_[c] # "CONNECTING" => list[fd_[c]] = c
  /\ \A c \in Conns : closes[c] = 0 <=> state_[c] # "DISCONNECTED"

-----------------------------------------------------------------------------
(* Queues and the lowest free number.                                       *)

\* What LifeInv says of one connection's close_cb_.
LEMMA LifeCloses ==
  ASSUME closes \in [Conns -> 0..MaxCloses], LifeInv, NEW c \in Conns
  PROVE  closes[c] \in Nat /\ (closes[c] = 0 <=> state_[c] # "DISCONNECTED")
<1>1. closes[c] = 0 <=> state_[c] # "DISCONNECTED"
  BY DEF LifeInv
<1> QED BY <1>1

\* QueueInLoop adds one task, and keeps every ConnectEstablished single if this
\* one is not queued yet.
LEMMA AppendQueue ==
  ASSUME NEW q \in Queues, NEW l \in Loops, NEW t \in Task
  PROVE  LET r == [q EXCEPT ![l] = Append(@, t)]
         IN  /\ r \in Queues
             /\ \A u : InQueue(r, u) <=> InQueue(q, u) \/ u = t
             /\ /\ Once(q)
                /\ t.op = "ConnectEstablished" => ~InQueue(q, t)
                => Once(r)
<1> DEFINE r == [q EXCEPT ![l] = Append(@, t)]
<1>1. /\ r \in Queues
      /\ \A m \in Loops : m # l => r[m] = q[m]
      /\ Len(r[l]) = Len(q[l]) + 1 /\ Len(q[l]) \in Nat
      /\ \A i \in 1..Len(q[l]) : r[l][i] = q[l][i]
      /\ r[l][Len(q[l]) + 1] = t
  BY DEF Queues
<1>2. \A u : InQueue(r, u) <=> InQueue(q, u) \/ u = t
  <2> TAKE u
  <2> HIDE DEF r
  <2>1. ASSUME InQueue(r, u) PROVE InQueue(q, u) \/ u = t
    <3>1. PICK m \in Loops : \E i \in 1..Len(r[m]) : r[m][i] = u
      BY <2>1, ZenonT(60) DEF InQueue
    <3>2. PICK i \in 1..Len(r[m]) : r[m][i] = u
      BY <3>1
    <3> QED BY <1>1, <3>2 DEF InQueue
  <2>2. ASSUME InQueue(q, u) PROVE InQueue(r, u)
    <3>1. PICK m \in Loops : \E i \in 1..Len(q[m]) : q[m][i] = u
      BY <2>2 DEF InQueue
    <3>2. PICK i \in 1..Len(q[m]) : q[m][i] = u
      BY <3>1
    <3>3. i \in 1..Len(r[m]) /\ r[m][i] = u
      BY <1>1, <3>2
    <3> QED BY <3>3 DEF InQueue
  <2>3. InQueue(r, t)
    <3>1. Len(q[l]) + 1 \in 1..Len(r[l])
      BY <1>1
    <3> QED BY <1>1, <3>1 DEF InQueue
  <2> QED BY <2>1, <2>2, <2>3
<1>3. ASSUME Once(q), t.op = "ConnectEstablished" => ~InQueue(q, t)
      PROVE  Once(r)
  <2> HIDE DEF r
  <2> SUFFICES ASSUME NEW k \in Loops, NEW m \in Loops,
                      NEW i \in 1..Len(r[k]), NEW j \in 1..Len(r[m]),
                      r[k][i] = r[m][j], r[k][i].op = "ConnectEstablished"
               PROVE  k = m /\ i = j
    BY DEF Once
  <2> DEFINE old(a, b) == b \in 1..Len(q[a])
  <2>1. old(k, i) \/ (k = l /\ i = Len(q[l]) + 1)
    BY <1>1
  <2>2. old(m, j) \/ (m = l /\ j = Len(q[l]) + 1)
    BY <1>1
  <2>3. CASE old(k, i) /\ old(m, j)
    <3>1. q[k][i] = q[m][j] /\ q[k][i].op = "ConnectEstablished"
      BY <1>1, <2>3, ZenonT(60)
    <3>2. i \in 1..Len(q[k]) /\ j \in 1..Len(q[m])
      BY <2>3
    <3> HIDE DEF old
    <3>3. Once(q)
      BY <1>3
    <3> QED BY <3>1, <3>2, <3>3 DEF Once
  <2>4. CASE old(k, i) /\ ~old(m, j)
    <3>1. q[k][i] = t /\ t.op = "ConnectEstablished"
      BY <1>1, <2>2, <2>4
    <3> QED BY <1>3, <2>4, <3>1, ZenonT(60) DEF InQueue
  <2>5. CASE ~old(k, i) /\ old(m, j)
    <3>1. q[m][j] = t /\ t.op = "ConnectEstablished"
      BY <1>1, <2>1, <2>5
    <3> QED BY <1>3, <2>5, <3>1, ZenonT(60) DEF InQueue
  <2> QED BY <2>1, <2>2, <2>3, <2>4, <2>5
<1> QED BY <1>1, <1>2, <1>3, ZenonT(60)

\* Taking the first task of a loop adds none, and a ConnectEstablished that was
\* taken is queued no more.
LEMMA TakeQueue ==
  ASSUME NEW q \in Queues, NEW l \in Loops, q[l] # <<>>
  PROVE  LET r == [q EXCEPT ![l] = Tail(@)]
             t == Head(q[l])
         IN  /\ r \in Queues
             /\ t \in Task /\ InQueue(q, t)
             /\ \A u : InQueue(r, u) => InQueue(q, u)
             /\ \A u : InQueue(q, u) => InQueue(r, u) \/ u = t
             /\ Once(q) =>
                  /\ Once(r)
                  /\ t.op = "ConnectEstablished" => ~InQueue(r, t)
<1> DEFINE r == [q EXCEPT ![l] = Tail(@)]
           t == Head(q[l])
<1>1. /\ r \in Queues
      /\ \A m \in Loops : m # l => r[m] = q[m]
      /\ Len(q[l]) \in Nat \ {0} /\ Len(r[l]) = Len(q[l]) - 1
      /\ \A i \in 1..Len(r[l]) : r[l][i] = q[l][i + 1]
      /\ t = q[l][1] /\ t \in Task
  BY DEF Queues
<1> HIDE DEF r, t
<1>2. InQueue(q, t)
  BY <1>1 DEF InQueue
<1>3. \A m \in Loops : \A i \in 1..Len(r[m]) :
        \E j \in 1..Len(q[m]) : r[m][i] = q[m][j] /\ j = (IF m = l THEN i + 1 ELSE i)
  BY <1>1
<1>4. \A u : InQueue(r, u) => InQueue(q, u)
  <2> TAKE u
  <2> HAVE InQueue(r, u)
  <2>1. PICK m \in Loops : \E i \in 1..Len(r[m]) : r[m][i] = u
    BY DEF InQueue
  <2>2. PICK i \in 1..Len(r[m]) : r[m][i] = u
    BY <2>1
  <2> QED BY <1>3, <2>2 DEF InQueue
<1>5. ASSUME Once(q)
      PROVE  Once(r) /\ (t.op = "ConnectEstablished" => ~InQueue(r, t))
  <2>1. Once(r)
    <3> SUFFICES ASSUME NEW k \in Loops, NEW m \in Loops,
                        NEW i \in 1..Len(r[k]), NEW j \in 1..Len(r[m]),
                        r[k][i] = r[m][j], r[k][i].op = "ConnectEstablished"
                 PROVE  k = m /\ i = j
      BY DEF Once
    <3>1. PICK a \in 1..Len(q[k]) :
            r[k][i] = q[k][a] /\ a = (IF k = l THEN i + 1 ELSE i)
      BY <1>3
    <3>2. PICK b \in 1..Len(q[m]) :
            r[m][j] = q[m][b] /\ b = (IF m = l THEN j + 1 ELSE j)
      BY <1>3, ZenonT(60)
    <3>3. k = m /\ a = b
      <4>1. q[k][a] = q[m][b] /\ q[k][a].op = "ConnectEstablished"
        BY <3>1, <3>2, ZenonT(60)
      <4> QED BY <1>5, <3>1, <3>2, <4>1, ZenonT(60) DEF Once
    <3> QED BY <3>1, <3>2, <3>3
  <2>2. ASSUME t.op = "ConnectEstablished", InQueue(r, t) PROVE FALSE
    <3>1. PICK m \in Loops : \E i \in 1..Len(r[m]) : r[m][i] = t
      BY <2>2 DEF InQueue
    <3>2. PICK i \in 1..Len(r[m]) : r[m][i] = t
      BY <3>1
    <3>3. PICK a \in 1..Len(q[m]) :
            r[m][i] = q[m][a] /\ a = (IF m = l THEN i + 1 ELSE i)
      BY <1>3
    <3>4. m = l /\ a = 1
      <4>1. q[m][a] = q[l][1] /\ q[m][a].op = "ConnectEstablished"
        BY <1>1, <2>2, <3>2, <3>3
      <4>2. 1 \in 1..Len(q[l])
        BY <1>1
      <4> QED BY <1>5, <4>1, <4>2, ZenonT(60) DEF Once
    <3> QED BY <3>3, <3>4
  <2> QED BY <2>1, <2>2
<1>6. \A u : InQueue(q, u) => InQueue(r, u) \/ u = t
  <2> TAKE u
  <2> HAVE InQueue(q, u)
  <2>1. PICK m \in Loops : \E i \in 1..Len(q[m]) : q[m][i] = u
    BY DEF InQueue
  <2>2. PICK i \in 1..Len(q[m]) : q[m][i] = u
    BY <2>1
  <2>3. CASE m = l /\ i = 1
    BY <1>1, <2>2, <2>3
  <2>4. CASE m = l /\ i # 1
    <3>1. i - 1 \in 1..Len(r[l]) /\ r[l][i - 1] = u
      BY <1>1, <2>2, <2>4
    <3> QED BY <3>1 DEF InQueue
  <2>5. CASE m # l
    BY <1>1, <2>2, <2>5 DEF InQueue
  <2> QED BY <2>3, <2>4, <2>5
<1> QED BY <1>1, <1>2, <1>4, <1>5, <1>6, ZenonT(60) DEF r, t

\* accept and open return the lowest descriptor that is free.
LEMMA LowestIsFree ==
  ASSUME FreeFds # {}
  PROVE  Lowest \in FreeFds /\ \A g \in FreeFds : Lowest <= g
<1>1. FreeFds \subseteq Nat
  BY ServerAssumption DEF FreeFds, Fds
<1>2. \E f \in FreeFds : \A g \in FreeFds : ~(<<g, f>> \in OpToRel(<, Nat))
  BY <1>1, NatLessThanWellFounded, WFMin, ZenonT(60)
<1>3. \E f \in FreeFds : \A g \in FreeFds : f <= g
  <2>1. \A f \in Nat, g \in Nat : g < f => <<g, f>> \in OpToRel(<, Nat)
    BY DEF OpToRel
  <2>2. PICK f \in FreeFds : \A g \in FreeFds : ~(<<g, f>> \in OpToRel(<, Nat))
    BY <1>2, ZenonT(60)
  <2>3. \A g \in FreeFds : ~(g < f)
    BY <1>1, <2>1, <2>2, ZenonT(60)
  <2> QED BY <1>1, <2>3
<1> QED BY <1>3 DEF Lowest

\* The loop a connection is given is one the pool has started.
LEMMA LoopOfIsLoop ==
  ASSUME TypeOK, NEW f \in Fds
  PROVE  LoopOf(f) \in Loops /\ LoopOf(f) <= loop_list_
<1>1. loop_list_ \in Nat /\ loop_list_ <= hardware_concurrency /\ f \in Int
  BY ServerAssumption DEF TypeOK, Counts, Loops, Fds
<1>2. loop_list_ # 0 => f % loop_list_ \in 0..(loop_list_ - 1)
  BY <1>1
<1> QED BY <1>1, <1>2, ServerAssumption DEF LoopOf, Loops

\* The acceptor's own loop is a loop.
LEMMA LoopZero == 0 \in Loops
BY ServerAssumption DEF Loops

\* What the record of a task holds.
LEMMA TaskIs ==
  ASSUME NEW c \in Conns,
         NEW op \in {"ConnectEstablished", "RemoveConnectionInLoop", "ConnectDestoryed"}
  PROVE  Do(op, c) \in Task /\ Do(op, c).op = op /\ Do(op, c).conn = c
BY DEF Task, Do

\* Two tasks that do the same to the same connection are the same task.
LEMMA TaskEqual ==
  ASSUME NEW t \in Task, NEW u \in Task, t.op = u.op, t.conn = u.conn
  PROVE  t = u
BY DEF Task, Do

\* Every task but Listen is for a connection.
LEMMA ForConn ==
  ASSUME NEW t \in Task, t.op # "Listen"
  PROVE  t.conn \in Conns /\ t = Do(t.op, t.conn)
BY DEF Task, Do

\* The task that removes the channel of connection c.
Destroy(c) == Do("ConnectDestoryed", c)

\* It is another one for every connection, and no task that does anything else.
LEMMA DestroyIs ==
  ASSUME NEW c \in Conns
  PROVE  /\ Destroy(c) \in Task /\ Destroy(c).conn = c
         /\ \A d \in Conns : Destroy(d) = Destroy(c) => d = c
         /\ \A t \in Task : t.op # "ConnectDestoryed" => Destroy(c) # t
<1>1. \A d \in Conns : /\ Destroy(d) \in Task /\ Destroy(d).conn = d
                       /\ Destroy(d).op = "ConnectDestoryed"
  BY TaskIs DEF Destroy
<1> QED BY <1>1, ZenonT(60)

\* The connections to destroy are those no shared_ptr is left to.
LEMMA UnreferencedIs ==
  ASSUME NEW table, NEW q \in Queues, NEW h, NEW c
  PROVE  c \in Unreferenced(table, q, h) <=>
           c \in Created /\ ~Referenced(table, q, h, c)
<1>1. \A l \in Loops : \A i \in 1..Len(q[l]) : q[l][i] \in Task
  BY DEF Queues
<1>2. (\E l \in Loops : \E i \in 1..Len(q[l]) : q[l][i].conn = c) <=>
        (\E t \in Task : InQueue(q, t) /\ t.conn = c)
  BY <1>1 DEF InQueue
<1> QED BY <1>2 DEF Unreferenced, Referenced, Created

-----------------------------------------------------------------------------
(* Types.                                                                   *)

\* Destroying connections keeps the types.
LEMMA DropType ==
  ASSUME NEW table \in [Fds -> Conns \cup {NoConn}], NEW q \in Queues,
         NEW h \in SUBSET Conns, NEW fs \in [Fds -> -4..MaxArrivals],
         Drop(table, q, h, fs), conns \in 0..MaxArrivals
  PROVE  /\ connections_' \in [Fds -> Conns \cup {NoConn}]
         /\ files' \in [Fds -> -4..MaxArrivals]
         /\ held' \subseteq Conns /\ gone' \subseteq Conns
         /\ queue' \in Queues
<1>1. MaxArrivals \in Nat
  BY ServerAssumption
<1>2. gone' \subseteq Conns
  BY <1>1 DEF Drop, Unreferenced, Conns
<1>3. files' \in [Fds -> -4..MaxArrivals]
  BY <1>1 DEF Drop, Free
<1> QED BY <1>2, <1>3 DEF Drop

\* A server just constructed satisfies the inductive invariant.
LEMMA InitIInv == Init => IInv
<1> SUFFICES ASSUME Init PROVE IInv
  OBVIOUS
<1> USE ServerAssumption
<1>1. TypeOK
  <2>1. Flags
    BY ZenonT(60) DEF Init, Flags
  <2>2. Counts
    BY DEF Init, Counts, Loops
  <2>3. Tables
    BY DEF Init, Tables, Fds, Conns, NoConn, socket_, idle_fd_, Free, App,
           Listening, DevNull
  <2>4. queue \in [Loops -> Seq(Task)]
    BY DEF Init
  <2> QED BY <2>1, <2>2, <2>3, <2>4 DEF TypeOK, Init
<1>2. AcceptInv
  BY DEF Init, AcceptInv
<1>3. Created = {} /\ Alive = {}
  BY DEF Init, Created, Alive
<1>4. GoneInv
  BY <1>3 DEF Init, GoneInv
<1>5. DescriptorInv
  BY <1>3 DEF Init, DescriptorInv, Fds, socket_, idle_fd_, Free, App, Listening,
              DevNull, Dropped
<1>6. \A t : ~InQueue(queue, t)
  BY DEF Init, InQueue
<1>7. OrderInv
  BY <1>6 DEF Init, OrderInv, Once, NoConn, Conns
<1>8. TableInv
  BY <1>3 DEF Init, TableInv
<1> QED BY <1>1, <1>2, <1>4, <1>5, <1>7, <1>8 DEF IInv, Kept

\* Every step keeps the types.
LEMMA NextType == TypeOK /\ AcceptInv /\ Next => TypeOK' /\ AcceptInv'
<1> SUFFICES ASSUME TypeOK, AcceptInv, Next PROVE TypeOK' /\ AcceptInv'
  OBVIOUS
<1> USE DEF AcceptInv
<1>0. /\ hardware_concurrency \in Nat /\ MaxArrivals \in Nat /\ MaxOpens \in Nat
      /\ MaxCloses \in Nat /\ FdLimit \in Nat /\ LowFds \in Nat
      /\ idle_fd_ \in Fds /\ socket_ \in Fds
  BY ServerAssumption DEF idle_fd_, socket_, Fds
<1>1. queue \in Queues /\ Flags /\ Counts /\ Tables
  BY DEF TypeOK, Queues
<1>2. ASSUME NEW n \in ThreadNums, SetThreadNum(n)
      PROVE  TypeOK' /\ AcceptInv'
  <2>1. thread_num_' \in Loops
    BY <1>0, <1>2, ServerAssumption DEF SetThreadNum, Loops
  <2> QED BY <1>1, <1>2, <2>1
          DEF SetThreadNum, TypeOK, Flags, Counts, Tables, app, socket, objects
<1>3. CASE Start
  <2>1. 0 \in Loops /\ Do("Listen", NoConn) \in Task
    BY <1>0 DEF Loops, Task
  <2>2. queue' \in Queues
    BY <1>1, <1>3, <2>1, AppendQueue, ZenonT(60) DEF Start
  <2>3. Flags'
    BY <1>1, <1>3, ZenonT(60) DEF Start, Flags, app, socket
  <2> QED BY <1>1, <1>3, <2>2, <2>3
          DEF Start, Initialize, TypeOK, Counts, Tables, app, socket, objects, Queues
<1>4. CASE Arrive
  <2>1. Flags'
    BY <1>1, <1>4, ZenonT(60) DEF Arrive, Flags, app, config
  <2>2. Counts' /\ AcceptInv'
    BY <1>0, <1>1, <1>4 DEF Arrive, Counts, app, config, objects
  <2> QED BY <1>1, <1>4, <2>1, <2>2
          DEF Arrive, TypeOK, Tables, objects
<1>5. CASE AcceptEvent
  <2>1. Flags'
    BY <1>1, <1>5, ZenonT(60) DEF AcceptEvent, Flags, app, config
  <2> QED BY <1>1, <1>5, <2>1
          DEF AcceptEvent, TypeOK, Counts, Tables, app, config, objects
<1>6. CASE AcceptNew
  <2> DEFINE f == Lowest
             c == conns + 1
             table == [connections_ EXCEPT ![f] = c]
             q == [queue EXCEPT ![LoopOf(f)] =
                     Append(@, Do("ConnectEstablished", c))]
             fs == [files EXCEPT ![f] = c]
  <2>1. f \in Fds
    BY <1>6, LowestIsFree DEF AcceptNew, FreeFds
  <2>2. c \in Conns /\ c \in Int /\ -4 <= c /\ c <= MaxArrivals
    BY <1>0, <1>1, <1>6 DEF AcceptNew, Conns, Counts
  <2>3. /\ Drop(table, q, held, fs) /\ conns' = c
        /\ fd_' = [fd_ EXCEPT ![c] = f]
    BY <1>6 DEF AcceptNew, NewConnected
  <2>4. q \in Queues
    <3>1. Do("ConnectEstablished", c) \in Task
      BY <2>2 DEF Task, Do
    <3> HIDE DEF f, c
    <3> QED BY <1>1, <2>1, <3>1, LoopOfIsLoop, AppendQueue
  <2>5. table \in [Fds -> Conns \cup {NoConn}] /\ fs \in [Fds -> -4..MaxArrivals]
        /\ fd_' \in [Conns -> Fds]
    <3> HIDE DEF f, c
    <3> QED BY <1>0, <1>1, <2>1, <2>2, <2>3 DEF Tables
  <2>6. /\ connections_' \in [Fds -> Conns \cup {NoConn}]
        /\ files' \in [Fds -> -4..MaxArrivals]
        /\ held' \subseteq Conns /\ gone' \subseteq Conns
        /\ queue' \in Queues
    <3>1. held \in SUBSET Conns /\ conns \in 0..MaxArrivals
      BY <1>1 DEF Tables, Counts
    <3> HIDE DEF table, q, fs
    <3> QED BY <2>3, <2>4, <2>5, <3>1, DropType, ZenonT(60)
  <2>7. Flags' /\ spc' = spc
    BY <1>1, <1>6, ZenonT(60) DEF AcceptNew, Flags, app, config
  <2>8. Counts' /\ AcceptInv'
    BY <1>0, <1>1, <1>6, <2>3 DEF AcceptNew, Counts, app, config
  <2> QED BY <1>1, <1>6, <2>5, <2>6, <2>7, <2>8
          DEF AcceptNew, TypeOK, Tables, Queues
<1>7. CASE AcceptAgain
  BY <1>1, <1>7 DEF AcceptAgain, TypeOK, Flags, Counts, Tables, app, config,
                    objects, socket
<1>8. CASE AcceptFails
  <2>1. backlog' \in 0..MaxArrivals /\ AcceptInv'
    BY <1>0, <1>1, <1>8 DEF AcceptFails, AcceptError, Counts, objects
  <2> QED BY <1>1, <1>8, <2>1, ZenonT(60) DEF AcceptFails, TypeOK, Flags, Counts, Tables,
                                  app, config, objects
<1>9. ASSUME NEW from, NEW to \in {"accept", "reaccept", "reclose", "reopen"},
             NEW fs \in [Fds -> -4..MaxArrivals],
             Recover(from, to, fs),
             backlog' = backlog \/ (backlog > 0 /\ backlog' = backlog - 1)
      PROVE  TypeOK' /\ AcceptInv'
  <2>1. backlog' \in 0..MaxArrivals /\ AcceptInv'
    BY <1>0, <1>1, <1>9 DEF Recover, Counts, objects
  <2> QED BY <1>1, <1>9, <2>1, ZenonT(60) DEF Recover, TypeOK, Flags, Counts, Tables,
                                  app, config, objects
<1>10. ASSUME NEW v \in -4..0
       PROVE  /\ [files EXCEPT ![idle_fd_] = v] \in [Fds -> -4..MaxArrivals]
              /\ [files EXCEPT ![Lowest] = v] \in [Fds -> -4..MaxArrivals]
  <2>1. v \in -4..MaxArrivals
    BY <1>0
  <2> QED BY <1>1, <2>1, ZenonT(60) DEF Tables
<1>11. ASSUME NEW from, NEW to \in {"reaccept", "reopen"}, CloseIdle(from, to)
       PROVE  TypeOK' /\ AcceptInv'
  <2>1. [files EXCEPT ![idle_fd_] = Free] \in [Fds -> -4..MaxArrivals]
    BY <1>10 DEF Free
  <2>2. Recover(from, to, [files EXCEPT ![idle_fd_] = Free]) /\ backlog' = backlog
    BY <1>11 DEF CloseIdle
  <2> QED BY <1>9, <2>1, <2>2, ZenonT(60)
<1>12. CASE Reaccept
  <2>1. PICK fs \in {files, [files EXCEPT ![Lowest] = Dropped]} :
          /\ Recover("reaccept", "reclose", fs)
          /\ backlog' = backlog \/ (backlog > 0 /\ backlog' = backlog - 1)
    BY <1>12, ZenonT(60) DEF Reaccept, AcceptError
  <2>2. fs \in [Fds -> -4..MaxArrivals]
    BY <1>1, <1>10, <2>1 DEF Tables, Dropped
  <2> QED BY <1>9, <2>1, <2>2
<1>13. CASE Reopen
  <2>1. PICK fs \in {files, [files EXCEPT ![Lowest] = DevNull]} :
          Recover("reopen", "accept", fs) /\ backlog' = backlog
    BY <1>13, ZenonT(60) DEF Reopen
  <2>2. fs \in [Fds -> -4..MaxArrivals]
    BY <1>1, <1>10, <2>1 DEF Tables, DevNull
  <2> QED BY <1>9, <2>1, <2>2, ZenonT(60)
<1>27. CASE ReopenFails
  BY <1>1, <1>27, ZenonT(60) DEF ReopenFails, TypeOK, Flags, Counts, Tables, app, config,
                      objects, socket
<1> DEFINE DropOK == /\ connections_' \in [Fds -> Conns \cup {NoConn}]
                     /\ files' \in [Fds -> -4..MaxArrivals]
                     /\ held' \subseteq Conns /\ gone' \subseteq Conns
                     /\ queue' \in Queues
<1>14. ASSUME NEW table \in [Fds -> Conns \cup {NoConn}], NEW q \in Queues,
              NEW h \in SUBSET Conns, Drop(table, q, h, files)
       PROVE  DropOK
  BY <1>1, <1>14, DropType, ZenonT(60) DEF Tables, Counts
<1>15. ASSUME NEW l \in Loops, queue[l] # <<>>
       PROVE  /\ [queue EXCEPT ![l] = Tail(@)] \in Queues
              /\ Head(queue[l]) \in Task
  BY <1>1, <1>15, TakeQueue, ZenonT(60)
<1>16. \A t \in Task : t.op # "Listen" => t.conn \in Conns
  BY DEF Task, Do
<1>17. ASSUME NEW c \in Conns, NEW q \in Queues, RemoveConnectionInLoop(c, q)
       PROVE  DropOK
  <2> DEFINE table == [connections_ EXCEPT ![fd_[c]] = NoConn]
             r == [q EXCEPT ![LoopOf(fd_[c])] = Append(@, Do("ConnectDestoryed", c))]
  <2>1. table \in [Fds -> Conns \cup {NoConn}] /\ fd_[c] \in Fds
        /\ held \in SUBSET Conns
    BY <1>1, ZenonT(60) DEF Tables
  <2>2. Do("ConnectDestoryed", c) \in Task
    BY ZenonT(60) DEF Task, Do
  <2>3. r \in Queues
    BY <2>1, <2>2, LoopOfIsLoop, AppendQueue, ZenonT(60)
  <2>4. Drop(table, r, held, files)
    BY <1>17, ZenonT(60) DEF RemoveConnectionInLoop
  <2> HIDE DEF table, r
  <2> QED BY <1>14, <2>1, <2>3, <2>4, ZenonT(60)
<1> HIDE DEF DropOK
<1>18. CASE Listen
  <2>1. queue' \in Queues
    <3>1. 0 \in Loops
      BY <1>0 DEF Loops
    <3> QED BY <1>15, <1>18, <3>1, ZenonT(60) DEF Listen, Task1
  <2>2. Flags'
    BY <1>1, <1>18, ZenonT(60) DEF Listen, Flags, app, config
  <2> QED BY <1>1, <1>18, <2>1, <2>2, ZenonT(60)
          DEF Listen, TypeOK, Counts, Tables, app, config, objects, Queues
<1>19. ASSUME NEW l \in Loops, ConnectEstablished(l)
       PROVE  TypeOK' /\ AcceptInv'
  <2> DEFINE c == Head(queue[l]).conn
             q == [queue EXCEPT ![l] = Tail(@)]
  <2>1. c \in Conns /\ q \in Queues
    <3>1. queue[l] # <<>> /\ Head(queue[l]).op = "ConnectEstablished"
      BY <1>19, ZenonT(60) DEF ConnectEstablished, Task1
    <3> QED BY <1>15, <1>16, <3>1, ZenonT(60)
  <2>2. PICK h \in {held, held \cup {c}} : Drop(connections_, q, h, files)
    BY <1>19, ZenonT(60) DEF ConnectEstablished
  <2>3. h \in SUBSET Conns /\ connections_ \in [Fds -> Conns \cup {NoConn}]
    <3> HIDE DEF c, q
    <3> QED BY <1>1, <2>1, <2>2, ZenonT(60) DEF Tables
  <2>4. DropOK
    <3> HIDE DEF c, q
    <3> QED BY <1>14, <2>1, <2>2, <2>3, ZenonT(60)
  <2>5. list' \in [Fds -> Conns \cup {NoConn}] /\ state_' \in
          [Conns -> {"CONNECTING", "CONNECTED", "DISCONNECTED"}]
    <3>1. /\ list' = [list EXCEPT ![fd_[c]] = c]
          /\ state_' = [state_ EXCEPT ![c] = "CONNECTED"]
      BY <1>19, ZenonT(60) DEF ConnectEstablished
    <3> HIDE DEF c, q
    <3> QED BY <1>1, <2>1, <3>1, ZenonT(60) DEF Tables
  <2> QED BY <1>1, <1>19, <2>4, <2>5, ZenonT(60)
          DEF ConnectEstablished, TypeOK, Flags, Counts, Tables, app, config,
              socket, DropOK, Queues
<1>20. CASE RunRemoveConnection
  <2>1. queue[0] # <<>> /\ Head(queue[0]).op = "RemoveConnectionInLoop" /\ 0 \in Loops
    BY <1>0, <1>20 DEF RunRemoveConnection, Task1, Loops
  <2>2. DropOK
    BY <1>15, <1>16, <1>17, <1>20, <2>1, ZenonT(60) DEF RunRemoveConnection
  <2> QED BY <1>1, <1>20, <2>2, ZenonT(60)
          DEF RunRemoveConnection, TypeOK, Flags, Counts, Tables, app, config,
              socket, objects, DropOK, Queues
<1>21. ASSUME NEW l \in Loops, ConnectDestoryed(l)
       PROVE  TypeOK' /\ AcceptInv'
  <2>1. queue[l] # <<>> /\ held \in SUBSET Conns
        /\ connections_ \in [Fds -> Conns \cup {NoConn}]
    BY <1>1, <1>21, ZenonT(60) DEF ConnectDestoryed, Task1, Tables
  <2>2. DropOK
    BY <1>14, <1>15, <1>21, <2>1, ZenonT(60) DEF ConnectDestoryed
  <2>3. list' \in [Fds -> Conns \cup {NoConn}]
    BY <1>1, <1>21, ZenonT(60) DEF ConnectDestoryed, Tables
  <2> QED BY <1>1, <1>21, <2>2, <2>3, ZenonT(60)
          DEF ConnectDestoryed, TypeOK, Flags, Counts, Tables, app, config,
              socket, objects, DropOK, Queues
<1>22. ASSUME NEW c \in Conns, CloseHandler(c)
       PROVE  TypeOK' /\ AcceptInv'
  <2>1. DropOK
    <3>1. CASE loop_list_ = 0
      BY <1>1, <1>17, <1>22, <3>1, ZenonT(60) DEF CloseHandler
    <3>2. CASE loop_list_ # 0
      <4>1. Do("RemoveConnectionInLoop", c) \in Task /\ 0 \in Loops
        BY TaskIs, LoopZero, ZenonT(60)
      <4>2. queue' \in Queues
        BY <1>1, <1>22, <3>2, <4>1, AppendQueue DEF CloseHandler
      <4> QED BY <1>1, <1>22, <3>2, <4>2, ZenonT(60) DEF CloseHandler, DropOK, Tables
    <3> QED BY <3>1, <3>2, ZenonT(60)
  <2>2. state_' \in [Conns -> {"CONNECTING", "CONNECTED", "DISCONNECTED"}]
    BY <1>1, <1>22, ZenonT(60) DEF CloseHandler, Tables
  <2>3. closes' \in [Conns -> 0..MaxCloses]
    BY <1>0, <1>1, <1>22 DEF CloseHandler, Tables
  <2> QED BY <1>1, <1>22, <2>1, <2>2, <2>3, ZenonT(60)
          DEF CloseHandler, TypeOK, Flags, Counts, Tables, app, config,
              socket, DropOK, Queues
<1>23. ASSUME NEW c \in Conns, Release(c)
       PROVE  TypeOK' /\ AcceptInv'
  <2>1. held \ {c} \in SUBSET Conns
        /\ connections_ \in [Fds -> Conns \cup {NoConn}]
    BY <1>1, ZenonT(60) DEF Tables
  <2>2. DropOK
    BY <1>1, <1>14, <1>23, <2>1, ZenonT(60) DEF Release
  <2> QED BY <1>1, <1>23, <2>2, ZenonT(60)
          DEF Release, TypeOK, Flags, Counts, Tables, app, config,
              socket, objects, DropOK, Queues
<1>24. CASE AppOpen
  <2>1. files' \in [Fds -> -4..MaxArrivals] /\ opens' \in 0..MaxOpens
    BY <1>0, <1>1, <1>10, <1>24 DEF AppOpen, App, Counts
  <2>2. disturbed' \in BOOLEAN
    BY <1>24, ZenonT(60) DEF AppOpen
  <2> QED BY <1>1, <1>24, <2>1, <2>2, ZenonT(60)
          DEF AppOpen, TypeOK, Flags, Counts, Tables, config, socket, objects
<1>25. ASSUME NEW f \in Fds, AppClose(f)
       PROVE  TypeOK' /\ AcceptInv'
  <2>1. files' \in [Fds -> -4..MaxArrivals]
    BY <1>0, <1>1, <1>25 DEF AppClose, Tables, Free
  <2>2. disturbed' \in BOOLEAN
    BY <1>25, ZenonT(60) DEF AppClose
  <2> QED BY <1>1, <1>25, <2>1, <2>2, ZenonT(60)
          DEF AppClose, TypeOK, Flags, Counts, Tables, config, socket, objects
<1>26. CASE DestroyServer
  <2>1. /\ [f \in Fds |-> NoConn] \in [Fds -> Conns \cup {NoConn}]
        /\ held \in SUBSET Conns /\ conns \in 0..MaxArrivals
        /\ [files EXCEPT ![socket_] = Free, ![idle_fd_] = Free]
             \in [Fds -> -4..MaxArrivals]
    BY <1>0, <1>1 DEF Tables, Counts, Free
  <2>2. DropOK
    BY <1>1, <1>26, <2>1, DropType, ZenonT(60) DEF DestroyServer, DropOK
  <2>3. Flags'
    BY <1>1, <1>26, ZenonT(60) DEF DestroyServer, Flags, app, config, socket
  <2> QED BY <1>1, <1>26, <2>2, <2>3, ZenonT(60)
          DEF DestroyServer, TypeOK, Counts, Tables, app, config,
              socket, objects, DropOK, Queues
<1> QED
  BY <1>2, <1>3, <1>4, <1>5, <1>6, <1>7, <1>8, <1>11, <1>12, <1>13, <1>18, ZenonT(60),
     <1>19, <1>20, <1>21, <1>22, <1>23, <1>24, <1>25, <1>26, <1>27
  DEF Next, Environment, Loop, AcceptHandle

-----------------------------------------------------------------------------
(* Descriptors and references, as long as nothing is disturbed.             *)

\* Giving up references destroys the connections that lost their last one and
\* closes their descriptors, and no other.
LEMMA DropKeeps ==
  ASSUME TypeOK, GoneInv, DescriptorInv,
         NEW table, NEW q \in Queues, NEW h, NEW fs, Drop(table, q, h, fs),
         conns' = conns, fd_' = fd_, spc' = spc,
         \A c \in gone : ~Referenced(table, q, h, c),
         \A f \in Fds : \/ fs[f] = files[f]
                        \/ ~exists' /\ f <= idle_fd_ /\ fs[f] = Free,
         exists' => exists, ~exists' => spc = "loop"
  PROVE  /\ GoneInv' /\ DescriptorInv'
         /\ Created' = Created /\ Alive' \subseteq Alive
         /\ \A c \in Created : Referenced(table, q, h, c) => c \in Alive'
<1>1. /\ connections_' = table /\ queue' = q /\ held' = h
      /\ \A c : c \in gone' <=> c \in Created /\ ~Referenced(table, q, h, c)
      /\ Created' = Created
  BY UnreferencedIs, ZenonT(60) DEF Drop, Created
<1>2. GoneInv'
  <2>1. \A c : Referenced(table, q, h, c) <=>
                 Referenced(connections_, queue, held, c)'
    BY <1>1, ZenonT(60) DEF Referenced, InQueue
  <2> QED BY <1>1, <2>1, ZenonT(60) DEF GoneInv
<1>3. gone \subseteq gone' /\ Alive' \subseteq Alive
  BY <1>1, ZenonT(60) DEF GoneInv, Alive
<1>4. \A c \in Created : Referenced(table, q, h, c) => c \in Alive'
  BY <1>1, ZenonT(60) DEF Alive
<1>5. LowFds \in Nat /\ idle_fd_ \in Fds /\ idle_fd_ \in Nat /\ Fds \subseteq Nat
  BY ServerAssumption DEF idle_fd_, Fds
<1>6. \A c \in Alive : c \in Conns /\ fd_[c] \in Fds /\ ~(fd_[c] <= idle_fd_)
  <2>1. MaxArrivals \in Nat /\ conns \in Nat /\ conns <= MaxArrivals
    BY ServerAssumption DEF TypeOK, Counts
  <2>2. \A c \in Alive : c \in Conns
    BY <2>1 DEF Alive, Created, Conns
  <2>3. \A c \in Conns : fd_[c] \in Fds
    BY ZenonT(60) DEF TypeOK, Tables
  <2>4. \A f \in Fds : f > idle_fd_ => ~(f <= idle_fd_)
    BY <1>5
  <2> QED BY <2>2, <2>3, <2>4, ZenonT(60) DEF DescriptorInv
<1>7. /\ \A f \in Fds : \/ files'[f] = fs[f]
                        \/ /\ files'[f] = Free
                           /\ \E c \in gone' \ gone : fd_[c] = f
      /\ \A c \in gone' \ gone : c \in Alive
  BY <1>1, ZenonT(60) DEF Drop, Alive
<1>8. \A f \in Fds : f <= idle_fd_ => files'[f] = fs[f]
  <2> TAKE f \in Fds
  <2> HAVE f <= idle_fd_
  <2>1. ASSUME NEW c \in gone' \ gone PROVE fd_[c] # f
    <3>1. c \in Alive
      BY <1>7, ZenonT(60)
    <3>2. ~(fd_[c] <= idle_fd_)
      BY <1>6, <3>1, ZenonT(60)
    <3> QED BY <3>2, ZenonT(60)
  <2> QED BY <1>7, <2>1, ZenonT(60)
<1>9. \A c \in Alive' : files'[fd_[c]] = c /\ fd_[c] > idle_fd_
  <2> TAKE c \in Alive'
  <2>1. c \in Alive /\ files[fd_[c]] = c /\ fd_[c] > idle_fd_ /\ c \notin gone'
    BY <1>3, ZenonT(60) DEF DescriptorInv, Alive
  <2>2. fs[fd_[c]] = files[fd_[c]]
    BY <1>6, <2>1, ZenonT(60)
  <2>3. \A d \in gone' \ gone : fd_[d] # fd_[c]
    <3> TAKE d \in gone' \ gone
    <3>1. d \in Alive /\ d # c
      BY <1>7, <2>1, ZenonT(60)
    <3>2. files[fd_[d]] = d
      BY <3>1, ZenonT(60) DEF DescriptorInv
    <3> QED BY <2>1, <3>1, <3>2, ZenonT(60)
  <2> QED BY <1>6, <1>7, <2>1, <2>2, <2>3, ZenonT(60)
<1>10. DescriptorInv'
  <2>1. \A f \in Fds : files'[f] = Dropped => f = idle_fd_ /\ spc' = "reclose"
    BY <1>7 DEF DescriptorInv, Free, Dropped
  <2>2. exists' =>
          /\ \A f \in Fds : f < idle_fd_ => files'[f] # Free
          /\ files'[idle_fd_] = files[idle_fd_]
    BY <1>5, <1>8 DEF DescriptorInv
  <2> QED BY <1>9, <2>1, <2>2, ZenonT(60) DEF DescriptorInv
<1> QED BY <1>1, <1>2, <1>3, <1>4, <1>10, ZenonT(60)

\* What the table and the states must be like after a step.
LEMMA StateKeeps ==
  ASSUME TypeOK, Kept, Created' = Created, Alive' \subseteq Alive,
         fd_' = fd_, exists' => exists,
         \A f \in Fds : connections_'[f] # NoConn =>
           connections_'[f] = connections_[f] /\ connections_[f] \in Alive',
         exists' => \A c \in Alive' : state_'[c] # "DISCONNECTED" =>
           /\ state_[c] # "DISCONNECTED"
           /\ connections_'[fd_[c]] = connections_[fd_[c]]
  PROVE  TableInv'
  BY ZenonT(60) DEF TableInv, Kept

\* Every step keeps the table, the descriptors and the order of the tasks, as
\* long as nothing is disturbed.
LEMMA NextKept ==
  TypeOK /\ AcceptInv /\ Kept /\ Next /\ TypeOK' /\ ~disturbed' => Kept'
<1> SUFFICES ASSUME TypeOK, AcceptInv, Kept, Next, TypeOK', ~disturbed'
             PROVE  Kept'
  OBVIOUS
<1>0. /\ LowFds \in Nat /\ idle_fd_ \in Fds /\ socket_ \in Fds
      /\ idle_fd_ \in Nat /\ Fds \subseteq Nat /\ 0 \in Loops
      /\ socket_ < idle_fd_
  BY ServerAssumption DEF idle_fd_, socket_, Fds, Loops
<1>1. /\ queue \in Queues /\ GoneInv /\ DescriptorInv /\ OrderInv /\ TableInv
      /\ files \in [Fds -> -4..MaxArrivals]
      /\ connections_ \in [Fds -> Conns \cup {NoConn}]
      /\ list \in [Fds -> Conns \cup {NoConn}] /\ fd_ \in [Conns -> Fds]
      /\ state_ \in [Conns -> {"CONNECTING", "CONNECTED", "DISCONNECTED"}]
      /\ conns \in Nat
  <2>1. conns \in Nat
    BY DEF TypeOK, Counts
  <2> QED BY <2>1, ZenonT(60) DEF TypeOK, Tables, Queues, Kept
<1>2. /\ Created \subseteq Conns /\ Alive \subseteq Conns /\ NoConn \notin Conns
      /\ NoConn \notin Created /\ \A c \in Created : c \in Nat /\ c > 0
      /\ \A c \in Nat : c \in Created <=> c # 0 /\ c <= conns
      /\ Conns \subseteq Nat
  <2>1. MaxArrivals \in Nat /\ conns <= MaxArrivals
    BY ServerAssumption DEF TypeOK, Counts
  <2> QED BY <1>1, <2>1 DEF Created, Alive, Conns, NoConn
<1>3. \A t \in Task : /\ t.op # "Listen" => t.conn \in Conns
                      /\ t.op = "Listen" => t.conn = NoConn
  BY DEF Task, Do
<1>4. \A c \in Alive : fd_[c] \in Fds /\ fd_[c] > idle_fd_ /\ fd_[c] # idle_fd_
  BY <1>0, <1>1, <1>2 DEF DescriptorInv
<1>5. \A f \in Fds : /\ f < idle_fd_ => f # idle_fd_
                     /\ f <= idle_fd_ => f < idle_fd_ \/ f = idle_fd_
                     /\ f > idle_fd_ => ~(f <= idle_fd_)
  BY <1>0
<1>24. \A u : InQueue(queue', u) <=> InQueue(queue, u)'
  BY ZenonT(60) DEF InQueue
<1>25. Once(queue') => Once(queue)'
  BY ZenonT(60) DEF Once
\* Steps that leave the connections alone.
<1>6. ASSUME UNCHANGED <<connections_, list, objects, held, gone, queue, exists>>,
             DescriptorInv'
      PROVE  Kept'
  <2>1. GoneInv'
    BY <1>1, <1>6 DEF GoneInv, Referenced, InQueue, Created, objects
  <2>2. OrderInv'
    <3>1. /\ queue' = queue /\ list' = list /\ conns' = conns /\ state_' = state_
      BY <1>6, ZenonT(60) DEF objects
    <3> QED BY <1>1, <1>24, <1>25, <3>1, ZenonT(60) DEF OrderInv
  <2>3. TableInv'
    BY <1>1, <1>6, ZenonT(60) DEF TableInv, Created, Alive, objects
  <2> QED BY <1>6, <2>1, <2>2, <2>3, ZenonT(60) DEF Kept
<1>7. ASSUME NEW n, SetThreadNum(n) PROVE Kept'
  BY <1>1, <1>6, <1>7, ZenonT(60) DEF SetThreadNum, DescriptorInv, Alive, Created, objects
<1>8. CASE Arrive
  BY <1>1, <1>6, <1>8, ZenonT(60) DEF Arrive, DescriptorInv, Alive, Created, objects
<1>9. CASE AcceptEvent
  BY <1>1, <1>6, <1>9, ZenonT(60) DEF AcceptEvent, DescriptorInv, Alive, Created, objects
<1>10. CASE AcceptAgain
  BY <1>1, <1>6, <1>10, ZenonT(60) DEF AcceptAgain, DescriptorInv, Alive, Created, objects
<1>11. CASE AcceptFails
  BY <1>1, <1>6, <1>11, ZenonT(60) DEF AcceptFails, DescriptorInv, Alive, Created, objects
<1>12. ASSUME NEW from, NEW to \in {"accept", "reaccept", "reclose", "reopen"},
              NEW fs, Recover(from, to, fs), from # "loop",
              \A f \in Fds : f # idle_fd_ => fs[f] = files[f],
              to \in {"reaccept", "reopen"} => fs[idle_fd_] = Free,
              to = "reclose" => fs[idle_fd_] \in {Free, Dropped},
              to = "accept" => fs[idle_fd_] = DevNull
       PROVE  Kept'
  <2>1. exists' /\ exists /\ Alive' = Alive
    BY <1>1, <1>12, ZenonT(60) DEF Recover, DescriptorInv, Alive, Created, objects
  <2>2. \A c \in Alive' : files'[fd_'[c]] = c /\ fd_'[c] > idle_fd_
    BY <1>1, <1>4, <1>12, <2>1, ZenonT(60) DEF Recover, DescriptorInv, objects
  <2>3. \A f \in Fds : files'[f] = Dropped => f = idle_fd_ /\ spc' = "reclose"
    BY <1>1, <1>12 DEF Recover, DescriptorInv, Free, DevNull, Dropped
  <2>4. \A f \in Fds : f < idle_fd_ => files'[f] # Free
    BY <1>1, <1>5, <1>12, <2>1, ZenonT(60) DEF Recover, DescriptorInv
  <2>5. DescriptorInv'
    BY <1>12, <2>1, <2>2, <2>3, <2>4, ZenonT(60) DEF DescriptorInv, Recover
  <2> QED BY <1>6, <1>12, <2>5, ZenonT(60) DEF Recover
<1>13. ASSUME NEW from \in {"close", "reclose"}, NEW to \in {"reaccept", "reopen"},
              CloseIdle(from, to)
       PROVE  Kept'
  <2> DEFINE fs == [files EXCEPT ![idle_fd_] = Free]
  <2>1. fs[idle_fd_] = Free /\ \A f \in Fds : f # idle_fd_ => fs[f] = files[f]
    BY <1>0, <1>1, ZenonT(60)
  <2>2. Recover(from, to, fs)
    BY <1>13, ZenonT(60) DEF CloseIdle
  <2> HIDE DEF fs
  <2> QED BY <1>12, <1>13, <2>1, <2>2, ZenonT(60)
<1>14. ASSUME exists, files[idle_fd_] = Free
       PROVE  FreeFds # {} /\ Lowest = idle_fd_
  <2>1. idle_fd_ \in FreeFds
    BY <1>0, <1>14, ZenonT(60) DEF FreeFds
  <2>2. Lowest \in FreeFds /\ Lowest <= idle_fd_
    BY <2>1, LowestIsFree, ZenonT(60)
  <2> QED BY <1>1, <1>5, <1>14, <2>1, <2>2, ZenonT(60) DEF DescriptorInv, FreeFds
<1>15. CASE Reaccept
  <2>1. spc = "reaccept"
    BY <1>15, ZenonT(60) DEF Reaccept, Recover
  <2>2. exists /\ files[idle_fd_] = Free
    BY <1>1, <2>1, ZenonT(60) DEF DescriptorInv
  <2>3. PICK fs \in {files, [files EXCEPT ![idle_fd_] = Dropped]} :
          Recover("reaccept", "reclose", fs)
    BY <1>14, <1>15, <2>2, ZenonT(60) DEF Reaccept
  <2> QED BY <1>0, <1>1, <1>12, <2>2, <2>3
<1>16. CASE Reopen
  <2>1. spc = "reopen"
    BY <1>16, ZenonT(60) DEF Reopen, Recover
  <2>2. exists /\ files[idle_fd_] = Free
    BY <1>1, <2>1, ZenonT(60) DEF DescriptorInv
  <2>3. Recover("reopen", "accept", [files EXCEPT ![idle_fd_] = DevNull])
    BY <1>14, <1>16, <2>2, ZenonT(60) DEF Reopen
  <2> DEFINE fs == [files EXCEPT ![idle_fd_] = DevNull]
  <2>4. fs[idle_fd_] = DevNull /\ \A f \in Fds : f # idle_fd_ => fs[f] = files[f]
    BY <1>0, <1>1, ZenonT(60)
  <2> HIDE DEF fs
  <2> QED BY <1>12, <2>3, <2>4, ZenonT(60) DEF fs
<1>17. CASE AppOpen
  <2>1. /\ Lowest \in Fds /\ files[Lowest] = Free /\ ~(Lowest <= idle_fd_)
        /\ files' = [files EXCEPT ![Lowest] = App]
    BY <1>17, LowestIsFree, ZenonT(60) DEF AppOpen, FreeFds
  <2>2. \A c \in Alive : fd_[c] # Lowest
    BY <1>1, <1>2, <2>1 DEF DescriptorInv, Free, NoConn
  <2>3. Lowest # idle_fd_ /\ \A f \in Fds : f < idle_fd_ => f # Lowest
    BY <1>0, <2>1
  <2>4. DescriptorInv'
    BY <1>1, <1>4, <1>17, <2>1, <2>2, <2>3
    DEF AppOpen, DescriptorInv, Alive, Created, objects, App, Dropped
  <2> QED BY <1>6, <1>17, <2>4, ZenonT(60) DEF AppOpen
<1>18. ASSUME NEW g \in Fds, AppClose(g) PROVE Kept'
  <2>1. files[g] = App /\ ~(g <= idle_fd_) /\ files' = [files EXCEPT ![g] = Free]
    BY <1>18, ZenonT(60) DEF AppClose
  <2>2. \A c \in Alive : fd_[c] # g
    BY <1>1, <1>2, <2>1 DEF DescriptorInv, App
  <2>3. g # idle_fd_ /\ \A f \in Fds : f < idle_fd_ => f # g
    BY <1>0, <2>1
  <2>4. DescriptorInv'
    BY <1>1, <1>4, <1>18, <2>1, <2>2, <2>3
    DEF AppClose, DescriptorInv, Alive, Created, objects, Free, Dropped
  <2> QED BY <1>6, <1>18, <2>4, ZenonT(60) DEF AppClose
\* Steps that only change the queues and drop no reference.
<1>19. ASSUME UNCHANGED <<connections_, files, conns, fd_, held, gone, spc,
                          exists>>,
              \A t \in Task : t.conn \in Created =>
                /\ InQueue(queue, t) => InQueue(queue', t)
                /\ InQueue(queue', t) => InQueue(queue, t) \/ t.conn \notin gone
       PROVE  GoneInv' /\ DescriptorInv' /\ Alive' = Alive
  <2>1. Created' = Created /\ Alive' = Alive
    BY <1>19, ZenonT(60) DEF Created, Alive
  <2>2. DescriptorInv'
    BY <1>1, <1>19, <2>1, ZenonT(60) DEF DescriptorInv
  <2>3. ASSUME NEW c \in Created
        PROVE  c \in gone <=> ~Referenced(connections_, queue', held, c)
    <3>1. CASE c \in gone
      BY <1>1, <1>19, <3>1, ZenonT(60) DEF GoneInv, Referenced
    <3>2. CASE c \notin gone
      BY <1>1, <1>19, <3>2, ZenonT(60) DEF GoneInv, Referenced
    <3> QED BY <3>1, <3>2, ZenonT(60)
  <2>4. \A c : Referenced(connections_, queue', held, c) <=>
                 Referenced(connections_, queue, held, c)'
    BY <1>19, ZenonT(60) DEF Referenced, InQueue
  <2>5. GoneInv'
    BY <1>1, <1>19, <2>1, <2>3, <2>4, ZenonT(60) DEF GoneInv
  <2> QED BY <2>1, <2>2, <2>5, ZenonT(60)
<1>20. CASE Start
  <2>1. Do("Listen", NoConn) \in Task /\ Do("Listen", NoConn).op = "Listen"
        /\ Do("Listen", NoConn).conn = NoConn
    BY ZenonT(60) DEF Task, Do
  <2>2. /\ \A u : InQueue(queue', u) <=> InQueue(queue, u) \/ u = Do("Listen", NoConn)
        /\ Once(queue')
    <3>1. queue' = [queue EXCEPT ![0] = Append(@, Do("Listen", NoConn))]
      BY <1>20, ZenonT(60) DEF Start
    <3>2. Once(queue) /\ Do("Listen", NoConn).op # "ConnectEstablished"
      BY <1>1, <2>1, ZenonT(60) DEF OrderInv
    <3> QED BY <1>0, <1>1, <2>1, <3>1, <3>2, AppendQueue, ZenonT(60)
  <2>3. GoneInv' /\ DescriptorInv' /\ Alive' = Alive
    BY <1>2, <1>19, <1>20, <2>1, <2>2, ZenonT(60) DEF Start, objects
  <2>4. OrderInv'
    <3>1. \A u : InQueue(queue, u)' <=> InQueue(queue', u)
      BY ZenonT(60) DEF InQueue
    <3>2. Once(queue)'
      BY <2>2, ZenonT(60) DEF Once
    <3>3. /\ list' = list /\ conns' = conns /\ state_' = state_ /\ NoConn <= conns
      BY <1>1, <1>20 DEF Start, objects, NoConn
    <3> QED BY <1>1, <2>1, <2>2, <3>1, <3>2, <3>3, ZenonT(60) DEF OrderInv
  <2>5. TableInv'
    BY <1>1, <1>20, <2>3, ZenonT(60) DEF Start, TableInv, objects
  <2> QED BY <2>3, <2>4, <2>5, ZenonT(60) DEF Kept
<1>21. CASE Listen
  <2> DEFINE t0 == Head(queue[0])
  <2>0. queue[0] # <<>> /\ t0.op = "Listen"
    BY <1>21, ZenonT(60) DEF Listen, Task1
  <2>1. /\ t0 \in Task
        /\ \A u : InQueue(queue', u) => InQueue(queue, u)
        /\ \A u : InQueue(queue, u) => InQueue(queue', u) \/ u = t0
        /\ Once(queue')
    BY <1>0, <1>1, <1>21, <2>0, TakeQueue, ZenonT(60) DEF Listen, OrderInv
  <2>2. t0.conn = NoConn
    BY <1>3, <2>0, <2>1, ZenonT(60)
  <2> HIDE DEF t0
  <2>3. GoneInv' /\ DescriptorInv' /\ Alive' = Alive
    BY <1>2, <1>19, <1>21, <2>1, <2>2, ZenonT(60) DEF Listen, objects
  <2>4. OrderInv'
    <3>1. \A u : InQueue(queue, u)' <=> InQueue(queue', u)
      BY ZenonT(60) DEF InQueue
    <3>2. Once(queue)'
      BY <2>1, ZenonT(60) DEF Once
    <3> QED BY <1>1, <1>21, <2>1, <3>1, <3>2, ZenonT(60) DEF Listen, OrderInv, objects
  <2>5. TableInv'
    BY <1>1, <1>21, <2>3, ZenonT(60) DEF Listen, TableInv, objects
  <2> QED BY <2>3, <2>4, <2>5, ZenonT(60) DEF Kept
\* RemoveConnectionInLoop for a closed connection that still exists.
<1>22. ASSUME NEW c \in Alive, NEW q \in Queues, RemoveConnectionInLoop(c, q),
              UNCHANGED <<conns, fd_, spc, exists>>, exists,
              state_'[c] = "DISCONNECTED",
              \A d \in Conns : state_'[d] # "DISCONNECTED" =>
                                 state_[d] # "DISCONNECTED",
              \A u : InQueue(q, u) => InQueue(queue, u),
              Once(q)
       PROVE  /\ GoneInv' /\ DescriptorInv' /\ TableInv' /\ Once(queue')
              /\ \A u : InQueue(queue', u) =>
                          InQueue(queue, u) \/ u = Do("ConnectDestoryed", c)
  <2> DEFINE t == Do("ConnectDestoryed", c)
             table == [connections_ EXCEPT ![fd_[c]] = NoConn]
             r == [q EXCEPT ![LoopOf(fd_[c])] = Append(@, t)]
  <2>1. c \in Conns /\ c \in Created /\ fd_[c] \in Fds /\ c \notin gone
    BY <1>1, <1>2, ZenonT(60) DEF Alive
  <2>2. t \in Task /\ t.op = "ConnectDestoryed" /\ t.conn = c
    BY <2>1, TaskIs, ZenonT(60)
  <2> HIDE DEF t
  <2>3. /\ r \in Queues /\ Once(r)
        /\ \A u : InQueue(r, u) <=> InQueue(q, u) \/ u = t
    <3>1. LoopOf(fd_[c]) \in Loops
      BY <2>1, LoopOfIsLoop, ZenonT(60)
    <3> QED BY <1>22, <2>2, <3>1, AppendQueue, ZenonT(60)
  <2>4. Drop(table, r, held, files)
    BY <1>22, ZenonT(60) DEF RemoveConnectionInLoop, t
  <2>5. /\ table[fd_[c]] = NoConn
        /\ \A f \in Fds : table[f] = connections_[f] \/ table[f] = NoConn
        /\ \A f \in Fds : f # fd_[c] => table[f] = connections_[f]
    BY <1>1, <2>1, ZenonT(60)
  <2> HIDE DEF table, r
  <2>6. \A d \in gone : ~Referenced(table, r, held, d)
    <3>1. \A d \in gone : d \in Created /\ d # NoConn /\ d # c
                            /\ ~Referenced(connections_, queue, held, d)
      BY <1>1, <1>2, <2>1, ZenonT(60) DEF GoneInv
    <3> QED BY <1>22, <2>2, <2>3, <2>5, <3>1, ZenonT(60) DEF Referenced
  <2>7. /\ GoneInv' /\ DescriptorInv' /\ Created' = Created /\ Alive' \subseteq Alive
        /\ \A d \in Created : Referenced(table, r, held, d) => d \in Alive'
    BY <1>1, <1>22, <2>3, <2>4, <2>6, DropKeeps, ZenonT(60)
  <2>8. connections_' = table /\ queue' = r
    BY <2>4, ZenonT(60) DEF Drop
  <2>9. TableInv'
    <3>1. \A f \in Fds : connections_'[f] # NoConn =>
            connections_'[f] = connections_[f] /\ connections_[f] \in Alive'
      <4> TAKE f \in Fds
      <4> HAVE connections_'[f] # NoConn
      <4>1. table[f] = connections_[f] /\ connections_[f] \in Created
        BY <1>1, <2>5, <2>8, ZenonT(60) DEF TableInv, Alive
      <4> QED BY <2>7, <2>8, <4>1, ZenonT(60) DEF Referenced
    <3>2. \A d \in Alive' : state_'[d] # "DISCONNECTED" =>
            /\ state_[d] # "DISCONNECTED"
            /\ connections_'[fd_[d]] = connections_[fd_[d]]
      <4> TAKE d \in Alive'
      <4> HAVE state_'[d] # "DISCONNECTED"
      <4>1. d # c /\ d \in Alive /\ c \in Alive
        BY <1>22, <2>7, ZenonT(60)
      <4>2. fd_[d] # fd_[c]
        BY <1>1, <4>1 DEF DescriptorInv
      <4> QED BY <1>2, <1>4, <1>22, <2>5, <2>8, <4>1, <4>2, ZenonT(60)
    <3> QED BY <1>22, <2>7, <3>1, <3>2, StateKeeps, ZenonT(60)
  <2> QED BY <1>22, <2>3, <2>7, <2>8, <2>9, ZenonT(60) DEF t
<1>23. \A u \in Task : InQueue(queue, u) /\ u.op # "Listen" => u.conn \in Alive
  <2> TAKE u \in Task
  <2> HAVE InQueue(queue, u) /\ u.op # "Listen"
  <2>1. u.conn \in Created
    BY <1>1, <1>2, <1>3, ZenonT(60) DEF OrderInv, NoConn
  <2>2. Referenced(connections_, queue, held, u.conn)
    BY ZenonT(60) DEF Referenced
  <2> QED BY <1>1, <2>1, <2>2, ZenonT(60) DEF GoneInv, Alive
<1>26. CASE RunRemoveConnection
  <2> DEFINE t0 == Head(queue[0])
             q == [queue EXCEPT ![0] = Tail(@)]
  <2>1. queue[0] # <<>> /\ t0.op = "RemoveConnectionInLoop" /\ exists
    BY <1>26, ZenonT(60) DEF RunRemoveConnection, Task1, Runs
  <2>2. /\ q \in Queues /\ t0 \in Task /\ InQueue(queue, t0)
        /\ \A u : InQueue(q, u) => InQueue(queue, u)
        /\ Once(q)
    BY <1>0, <1>1, <2>1, TakeQueue, ZenonT(60) DEF OrderInv
  <2>3. RemoveConnectionInLoop(t0.conn, q)
        /\ UNCHANGED <<conns, fd_, spc, exists, state_, list>>
    BY <1>26, ZenonT(60) DEF RunRemoveConnection, objects
  <2> HIDE DEF t0, q
  <2>4. t0.conn \in Alive /\ state_[t0.conn] = "DISCONNECTED"
    BY <1>1, <1>23, <2>1, <2>2, ZenonT(60) DEF OrderInv
  <2>5. /\ GoneInv' /\ DescriptorInv' /\ TableInv' /\ Once(queue')
        /\ \A u : InQueue(queue', u) =>
             InQueue(queue, u) \/ u = Do("ConnectDestoryed", t0.conn)
    BY <1>22, <2>1, <2>2, <2>3, <2>4, ZenonT(60)
  <2>6. OrderInv'
    <3>1. t0.conn <= conns
      BY <1>1, <2>2, ZenonT(60) DEF OrderInv
    <3>2. t0.conn \in Conns
      BY <1>2, <2>4, ZenonT(60)
    <3>3. ASSUME NEW u \in Task, InQueue(queue', u)
          PROVE  /\ u.conn <= conns
                 /\ u.op = "ConnectEstablished" => state_[u.conn] = "CONNECTING"
                 /\ u.op = "RemoveConnectionInLoop" => state_[u.conn] = "DISCONNECTED"
      <4>1. CASE InQueue(queue, u)
        BY <1>1, <4>1, ZenonT(60) DEF OrderInv
      <4>2. CASE u = Do("ConnectDestoryed", t0.conn)
        <5>1. u.op = "ConnectDestoryed" /\ u.conn = t0.conn
          BY <3>2, <4>2, TaskIs, ZenonT(60)
        <5> QED BY <3>1, <5>1, ZenonT(60)
      <4> QED BY <2>5, <3>3, <4>1, <4>2, ZenonT(60)
    <3> QED BY <1>1, <1>24, <1>25, <2>3, <2>5, <3>3, ZenonT(60) DEF OrderInv
  <2> QED BY <2>5, <2>6, ZenonT(60) DEF Kept
<1>27. ASSUME NEW c \in Conns, CloseHandler(c) PROVE Kept'
  <2>1. /\ list[fd_[c]] = c /\ fd_[c] \in Fds
        /\ UNCHANGED <<conns, fd_, spc, exists, list>>
        /\ state_' = [state_ EXCEPT ![c] = "DISCONNECTED"]
    BY <1>1, <1>27, ZenonT(60) DEF CloseHandler
  <2>2. c \in Alive /\ c <= conns /\ state_[c] # "CONNECTING"
    BY <1>1, <1>2, <1>27, <2>1 DEF CloseHandler, OrderInv, Alive, NoConn
  <2>3. /\ state_'[c] = "DISCONNECTED"
        /\ \A d \in Conns : d # c => state_'[d] = state_[d]
    BY <1>1, <2>1, ZenonT(60)
  <2>4. PICK t \in {Do("ConnectDestoryed", c), Do("RemoveConnectionInLoop", c)} :
          /\ GoneInv' /\ DescriptorInv' /\ TableInv' /\ Once(queue')
          /\ \A u : InQueue(queue', u) => InQueue(queue, u) \/ u = t
    <3>1. CASE loop_list_ = 0
      <4>1. RemoveConnectionInLoop(c, queue)
        BY <1>27, <3>1, ZenonT(60) DEF CloseHandler
      <4>0. exists
        BY <1>27, <3>1, ZenonT(60) DEF CloseHandler, Runs, LoopOf
      <4>2. \A d \in Conns : state_'[d] # "DISCONNECTED" => state_[d] # "DISCONNECTED"
        BY <2>3, ZenonT(60)
      <4>3. Once(queue)
        BY <1>1, ZenonT(60) DEF OrderInv
      <4> QED BY <1>1, <1>22, <2>1, <2>2, <2>3, <4>0, <4>1, <4>2, <4>3, ZenonT(60)
    <3>2. CASE loop_list_ # 0
      <4> DEFINE t == Do("RemoveConnectionInLoop", c)
      <4>1. t \in Task /\ t.op = "RemoveConnectionInLoop" /\ t.conn = c
        BY ZenonT(60) DEF Task, Do
      <4>2. /\ queue' = [queue EXCEPT ![0] = Append(@, t)]
            /\ UNCHANGED <<connections_, held, gone, files>>
        BY <1>27, <3>2, ZenonT(60) DEF CloseHandler
      <4> HIDE DEF t
      <4>3. /\ \A u : InQueue(queue', u) <=> InQueue(queue, u) \/ u = t
            /\ Once(queue')
        BY <1>0, <1>1, <4>1, <4>2, AppendQueue, ZenonT(60) DEF OrderInv
      <4>4. GoneInv' /\ DescriptorInv' /\ Alive' = Alive
        BY <1>19, <2>1, <2>2, <4>1, <4>2, <4>3, ZenonT(60) DEF Alive
      <4>5. TableInv'
        BY <1>1, <1>2, <2>1, <2>3, <4>2, <4>4, ZenonT(60) DEF TableInv
      <4> QED BY <4>3, <4>4, <4>5, ZenonT(60) DEF t
    <3> QED BY <3>1, <3>2, ZenonT(60)
  <2>5. OrderInv'
    <3>1. t.conn = c /\ t.op # "ConnectEstablished"
      BY <2>4 DEF Do
    <3>2. \A u \in Task : InQueue(queue', u) =>
            /\ u.conn <= conns
            /\ u.op = "ConnectEstablished" => state_'[u.conn] = "CONNECTING"
            /\ u.op = "RemoveConnectionInLoop" => state_'[u.conn] = "DISCONNECTED"
      <4> TAKE u \in Task
      <4> HAVE InQueue(queue', u)
      <4>1. CASE u = t
        BY <2>2, <2>3, <3>1, <4>1, ZenonT(60)
      <4>2. CASE InQueue(queue, u)
        BY <1>1, <1>3, <2>2, <2>3, <4>2, ZenonT(60) DEF OrderInv
      <4> QED BY <2>4, <4>1, <4>2, ZenonT(60)
    <3>3. \A d \in Conns : d > conns => state_'[d] = "CONNECTING"
      <4>1. ~(c > conns)
        BY <1>1, <1>2, <2>2
      <4> QED BY <1>1, <2>3, <4>1, ZenonT(60) DEF OrderInv
    <3>4. \A f \in Fds : list[f] # NoConn =>
            list[f] <= conns /\ state_'[list[f]] # "CONNECTING"
      BY <1>1, <2>3, ZenonT(60) DEF OrderInv
    <3> QED BY <1>24, <1>25, <2>1, <2>4, <3>2, <3>3, <3>4, ZenonT(60) DEF OrderInv
  <2> QED BY <2>4, <2>5, ZenonT(60) DEF Kept
\* Steps that may drop references but leave the table as it is.
<1>28. ASSUME NEW q \in Queues, NEW h, Drop(connections_, q, h, files),
              UNCHANGED <<conns, fd_, spc, exists>>,
              \A u : InQueue(q, u) => InQueue(queue, u),
              \A d \in h : d \in held \/ d \in Alive,
              \A d \in Conns : state_'[d] # "DISCONNECTED" =>
                                 state_[d] # "DISCONNECTED"
       PROVE  GoneInv' /\ DescriptorInv' /\ TableInv' /\ queue' = q
  <2>1. \A d \in gone : ~Referenced(connections_, q, h, d)
    <3>1. \A d \in gone : d \notin Alive /\ ~Referenced(connections_, queue, held, d)
      BY <1>1, ZenonT(60) DEF GoneInv, Alive
    <3> QED BY <1>28, <3>1, ZenonT(60) DEF Referenced
  <2>2. /\ GoneInv' /\ DescriptorInv' /\ Created' = Created /\ Alive' \subseteq Alive
        /\ \A d \in Created : Referenced(connections_, q, h, d) => d \in Alive'
    <3>1. exists' => exists
      BY <1>28, ZenonT(60)
    <3>2. ~exists' => spc = "loop"
      BY <1>1, <1>28, ZenonT(60) DEF DescriptorInv
    <3> QED BY <1>1, <1>28, <2>1, <3>1, <3>2, DropKeeps, ZenonT(60)
  <2>3. connections_' = connections_ /\ queue' = q
    BY <1>28, ZenonT(60) DEF Drop
  <2>4. \A f \in Fds : connections_[f] # NoConn => connections_[f] \in Alive'
    BY <1>1, <2>2, ZenonT(60) DEF TableInv, Alive, Referenced
  <2>5. TableInv'
    BY <1>1, <1>2, <1>28, <2>2, <2>3, <2>4, StateKeeps, ZenonT(60)
  <2> QED BY <2>2, <2>3, <2>5, ZenonT(60)
<1>29. ASSUME NEW l \in Loops, ConnectEstablished(l) PROVE Kept'
  <2> DEFINE t0 == Head(queue[l])
             c == t0.conn
             q == [queue EXCEPT ![l] = Tail(@)]
  <2>1. queue[l] # <<>> /\ t0.op = "ConnectEstablished"
    BY <1>29, ZenonT(60) DEF ConnectEstablished, Task1
  <2>2. /\ q \in Queues /\ t0 \in Task /\ InQueue(queue, t0)
        /\ \A u : InQueue(q, u) => InQueue(queue, u)
        /\ Once(q) /\ ~InQueue(q, t0)
    BY <1>1, <2>1, TakeQueue, ZenonT(60) DEF OrderInv
  <2>3. /\ state_' = [state_ EXCEPT ![c] = "CONNECTED"]
        /\ list' = [list EXCEPT ![fd_[c]] = c]
        /\ UNCHANGED <<conns, fd_, spc, exists>>
    BY <1>29, ZenonT(60) DEF ConnectEstablished
  <2>4. PICK h \in {held, held \cup {c}} : Drop(connections_, q, h, files)
    BY <1>29, ZenonT(60) DEF ConnectEstablished
  <2> HIDE DEF t0, q
  <2>5. c \in Alive /\ c \in Conns /\ c <= conns /\ state_[c] = "CONNECTING"
    BY <1>1, <1>2, <1>23, <2>1, <2>2, ZenonT(60) DEF OrderInv
  <2>6. state_'[c] = "CONNECTED" /\ \A d \in Conns : d # c => state_'[d] = state_[d]
    BY <1>1, <2>3, <2>5, ZenonT(60)
  <2>7. GoneInv' /\ DescriptorInv' /\ TableInv' /\ queue' = q
    <3>1. \A d \in h : d \in held \/ d \in Alive
      BY <2>4, <2>5, ZenonT(60)
    <3>2. \A d \in Conns : state_'[d] # "DISCONNECTED" => state_[d] # "DISCONNECTED"
      BY <2>5, <2>6, ZenonT(60)
    <3> QED BY <1>28, <2>2, <2>3, <2>4, <3>1, <3>2, ZenonT(60)
  <2>8. OrderInv'
    <3>1. \A u \in Task : InQueue(queue', u) =>
            /\ u.conn <= conns
            /\ u.op = "ConnectEstablished" => state_'[u.conn] = "CONNECTING"
            /\ u.op = "RemoveConnectionInLoop" => state_'[u.conn] = "DISCONNECTED"
      <4> TAKE u \in Task
      <4> HAVE InQueue(queue', u)
      <4>1. InQueue(queue, u) /\ u # t0
        BY <2>2, <2>7, ZenonT(60)
      <4>2. u.op = "ConnectEstablished" => u.conn # c
        BY <2>1, <2>2, <4>1, TaskEqual, ZenonT(60)
      <4>3. u.op = "RemoveConnectionInLoop" => u.conn # c
        BY <1>1, <2>5, <4>1, ZenonT(60) DEF OrderInv
      <4> QED BY <1>1, <1>3, <2>6, <4>1, <4>2, <4>3 DEF OrderInv
    <3>2. \A d \in Conns : d > conns => state_'[d] = "CONNECTING"
      <4>1. ~(c > conns)
        <5>1. c \in Nat
          BY <1>2, <2>5, ZenonT(60)
        <5> HIDE DEF c
        <5> QED BY <1>1, <2>5, <5>1
      <4> QED BY <1>1, <2>6, <4>1, ZenonT(60) DEF OrderInv
    <3>3. \A f \in Fds : list'[f] # NoConn =>
            list'[f] <= conns /\ state_'[list'[f]] # "CONNECTING"
      <4> TAKE f \in Fds
      <4>1. list'[f] = c \/ list'[f] = list[f]
        BY <1>1, <2>3, ZenonT(60)
      <4> QED BY <1>1, <2>5, <2>6, <4>1, ZenonT(60) DEF OrderInv
    <3>4. Once(queue)'
      BY <1>25, <2>2, <2>7, ZenonT(60)
    <3> QED BY <1>24, <2>3, <3>1, <3>2, <3>3, <3>4, ZenonT(60) DEF OrderInv
  <2> QED BY <2>7, <2>8, ZenonT(60) DEF Kept
<1>30. ASSUME NEW l \in Loops, ConnectDestoryed(l) PROVE Kept'
  <2> DEFINE q == [queue EXCEPT ![l] = Tail(@)]
  <2>1. /\ queue[l] # <<>> /\ Drop(connections_, q, held, files)
        /\ list' = [list EXCEPT ![fd_[Head(queue[l]).conn]] = NoConn]
        /\ UNCHANGED <<conns, fd_, spc, exists, state_>>
    BY <1>30, ZenonT(60) DEF ConnectDestoryed, Task1, objects
  <2>2. q \in Queues /\ (\A u : InQueue(q, u) => InQueue(queue, u)) /\ Once(q)
    BY <1>1, <2>1, TakeQueue, ZenonT(60) DEF OrderInv
  <2> HIDE DEF q
  <2>3. GoneInv' /\ DescriptorInv' /\ TableInv' /\ queue' = q
    BY <1>28, <2>1, <2>2, ZenonT(60)
  <2>4. \A f \in Fds : list'[f] # NoConn => list'[f] = list[f]
    BY <1>1, <2>1, ZenonT(60)
  <2>5. OrderInv'
    BY <1>1, <1>24, <1>25, <2>1, <2>2, <2>3, <2>4, ZenonT(60) DEF OrderInv
  <2> QED BY <2>3, <2>5, ZenonT(60) DEF Kept
<1>31. ASSUME NEW c \in Conns, Release(c) PROVE Kept'
  <2>1. /\ Drop(connections_, queue, held \ {c}, files)
        /\ UNCHANGED <<conns, fd_, spc, exists, state_, list>>
    BY <1>31, ZenonT(60) DEF Release, objects
  <2>2. GoneInv' /\ DescriptorInv' /\ TableInv' /\ queue' = queue
    BY <1>1, <1>28, <2>1
  <2>3. OrderInv'
    <3>1. Once(queue)' /\ \A u : InQueue(queue, u)' <=> InQueue(queue, u)
      BY <1>1, <1>24, <1>25, <2>2, ZenonT(60) DEF OrderInv
    <3> QED BY <1>1, <2>1, <3>1, ZenonT(60) DEF OrderInv
  <2> QED BY <2>2, <2>3, ZenonT(60) DEF Kept
<1>32. CASE DestroyServer
  <2> DEFINE table == [f \in Fds |-> NoConn]
             fs == [files EXCEPT ![socket_] = Free, ![idle_fd_] = Free]
  <2>1. /\ Drop(table, queue, held, fs) /\ spc = "loop" /\ ~exists'
        /\ UNCHANGED <<conns, fd_, spc, state_, list>>
    BY <1>32, ZenonT(60) DEF DestroyServer, objects
  <2>2. \A d \in gone : ~Referenced(table, queue, held, d)
    BY <1>1, <1>2, ZenonT(60) DEF GoneInv, Referenced
  <2>3. \A f \in Fds : fs[f] = files[f] \/ (f <= idle_fd_ /\ fs[f] = Free)
    BY <1>0, <1>1
  <2>4. connections_' = table /\ queue' = queue
    BY <2>1, ZenonT(60) DEF Drop
  <2>5. TableInv'
    BY <2>1, <2>4, ZenonT(60) DEF TableInv
  <2> HIDE DEF table, fs
  <2>6. GoneInv' /\ DescriptorInv'
    BY <1>1, <2>1, <2>2, <2>3, DropKeeps, ZenonT(60)
  <2>7. OrderInv'
    <3>1. Once(queue)' /\ \A u : InQueue(queue, u)' <=> InQueue(queue, u)
      BY <1>1, <1>24, <1>25, <2>4, ZenonT(60) DEF OrderInv
    <3> QED BY <1>1, <2>1, <3>1, ZenonT(60) DEF OrderInv
  <2> QED BY <2>5, <2>6, <2>7, ZenonT(60) DEF Kept
<1>33. CASE AcceptNew
  <2> DEFINE f == Lowest
             c == conns + 1
             t == Do("ConnectEstablished", c)
             table == [connections_ EXCEPT ![f] = c]
             q == [queue EXCEPT ![LoopOf(f)] = Append(@, t)]
             fs == [files EXCEPT ![f] = c]
  <2>1. /\ Drop(table, q, held, fs) /\ conns' = c /\ fd_' = [fd_ EXCEPT ![c] = f]
        /\ UNCHANGED <<spc, exists, state_, list>> /\ spc = "accept"
    BY <1>33, ZenonT(60) DEF AcceptNew, NewConnected
  <2>2. f \in Fds /\ files[f] = Free
    BY <1>33, LowestIsFree, ZenonT(60) DEF AcceptNew, FreeFds
  <2>3. /\ c \in Conns /\ c > conns /\ c \notin Created /\ c # NoConn
        /\ Created' = Created \cup {c} /\ c \in Nat
    <3>1. c \in Nat /\ c <= MaxArrivals /\ MaxArrivals \in Nat
      <4>1. /\ MaxArrivals \in Nat /\ conns \in 0..MaxArrivals /\ backlog \in 0..MaxArrivals
            /\ arrivals \in 0..MaxArrivals
        BY ServerAssumption, ZenonT(60) DEF TypeOK, Counts
      <4>2. conns + backlog <= arrivals /\ backlog > 0
        BY <1>33, ZenonT(60) DEF AcceptNew, AcceptInv
      <4> QED BY <4>1, <4>2
    <3> QED BY <1>1, <2>1, <3>1 DEF Conns, Created, NoConn
  <2> HIDE DEF f, c
  <2>4. exists /\ f > idle_fd_ /\ f # idle_fd_
    <3>1. exists /\ files[idle_fd_] # Free /\ \A g \in Fds : g < idle_fd_ => files[g] # Free
      BY <1>1, <2>1 DEF DescriptorInv, DevNull, Free
    <3> QED BY <1>0, <2>2, <3>1
  <2>5. (\A d \in Alive : fd_[d] # f) /\ connections_[f] = NoConn
    <3>1. \A d \in Alive : fd_[d] # f
      BY <1>1, <1>2, <2>2 DEF DescriptorInv, Free, NoConn
    <3> QED BY <1>1, <2>2, <3>1, ZenonT(60) DEF TableInv
  <2>6. t \in Task /\ t.op = "ConnectEstablished" /\ t.conn = c
    BY <2>3, ZenonT(60) DEF Task, Do
  <2> HIDE DEF t
  <2>7. /\ q \in Queues /\ Once(q)
        /\ \A u : InQueue(q, u) <=> InQueue(queue, u) \/ u = t
    <3>1. ~InQueue(queue, t)
      <4>1. ~(c <= conns)
        BY <1>1, <2>3
      <4> QED BY <1>1, <2>6, <4>1, ZenonT(60) DEF OrderInv
    <3>2. LoopOf(f) \in Loops
      BY <2>2, LoopOfIsLoop, ZenonT(60)
    <3> QED BY <1>1, <2>6, <3>1, <3>2, AppendQueue, ZenonT(60) DEF OrderInv
  <2>8. /\ \A g \in Fds : g # f => table[g] = connections_[g] /\ fs[g] = files[g]
        /\ table[f] = c /\ fs[f] = c
        /\ \A d \in Conns : d # c => fd_'[d] = fd_[d]
        /\ fd_'[c] = f
    BY <1>1, <2>1, <2>2, <2>3, ZenonT(60)
  <2>9. connections_' = table /\ queue' = q /\ held' = held
    BY <2>1, ZenonT(60) DEF Drop
  <2>10. gone' = Unreferenced(table, q, held)
    BY <2>1, ZenonT(60) DEF Drop
  <2> HIDE DEF table, q
  <2>11. \A d \in Created : Referenced(table, q, held, d) <=>
                              Referenced(connections_, queue, held, d)
    <3> TAKE d \in Created
    <3>1. d # c /\ d # NoConn
      BY <1>2, <2>3, ZenonT(60)
    <3>2. (\E g \in Fds : table[g] = d) <=> (\E g \in Fds : connections_[g] = d)
      BY <2>2, <2>5, <2>8, <3>1, ZenonT(60)
    <3>3. (\E u \in Task : InQueue(q, u) /\ u.conn = d) <=>
            (\E u \in Task : InQueue(queue, u) /\ u.conn = d)
      BY <2>6, <2>7, <3>1, ZenonT(60)
    <3> QED BY <3>2, <3>3, ZenonT(60) DEF Referenced
  <2>12. gone' = gone /\ Alive' = Alive \cup {c}
    <3>1. \A d : d \in gone' <=> d \in gone
      BY <1>1, <2>7, <2>10, <2>11, UnreferencedIs, ZenonT(60) DEF GoneInv
    <3> QED BY <1>1, <2>3, <3>1, ZenonT(60) DEF Alive, GoneInv
  <2>13. \A g \in Fds : files'[g] = fs[g]
    <3>1. \A g \in Fds : files'[g] = IF \E d \in Unreferenced(table, q, held) \ gone :
                                          fd_[d] = g THEN Free ELSE fs[g]
      BY <2>1, ZenonT(60) DEF Drop
    <3> QED BY <2>10, <2>12, <3>1, ZenonT(60)
  <2>14. GoneInv'
    <3>1. \A d : Referenced(table, q, held, d) <=>
                   Referenced(connections_, queue, held, d)'
      BY <2>9, ZenonT(60) DEF Referenced, InQueue
    <3>2. Referenced(table, q, held, c) /\ c \notin gone
      BY <1>1, <2>2, <2>3, <2>8, ZenonT(60) DEF Referenced, GoneInv
    <3> QED BY <1>1, <2>3, <2>11, <2>12, <3>1, <3>2, ZenonT(60) DEF GoneInv
  <2>15. DescriptorInv'
    <3>1. \A d \in Alive' : files'[fd_'[d]] = d /\ fd_'[d] > idle_fd_
      <4> TAKE d \in Alive'
      <4>1. CASE d = c
        BY <2>2, <2>4, <2>8, <2>13, <4>1, ZenonT(60)
      <4>2. CASE d # c
        <5>1. d \in Alive /\ fd_[d] \in Fds /\ fd_[d] # f /\ fd_'[d] = fd_[d]
          BY <1>2, <1>4, <2>5, <2>8, <2>12, <4>2, ZenonT(60)
        <5> QED BY <1>1, <2>8, <2>13, <5>1 DEF DescriptorInv
      <4> QED BY <4>1, <4>2, ZenonT(60)
    <3>2. \A g \in Fds : files'[g] = Dropped => g = idle_fd_ /\ spc' = "reclose"
      <4>1. c # Dropped
        BY <2>3 DEF Dropped
      <4> QED BY <1>1, <2>1, <2>8, <2>13, <4>1, ZenonT(60) DEF DescriptorInv
    <3>3. /\ \A g \in Fds : g < idle_fd_ => files'[g] # Free
          /\ files'[idle_fd_] = DevNull
      <4>1. c # Free
        BY <2>3, ZenonT(60) DEF Free, NoConn
      <4> QED BY <1>0, <1>1, <2>1, <2>4, <2>8, <2>13, <4>1, ZenonT(60) DEF DescriptorInv
    <3> QED BY <2>1, <2>4, <3>1, <3>2, <3>3, ZenonT(60) DEF DescriptorInv
  <2>16. OrderInv'
    <3>1. state_[c] = "CONNECTING" /\ \A n \in Nat : n <= conns => n <= conns'
      BY <1>1, <2>1, <2>3 DEF OrderInv, c
    <3>2. \A u \in Task : InQueue(queue', u) =>
            /\ u.conn <= conns'
            /\ u.op = "ConnectEstablished" => state_[u.conn] = "CONNECTING"
            /\ u.op = "RemoveConnectionInLoop" => state_[u.conn] = "DISCONNECTED"
      <4> TAKE u \in Task
      <4> HAVE InQueue(queue', u)
      <4>1. CASE u = t
        BY <2>1, <2>3, <2>6, <3>1, <4>1
      <4>2. CASE InQueue(queue, u)
        <5>1. u.conn \in Nat
          <6>1. u.conn \in Conns \/ u.conn = 0
            BY <1>3, ZenonT(60) DEF NoConn
          <6>2. Conns \subseteq Nat /\ 0 \in Nat
            BY <1>2, ZenonT(60)
          <6> QED BY <6>1, <6>2, ZenonT(60)
        <5> QED BY <1>1, <3>1, <4>2, <5>1, ZenonT(60) DEF OrderInv
      <4> QED BY <2>7, <2>9, <4>1, <4>2, ZenonT(60)
    <3>3. \A d \in Conns : d > conns' => state_[d] = "CONNECTING"
      <4>1. \A d \in Conns : d > conns' => d > conns
        BY <1>1, <1>2, <2>1 DEF c
      <4> QED BY <1>1, <4>1, ZenonT(60) DEF OrderInv
    <3>4. \A g \in Fds : list[g] # NoConn =>
            list[g] <= conns' /\ state_[list[g]] # "CONNECTING"
      BY <1>1, <1>2, <3>1, ZenonT(60) DEF OrderInv
    <3>5. Once(queue)'
      BY <1>25, <2>7, <2>9, ZenonT(60)
    <3> QED BY <1>24, <2>1, <3>2, <3>3, <3>4, <3>5, ZenonT(60) DEF OrderInv
  <2>17. TableInv'
    <3>1. \A g \in Fds : connections_'[g] # NoConn =>
            connections_'[g] \in Alive' /\ fd_'[connections_'[g]] = g
      <4> TAKE g \in Fds
      <4>1. CASE g = f
        BY <2>8, <2>9, <2>12, <4>1, ZenonT(60)
      <4>2. CASE g # f
        <5>1. connections_'[g] = connections_[g]
          BY <2>8, <2>9, <4>2, ZenonT(60)
        <5>2. \A d \in Alive : d \in Conns /\ d # c
          BY <1>2, <2>3, ZenonT(60) DEF Alive
        <5>3. connections_[g] # NoConn =>
                connections_[g] \in Alive /\ fd_[connections_[g]] = g
          BY <1>1, ZenonT(60) DEF TableInv
        <5>4. \A d \in Alive : d \in Alive' /\ fd_'[d] = fd_[d]
          BY <2>8, <2>12, <5>2, ZenonT(60)
        <5> QED BY <5>1, <5>3, <5>4, ZenonT(60)
      <4> QED BY <4>1, <4>2, ZenonT(60)
    <3>2. \A d \in Alive' : state_'[d] # "DISCONNECTED" => connections_'[fd_'[d]] = d
      <4> TAKE d \in Alive'
      <4>1. CASE d = c
        BY <2>8, <2>9, <4>1, ZenonT(60)
      <4>2. CASE d # c
        <5>1. d \in Alive /\ fd_[d] \in Fds /\ fd_[d] # f /\ fd_'[d] = fd_[d]
          BY <1>2, <1>4, <2>5, <2>8, <2>12, <4>2, ZenonT(60)
        <5>2. state_[d] # "DISCONNECTED" => connections_[fd_[d]] = d
          BY <1>1, <2>4, <5>1, ZenonT(60) DEF TableInv
        <5>3. connections_'[fd_'[d]] = connections_[fd_[d]] /\ state_' = state_
          BY <2>1, <2>8, <2>9, <5>1, ZenonT(60)
        <5> QED BY <5>2, <5>3, ZenonT(60)
      <4> QED BY <4>1, <4>2, ZenonT(60)
    <3> QED BY <3>1, <3>2, ZenonT(60) DEF TableInv
  <2> QED BY <2>14, <2>15, <2>16, <2>17, ZenonT(60) DEF Kept
<1>34. ~ReopenFails
  BY ZenonT(60) DEF ReopenFails
<1> QED
  BY <1>7, <1>8, <1>9, <1>10, <1>11, <1>13, <1>15, <1>16, <1>17, <1>18, <1>20, ZenonT(60),
     <1>21, <1>26, <1>27, <1>29, <1>30, <1>31, <1>32, <1>33, <1>34
  DEF Next, Environment, Loop, AcceptHandle

-----------------------------------------------------------------------------
\* The inductive invariant holds in every state of the server.
LEMMA AlwaysIInv == Spec => []IInv
<1>1. IInv /\ [Next]_vars => IInv'
  <2> SUFFICES ASSUME IInv, [Next]_vars PROVE IInv'
    OBVIOUS
  <2>1. CASE Next
    <3>1. TypeOK' /\ AcceptInv'
      BY <2>1, NextType, ZenonT(60) DEF IInv
    <3>2. ~disturbed' => ~disturbed
      BY <2>1, ZenonT(60)
      DEF Next, Environment, Loop, AcceptHandle, SetThreadNum, Start, Arrive,
          AcceptEvent, AcceptNew, AcceptAgain, AcceptFails, CloseIdle, Recover,
          Reaccept, Reopen, ReopenFails, Listen, ConnectEstablished, RunRemoveConnection,
          ConnectDestoryed, CloseHandler, Release, AppOpen, AppClose,
          DestroyServer, app
    <3> QED BY <2>1, <3>1, <3>2, NextKept, ZenonT(60) DEF IInv
  <2>2. CASE UNCHANGED vars
    <3>1. TypeOK'
      BY <2>2, ZenonT(60) DEF IInv, TypeOK, Flags, Counts, Tables, vars, config, socket,
                  objects, app
    <3>2. AcceptInv'
      BY <2>2, ZenonT(60) DEF IInv, AcceptInv, vars, socket, objects
    <3>3. Kept => Kept'
      <4>0. UNCHANGED <<connections_, queue, held, gone, files, spc, exists, list,
                        conns, fd_, state_>>
        BY <2>2, ZenonT(60) DEF vars, objects
      <4>1. GoneInv => GoneInv'
        BY <4>0 DEF GoneInv, Created, Referenced, InQueue
      <4>2. DescriptorInv => DescriptorInv'
        BY <4>0, ZenonT(60) DEF DescriptorInv, Created, Alive
      <4>3. OrderInv => OrderInv'
        <5>1. (Once(queue) => Once(queue)') /\ \A u : InQueue(queue, u)' <=> InQueue(queue, u)
          <6>1. \A u : InQueue(queue', u) <=> InQueue(queue, u)'
            BY ZenonT(60) DEF InQueue
          <6>2. Once(queue') => Once(queue)'
            BY ZenonT(60) DEF Once
          <6>3. queue' = queue
            BY <4>0, ZenonT(60)
          <6> QED BY <6>1, <6>2, <6>3, ZenonT(60)
        <5> QED BY <4>0, <5>1, ZenonT(60) DEF OrderInv
      <4>4. TableInv => TableInv'
        BY <4>0, ZenonT(60) DEF TableInv, Created, Alive
      <4> QED BY <4>1, <4>2, <4>3, <4>4, ZenonT(60) DEF Kept
    <3>4. disturbed' = disturbed
      BY <2>2, ZenonT(60) DEF vars, app
    <3> QED BY <3>1, <3>2, <3>3, <3>4, ZenonT(60) DEF IInv
  <2> QED BY <2>1, <2>2, ZenonT(60)
<1> QED BY <1>1, InitIInv, PTL DEF Spec

\* Every state of the server, its acceptor and its connections is well typed;
\* in particular the recovery of AcceptHandle never makes up a connection.
THEOREM ServerTypeCorrect == Spec => []TypeOK
<1>1. IInv => TypeOK
  BY ZenonT(60) DEF IInv
<1> QED BY <1>1, AlwaysIInv, PTL

\* Erasing by descriptor number never hits another connection, and a
\* connection that is not closed is in connections_, for any number of loops,
\* connections and descriptors.
THEOREM TableCorrect == Spec => []TableIsExact
<1>1. IInv => TableIsExact
  BY ZenonT(60) DEF IInv, Kept, TableInv, TableIsExact
<1> QED BY <1>1, AlwaysIInv, PTL

\* No close(2) of the acceptor's recovery or of a destructor hits another
\* connection, and the reserve descriptor is always restored.
THEOREM DescriptorsCorrect == Spec => []DescriptorsAreKept
<1>1. IInv => DescriptorsAreKept
  BY ZenonT(60) DEF IInv, Kept, DescriptorInv, DescriptorsAreKept
<1> QED BY <1>1, AlwaysIInv, PTL

-----------------------------------------------------------------------------
(* The life of a connection, until ~TcpServer.                              *)

\* A connection shares its descriptor with no other, and is not destroyed
\* while its channel is registered or while it is in the table.
LifeFacts ==
  /\ \A c, d \in Alive : fd_[c] = fd_[d] => c = d
  /\ \A f \in Fds : list[f] # NoConn => list[f] \in Alive
  /\ \A f \in Fds : connections_[f] # NoConn => connections_[f] \in Alive
  /\ \A c \in Alive : state_[c] # "DISCONNECTED" => connections_[fd_[c]] = c

\* What the invariant says of the connections.
LEMMA LifeIs == TypeOK /\ Kept /\ LifeInv /\ exists => LifeFacts
<1> SUFFICES ASSUME TypeOK, Kept, LifeInv, exists PROVE LifeFacts
  OBVIOUS
<1>1. /\ list \in [Fds -> Conns \cup {NoConn}] /\ conns \in Nat
      /\ GoneInv /\ DescriptorInv /\ OrderInv /\ TableInv
      /\ MaxArrivals \in Nat
  BY ServerAssumption DEF TypeOK, Tables, Counts, Kept
<1>2. \A c, d \in Alive : fd_[c] = fd_[d] => c = d
  BY <1>1, ZenonT(60) DEF DescriptorInv
<1>3. ASSUME NEW f \in Fds, list[f] # NoConn PROVE list[f] \in Alive
  <2> DEFINE c == list[f]
  <2>1. c \in Conns /\ c \in Created
    BY <1>1, <1>3 DEF OrderInv, Created, Conns, NoConn
  <2>2. Destroy(c) \in Task /\ Destroy(c).conn = c
    BY <2>1, DestroyIs, ZenonT(60)
  <2>3. Referenced(connections_, queue, held, c)
    BY <1>3, <2>2, ZenonT(60) DEF LifeInv, Referenced, Destroy
  <2> QED BY <1>1, <2>1, <2>3, ZenonT(60) DEF GoneInv, Alive
<1> QED BY <1>1, <1>2, <1>3, ZenonT(60) DEF LifeFacts, TableInv

\* The same after the step.
LEMMA LifeIsNext == ASSUME TypeOK', Kept', LifeInv', exists' PROVE LifeFacts'
<1>1. (TypeOK /\ Kept /\ LifeInv /\ exists)' => LifeFacts'
  BY LifeIs, PTL
<1> QED BY <1>1, ZenonT(60)

\* A destroyed connection stays destroyed if no reference to it is made up.
LEMMA GoneStays ==
  ASSUME GoneInv, GoneInv', Created \subseteq Created',
         \A f \in Fds : connections_'[f] = connections_[f] \/ connections_'[f] \notin gone,
         \A u \in Task : InQueue(queue', u) => InQueue(queue, u) \/ u.conn \notin gone,
         \A d \in held' : d \in held \/ d \notin gone
  PROVE  gone \subseteq gone'
<1> SUFFICES ASSUME NEW d \in gone PROVE d \in gone'
  OBVIOUS
<1>1. d \in Created /\ ~Referenced(connections_, queue, held, d)
  BY ZenonT(60) DEF GoneInv
<1>2. ~Referenced(connections_', queue', held', d)
  BY <1>1, ZenonT(60) DEF Referenced
<1>3. Referenced(connections_', queue', held', d) <=> Referenced(connections_, queue, held, d)'
  BY ZenonT(60) DEF Referenced, InQueue
<1> QED BY <1>1, <1>2, <1>3, ZenonT(60) DEF GoneInv

\* A connection in the table, or with a task that is to remove it, exists
\* after the step.
LEMMA StaysAlive ==
  ASSUME TypeOK', Kept', NEW c \in Created',
         (\E f \in Fds : connections_'[f] = c) \/ InQueue(queue', Destroy(c))
  PROVE  c \in Alive' /\ c \notin gone'
<1>1. c \in Conns /\ GoneInv'
  <2>1. conns' \in 0..MaxArrivals /\ MaxArrivals \in Nat
    BY ServerAssumption, ZenonT(60) DEF TypeOK, Counts
  <2> QED BY <2>1 DEF Created, Conns, Kept
<1>2. Destroy(c) \in Task /\ Destroy(c).conn = c
  BY <1>1, DestroyIs, ZenonT(60)
<1>3. Referenced(connections_', queue', held', c)
  BY <1>2, ZenonT(60) DEF Referenced
<1>4. Referenced(connections_', queue', held', c) <=> Referenced(connections_, queue, held, c)'
  BY ZenonT(60) DEF Referenced, InQueue
<1> QED BY <1>1, <1>3, <1>4, ZenonT(60) DEF GoneInv, Alive

\* What may happen to a connection in a step.
LifeStep(c) == Life(c)!Next \/ UNCHANGED <<Stage(c), Closes(c)>>

\* A step that does nothing to connection d, except that it may lose its last
\* reference: then its channel has been removed before.
LEMMA OtherKept ==
  ASSUME TypeOK, Kept, LifeFacts, TypeOK', Kept', LifeFacts', exists,
         NEW d \in Conns, gone \subseteq gone',
         d \in Created' <=> d \in Created,
         state_'[d] = state_[d], closes'[d] = closes[d], fd_'[d] = fd_[d],
         d \in Alive => /\ connections_'[fd_[d]] = d <=> connections_[fd_[d]] = d
                        /\ list'[fd_[d]] = d <=> list[fd_[d]] = d
  PROVE  LifeStep(d)
<1>1. /\ gone \subseteq Created /\ gone' \subseteq Created' /\ fd_[d] \in Fds
      /\ d # NoConn
  <2>1. gone \subseteq Created /\ gone' \subseteq Created'
    BY ZenonT(60) DEF Kept, GoneInv
  <2>2. fd_[d] \in Fds
    BY ZenonT(60) DEF TypeOK, Tables
  <2>3. d # NoConn
    BY ServerAssumption DEF Conns, NoConn
  <2> QED BY <2>1, <2>2, <2>3, ZenonT(60)
<1>2. Closes(d)' = Closes(d)
  BY ZenonT(60) DEF Closes
<1>3. CASE d \in gone
  <2>1. Stage(d) = "gone" /\ Stage(d)' = "gone"
    BY <1>3, ZenonT(60) DEF Stage
  <2> QED BY <1>2, <2>1, ZenonT(60) DEF LifeStep
<1>4. CASE d \notin Created
  <2>1. Stage(d) = "new" /\ Stage(d)' = "new"
    BY <1>1, <1>4, ZenonT(60) DEF Stage
  <2> QED BY <1>2, <2>1, ZenonT(60) DEF LifeStep
<1>5. CASE d \in Alive /\ d \notin gone'
  <2>1. d \in Created /\ d \in Created' /\ d \notin gone
    BY <1>5, ZenonT(60) DEF Alive
  <2>2. Stage(d)' = Stage(d)
    BY <1>5, <2>1, ZenonT(60) DEF Stage
  <2> QED BY <1>2, <2>2, ZenonT(60) DEF LifeStep
<1>6. CASE d \in Alive /\ d \in gone'
  <2>1. d \in Created /\ d \notin gone /\ d \notin Alive'
    BY <1>6, ZenonT(60) DEF Alive
  <2>2. connections_'[fd_[d]] # d /\ list'[fd_[d]] # d
    BY <1>1, <2>1, ZenonT(60) DEF LifeFacts
  <2>3. connections_[fd_[d]] # d /\ list[fd_[d]] # d
    BY <1>6, <2>2, ZenonT(60)
  <2>4. state_[d] = "DISCONNECTED"
    BY <1>6, <2>3, ZenonT(60) DEF LifeFacts
  <2>5. Stage(d) = "removed" /\ Stage(d)' = "gone"
    BY <1>6, <2>1, <2>3, <2>4, ZenonT(60) DEF Stage
  <2> QED BY <1>2, <2>5, ZenonT(60) DEF LifeStep, Life!Next, Life!Destroyed, Life!Moves
<1> QED BY <1>3, <1>4, <1>5, <1>6, ZenonT(60) DEF Alive

\* The invariants of a server that exists and whose descriptors are its own.
Settled == TypeOK /\ Kept /\ LifeInv /\ exists

\* What they say about the types and about the tasks that remove a connection.
LEMMA SettledIs ==
  ASSUME Settled
  PROVE  /\ queue \in Queues /\ conns \in Nat /\ MaxArrivals \in Nat
         /\ connections_ \in [Fds -> Conns \cup {NoConn}]
         /\ list \in [Fds -> Conns \cup {NoConn}]
         /\ fd_ \in [Conns -> Fds]
         /\ state_ \in [Conns -> {"CONNECTING", "CONNECTED", "DISCONNECTED"}]
         /\ closes \in [Conns -> 0..MaxCloses]
         /\ Created \subseteq Conns /\ NoConn \notin Conns
         /\ LifeFacts /\ GoneInv /\ TypeOK /\ Kept /\ OrderInv
         /\ \A u \in Task : InQueue(queue, u) /\ u.conn \in Conns =>
              u.conn \in Alive /\ u.conn \notin gone
<1>1. /\ queue \in Queues /\ conns \in Nat /\ MaxArrivals \in Nat
      /\ connections_ \in [Fds -> Conns \cup {NoConn}]
      /\ list \in [Fds -> Conns \cup {NoConn}]
      /\ fd_ \in [Conns -> Fds]
      /\ state_ \in [Conns -> {"CONNECTING", "CONNECTED", "DISCONNECTED"}]
      /\ closes \in [Conns -> 0..MaxCloses]
      /\ Created \subseteq Conns /\ NoConn \notin Conns
  <2>1. TypeOK /\ MaxArrivals \in Nat
    BY ServerAssumption, ZenonT(60) DEF Settled
  <2>2. /\ queue \in Queues /\ connections_ \in [Fds -> Conns \cup {NoConn}]
        /\ list \in [Fds -> Conns \cup {NoConn}] /\ fd_ \in [Conns -> Fds]
        /\ state_ \in [Conns -> {"CONNECTING", "CONNECTED", "DISCONNECTED"}]
        /\ closes \in [Conns -> 0..MaxCloses] /\ conns \in 0..MaxArrivals
    BY <2>1, ZenonT(60) DEF TypeOK, Tables, Counts, Queues
  <2>3. conns \in Nat /\ Created \subseteq Conns /\ NoConn \notin Conns
    BY <2>1, <2>2 DEF Created, Conns, NoConn
  <2> QED BY <2>1, <2>2, <2>3, ZenonT(60)
<1>2. LifeFacts /\ GoneInv /\ OrderInv /\ TypeOK /\ Kept
  BY LifeIs, ZenonT(60) DEF Settled, Kept
<1>3. ASSUME NEW u \in Task, InQueue(queue, u), u.conn \in Conns
      PROVE  u.conn \in Alive /\ u.conn \notin gone
  <2>1. u.conn <= conns
    BY <1>2, <1>3, ZenonT(60) DEF OrderInv
  <2>2. u.conn \in Created
    BY <1>1, <1>3, <2>1 DEF Created, Conns
  <2>3. Referenced(connections_, queue, held, u.conn)
    BY <1>3, ZenonT(60) DEF Referenced
  <2> QED BY <1>2, <2>2, <2>3, ZenonT(60) DEF GoneInv, Alive
<1> QED BY <1>1, <1>2, <1>3, ZenonT(60)

\* A registered channel belongs to an existing connection.
LEMMA Registered ==
  ASSUME Settled, NEW f \in Fds, list[f] # NoConn
  PROVE  /\ list[f] \in Conns /\ list[f] \in Alive /\ fd_[list[f]] = f
         /\ connections_[f] = list[f] \/ InQueue(queue, Destroy(list[f]))
<1>1. list[f] \in Conns /\ list[f] \in Alive
  BY SettledIs, ZenonT(60) DEF LifeFacts
<1>2. LifeInv
  BY ZenonT(60) DEF Settled
<1> QED BY <1>1, <1>2, ZenonT(60) DEF LifeInv, Destroy

\* A connection is removed only once it is closed and out of the table; an
\* established connection in the table is registered.
LEMMA CreatedIs ==
  ASSUME Settled, NEW c \in Created
  PROVE  /\ c \in Conns /\ fd_[c] \in Fds
         /\ InQueue(queue, Destroy(c)) =>
              state_[c] = "DISCONNECTED" /\ connections_[fd_[c]] # c
         /\ connections_[fd_[c]] = c /\ state_[c] # "CONNECTING" => list[fd_[c]] = c
<1>1. c \in Conns /\ fd_[c] \in Fds
  BY SettledIs, ZenonT(60)
<1>2. LifeInv
  BY ZenonT(60) DEF Settled
<1> QED BY <1>1, <1>2, ZenonT(60) DEF LifeInv, Destroy

\* Two connections that exist have two descriptors.
LEMMA OwnFd ==
  ASSUME Settled, NEW c \in Alive, NEW d \in Alive, c # d
  PROVE  fd_[c] # fd_[d]
BY SettledIs, ZenonT(60) DEF LifeFacts

\* A connection is closed once close_cb_ has been called.
LEMMA ClosedIs ==
  ASSUME Settled, NEW c \in Conns
  PROVE  closes[c] \in Nat /\ (closes[c] = 0 <=> state_[c] # "DISCONNECTED")
<1>1. closes \in [Conns -> 0..MaxCloses] /\ LifeInv
  BY SettledIs, ZenonT(60) DEF Settled
<1> QED BY <1>1, LifeCloses, ZenonT(60)

\* A connection that becomes closed and is erased at once, or not yet.
LEMMA IsClosed ==
  ASSUME NEW c, Stage(c) = "open", Stage(c)' \in {"closed", "erased"},
         Closes(c) = 0, Closes(c)' = 1
  PROVE  LifeStep(c)
BY DEF LifeStep, Life!Next, Life!Closed, Life!Moves

\* LifeInv after a step, in terms of the new values.
LEMMA MakeLifeInv ==
  ASSUME \A f \in Fds : list'[f] # NoConn =>
           /\ fd_'[list'[f]] = f
           /\ connections_'[f] = list'[f] \/ InQueue(queue', Destroy(list'[f])),
         \A c \in Created' :
           /\ InQueue(queue', Destroy(c)) =>
                state_'[c] = "DISCONNECTED" /\ connections_'[fd_'[c]] # c
           /\ connections_'[fd_'[c]] = c /\ state_'[c] # "CONNECTING"
                => list'[fd_'[c]] = c,
         \A c \in Conns : closes'[c] = 0 <=> state_'[c] # "DISCONNECTED"
  PROVE  LifeInv'
<1>1. \A c : InQueue(queue, Destroy(c))' <=> InQueue(queue', Destroy(c))
  BY ZenonT(60) DEF InQueue, Destroy, Do
<1> QED BY <1>1, ZenonT(60) DEF LifeInv, Destroy, InQueue, Do

\* A step that touches neither the connections nor the tasks for them.
LEMMA LifeStutter ==
  ASSUME Settled, TypeOK', Kept', exists',
         UNCHANGED <<connections_, list, objects, held, gone>>,
         \A c \in Conns : InQueue(queue', Destroy(c)) <=> InQueue(queue, Destroy(c))
  PROVE  LifeInv' /\ \A c \in Conns : LifeStep(c)
<1>1. /\ connections_' = connections_ /\ list' = list /\ conns' = conns /\ fd_' = fd_
      /\ state_' = state_ /\ closes' = closes /\ gone' = gone /\ Created' = Created
  BY ZenonT(60) DEF objects, Created
<1>2. LifeInv'
  <2>1. \A f \in Fds : list'[f] # NoConn =>
           /\ fd_'[list'[f]] = f
           /\ connections_'[f] = list'[f] \/ InQueue(queue', Destroy(list'[f]))
    BY <1>1, Registered, ZenonT(60)
  <2>2. \A c \in Created' :
           /\ InQueue(queue', Destroy(c)) =>
                state_'[c] = "DISCONNECTED" /\ connections_'[fd_'[c]] # c
           /\ connections_'[fd_'[c]] = c /\ state_'[c] # "CONNECTING"
                => list'[fd_'[c]] = c
    BY <1>1, CreatedIs, ZenonT(60)
  <2>3. \A c \in Conns : closes'[c] = 0 <=> state_'[c] # "DISCONNECTED"
    BY <1>1, ClosedIs, ZenonT(60)
  <2> QED BY <2>1, <2>2, <2>3, MakeLifeInv, ZenonT(60)
<1>3. ASSUME NEW c \in Conns PROVE LifeStep(c)
  <2>1. Stage(c)' = Stage(c) /\ Closes(c)' = Closes(c)
    BY <1>1, ZenonT(60) DEF Stage, Closes
  <2> QED BY <2>1, ZenonT(60) DEF LifeStep
<1> QED BY <1>2, <1>3, ZenonT(60)

\* A task is taken: what remains, and whose it was.
LEMMA TakenTask ==
  ASSUME Settled, NEW l \in Loops, queue[l] # <<>>,
         queue' = [queue EXCEPT ![l] = Tail(@)]
  PROVE  LET t == Head(queue[l])
         IN  /\ t \in Task /\ InQueue(queue, t)
             /\ \A u : InQueue(queue', u) => InQueue(queue, u)
             /\ \A u : InQueue(queue, u) => InQueue(queue', u) \/ u = t
BY SettledIs, TakeQueue, ZenonT(60)

\* ConnectEstablished registers the connection: new becomes open.
LEMMA EstablishedLife ==
  ASSUME Settled, TypeOK', Kept', exists', NEW l \in Loops, ConnectEstablished(l)
  PROVE  LifeInv' /\ \A c \in Conns : LifeStep(c)
<1> DEFINE t0 == Head(queue[l])
           c == t0.conn
<1>1. /\ queue[l] # <<>> /\ t0.op = "ConnectEstablished"
      /\ state_' = [state_ EXCEPT ![c] = "CONNECTED"]
      /\ list' = [list EXCEPT ![fd_[c]] = c]
      /\ UNCHANGED <<conns, fd_, closes>>
  BY ZenonT(60) DEF ConnectEstablished, Task1
<1>2. /\ queue' = [queue EXCEPT ![l] = Tail(@)] /\ connections_' = connections_
      /\ held' \in {held, held \cup {c}}
  BY ZenonT(60) DEF ConnectEstablished, Drop
<1>3. /\ t0 \in Task /\ InQueue(queue, t0)
      /\ \A u : InQueue(queue', u) => InQueue(queue, u)
      /\ \A u : InQueue(queue, u) => InQueue(queue', u) \/ u = t0
  BY <1>1, <1>2, TakenTask, ZenonT(60)
<1> HIDE DEF t0
<1>4. c \in Conns /\ state_[c] = "CONNECTING" /\ c \in Alive /\ c \notin gone
  <2>1. c \in Conns
    BY <1>1, <1>3, ForConn, ZenonT(60)
  <2> QED BY <1>1, <1>3, <2>1, SettledIs, ZenonT(60) DEF OrderInv
<1> HIDE DEF c
<1>5. connections_[fd_[c]] = c /\ fd_[c] \in Fds /\ c \in Created
  BY <1>4, SettledIs, ZenonT(60) DEF LifeFacts, Alive
<1>6. /\ state_'[c] = "CONNECTED" /\ list'[fd_[c]] = c
      /\ \A d \in Conns : d # c => state_'[d] = state_[d]
      /\ \A f \in Fds : f # fd_[c] => list'[f] = list[f]
      /\ Created' = Created
  BY <1>1, <1>4, <1>5, SettledIs, ZenonT(60) DEF Created
<1>7. \A d \in Conns : InQueue(queue, Destroy(d)) => InQueue(queue', Destroy(d))
  <2>1. \A d \in Conns : Destroy(d) # t0
    BY <1>1, <1>3, DestroyIs, ZenonT(60)
  <2> QED BY <1>3, <2>1, ZenonT(60)
<1>8. LifeInv'
  <2>1. ASSUME NEW f \in Fds, list'[f] # NoConn
        PROVE  /\ fd_'[list'[f]] = f
               /\ connections_'[f] = list'[f] \/ InQueue(queue', Destroy(list'[f]))
    <3>1. CASE f = fd_[c]
      BY <1>1, <1>2, <1>5, <1>6, <3>1, ZenonT(60)
    <3>2. CASE f # fd_[c]
      <4>1. list'[f] = list[f] /\ list[f] \in Conns
        BY <1>6, <2>1, <3>2, SettledIs, ZenonT(60)
      <4> QED BY <1>1, <1>2, <1>7, <2>1, <4>1, Registered, ZenonT(60)
    <3> QED BY <3>1, <3>2, ZenonT(60)
  <2>2. ASSUME NEW d \in Created'
        PROVE  /\ InQueue(queue', Destroy(d)) =>
                    state_'[d] = "DISCONNECTED" /\ connections_'[fd_'[d]] # d
               /\ connections_'[fd_'[d]] = d /\ state_'[d] # "CONNECTING"
                    => list'[fd_'[d]] = d
    <3>1. d \in Created /\ d \in Conns /\ fd_[d] \in Fds
      BY <1>6, SettledIs, ZenonT(60)
    <3>2. InQueue(queue', Destroy(d)) => d # c
      BY <1>3, <1>4, <3>1, CreatedIs, ZenonT(60)
    <3>3. connections_[fd_[d]] = d /\ d # c => fd_[d] # fd_[c]
      BY <1>5, ZenonT(60)
    <3>4. fd_'[d] = fd_[d] /\ connections_' = connections_
      BY <1>1, <1>2, ZenonT(60)
    <3>5. CASE d = c
      BY <1>6, <3>2, <3>4, <3>5, ZenonT(60)
    <3>6. CASE d # c
      <4>1. /\ state_'[d] = state_[d]
            /\ fd_[d] # fd_[c] => list'[fd_[d]] = list[fd_[d]]
        BY <1>6, <3>1, <3>6, ZenonT(60)
      <4>2. InQueue(queue', Destroy(d)) => InQueue(queue, Destroy(d))
        BY <1>3, ZenonT(60)
      <4> QED BY <3>1, <3>3, <3>4, <3>6, <4>1, <4>2, CreatedIs, ZenonT(60)
    <3> QED BY <3>5, <3>6, ZenonT(60)
  <2>3. \A d \in Conns : closes'[d] = 0 <=> state_'[d] # "DISCONNECTED"
    BY <1>1, <1>4, <1>6, ClosedIs, ZenonT(60)
  <2> QED BY <2>1, <2>2, <2>3, MakeLifeInv, ZenonT(60)
<1>9. LifeFacts' /\ c \notin gone'
  BY <1>2, <1>5, <1>6, <1>8, LifeIsNext, StaysAlive, ZenonT(60)
<1>10. gone \subseteq gone'
  <2>1. \A d \in held' : d \in held \/ d \notin gone
    BY <1>2, <1>4, ZenonT(60)
  <2> QED BY <1>2, <1>3, <1>6, <2>1, GoneStays, SettledIs, ZenonT(60) DEF Kept
<1>11. ASSUME NEW b \in Conns, b = c PROVE LifeStep(b)
  <2>1. Stage(b) = "new" /\ Stage(b)' = "open" /\ Closes(b)' = Closes(b)
    <3>1. fd_'[b] = fd_[b] /\ connections_'[fd_[b]] = b /\ closes'[b] = closes[b]
      BY <1>11, <1>1, <1>2, <1>5, ZenonT(60)
    <3>2. Stage(b) = "new"
      BY <1>11, <1>4, ZenonT(60) DEF Stage
    <3>3. Stage(b)' = "open"
      BY <1>11, <1>5, <1>6, <1>9, <3>1, ZenonT(60) DEF Stage
    <3> QED BY <1>11, <3>1, <3>2, <3>3, ZenonT(60) DEF Closes
  <2> QED BY <2>1, ZenonT(60) DEF LifeStep, Life!Next, Life!Established, Life!Moves
<1>12. ASSUME NEW d \in Conns, d # c PROVE LifeStep(d)
  <2>1. d \in Alive => fd_[d] # fd_[c] /\ fd_[d] \in Fds
    BY <1>4, <1>12, SettledIs, ZenonT(60) DEF LifeFacts
  <2> QED BY <1>1, <1>2, <1>6, <1>9, <1>10, <1>12, <2>1, OtherKept, SettledIs, ZenonT(60) DEF Settled
<1> QED BY <1>8, <1>11, <1>12, ZenonT(60)

\* ConnectDestoryed removes the channel of a closed connection, which may be
\* destroyed with it.
LEMMA DestoryedLife ==
  ASSUME Settled, TypeOK', Kept', exists', NEW l \in Loops, ConnectDestoryed(l)
  PROVE  LifeInv' /\ \A c \in Conns : LifeStep(c)
<1> DEFINE t0 == Head(queue[l])
           c == t0.conn
<1>1. /\ queue[l] # <<>> /\ t0.op = "ConnectDestoryed"
      /\ list' = [list EXCEPT ![fd_[c]] = NoConn]
      /\ UNCHANGED <<conns, fd_, state_, closes>>
  BY ZenonT(60) DEF ConnectDestoryed, Task1, objects
<1>2. /\ queue' = [queue EXCEPT ![l] = Tail(@)] /\ connections_' = connections_
      /\ held' = held
  BY ZenonT(60) DEF ConnectDestoryed, Drop
<1>3. /\ t0 \in Task /\ InQueue(queue, t0)
      /\ \A u : InQueue(queue', u) => InQueue(queue, u)
      /\ \A u : InQueue(queue, u) => InQueue(queue', u) \/ u = t0
  BY <1>1, <1>2, TakenTask, ZenonT(60)
<1> HIDE DEF t0
<1>4. c \in Conns /\ c \in Alive /\ c \notin gone /\ t0 = Destroy(c)
  <2>1. c \in Conns
    BY <1>1, <1>3, ForConn, ZenonT(60)
  <2>2. t0 = Destroy(c)
    BY <1>1, <1>3, ForConn, ZenonT(60) DEF Destroy
  <2> QED BY <1>3, <2>1, <2>2, SettledIs, ZenonT(60)
<1> HIDE DEF c
<1>5. /\ state_[c] = "DISCONNECTED" /\ connections_[fd_[c]] # c
      /\ fd_[c] \in Fds /\ c \in Created /\ c # NoConn
  <2>1. c \in Created /\ c # NoConn
    BY <1>4, SettledIs, ZenonT(60) DEF Alive
  <2> QED BY <1>3, <1>4, <2>1, CreatedIs, ZenonT(60)
<1>6. /\ list'[fd_[c]] = NoConn
      /\ \A f \in Fds : f # fd_[c] => list'[f] = list[f]
      /\ Created' = Created
  BY <1>1, <1>4, <1>5, SettledIs, ZenonT(60) DEF Created
<1>7. \A d \in Conns : d # c /\ InQueue(queue, Destroy(d)) => InQueue(queue', Destroy(d))
  <2>1. \A d \in Conns : d # c => Destroy(d) # t0
    BY <1>4, DestroyIs, ZenonT(60)
  <2> QED BY <1>3, <2>1, ZenonT(60)
<1>8. LifeInv'
  <2>1. ASSUME NEW f \in Fds, list'[f] # NoConn
        PROVE  /\ fd_'[list'[f]] = f
               /\ connections_'[f] = list'[f] \/ InQueue(queue', Destroy(list'[f]))
    <3>1. f # fd_[c] /\ list'[f] = list[f] /\ list[f] \in Conns
      BY <1>6, <2>1, SettledIs, ZenonT(60)
    <3>2. fd_[list[f]] = f /\ list[f] # c
      BY <2>1, <3>1, Registered, ZenonT(60)
    <3> QED BY <1>1, <1>2, <1>7, <2>1, <3>1, <3>2, Registered, ZenonT(60)
  <2>2. ASSUME NEW d \in Created'
        PROVE  /\ InQueue(queue', Destroy(d)) =>
                    state_'[d] = "DISCONNECTED" /\ connections_'[fd_'[d]] # d
               /\ connections_'[fd_'[d]] = d /\ state_'[d] # "CONNECTING"
                    => list'[fd_'[d]] = d
    <3>1. d \in Created /\ d \in Conns /\ fd_[d] \in Fds /\ d # NoConn
      BY <1>6, SettledIs, ZenonT(60)
    <3>2. connections_[fd_[d]] = d => fd_[d] # fd_[c]
      <4>1. connections_[fd_[d]] = d => d \in Alive
        BY <3>1, SettledIs, ZenonT(60) DEF LifeFacts
      <4> QED BY <1>4, <1>5, <4>1, SettledIs, ZenonT(60) DEF LifeFacts
    <3> QED BY <1>1, <1>2, <1>3, <1>6, <3>1, <3>2, CreatedIs, ZenonT(60)
  <2>3. \A d \in Conns : closes'[d] = 0 <=> state_'[d] # "DISCONNECTED"
    BY <1>1, ClosedIs, ZenonT(60)
  <2> QED BY <2>1, <2>2, <2>3, MakeLifeInv, ZenonT(60)
<1>9. LifeFacts'
  BY <1>8, LifeIsNext, ZenonT(60)
<1>10. gone \subseteq gone'
  BY <1>2, <1>3, <1>6, GoneStays, SettledIs, ZenonT(60) DEF Kept
<1>11. ASSUME NEW b \in Conns, b = c PROVE LifeStep(b)
  <2>1. /\ Stage(b) \in {"erased", "removed"} /\ Stage(b)' \in {"removed", "gone"}
        /\ Closes(b)' = Closes(b)
    <3>1. /\ fd_'[b] = fd_[b] /\ connections_'[fd_[b]] # b /\ list'[fd_[b]] # b
          /\ state_'[b] = "DISCONNECTED" /\ closes'[b] = closes[b]
      BY <1>11, <1>1, <1>2, <1>5, <1>6, ZenonT(60)
    <3>2. Stage(b) \in {"erased", "removed"}
      BY <1>11, <1>4, <1>5, ZenonT(60) DEF Stage
    <3>3. Stage(b)' \in {"removed", "gone"}
      BY <1>11, <1>5, <1>6, <3>1, ZenonT(60) DEF Stage
    <3> QED BY <1>11, <3>1, <3>2, <3>3, ZenonT(60) DEF Closes
  <2> QED BY <2>1, ZenonT(60) DEF LifeStep, Life!Next, Life!Removed, Life!Destroyed, Life!Moves
<1>12. ASSUME NEW d \in Conns, d # c PROVE LifeStep(d)
  <2>1. d \in Alive => fd_[d] # fd_[c] /\ fd_[d] \in Fds
    BY <1>4, <1>12, SettledIs, ZenonT(60) DEF LifeFacts
  <2> QED BY <1>1, <1>2, <1>6, <1>9, <1>10, <1>12, <2>1, OtherKept, SettledIs, ZenonT(60) DEF Settled
<1> QED BY <1>8, <1>11, <1>12, ZenonT(60)

\* The application drops a shared_ptr: at most it destroys the connection.
LEMMA ReleaseLife ==
  ASSUME Settled, TypeOK', Kept', exists', NEW c \in Conns, Release(c)
  PROVE  LifeInv' /\ \A d \in Conns : LifeStep(d)
<1>1. /\ connections_' = connections_ /\ queue' = queue /\ held' = held \ {c}
      /\ list' = list /\ conns' = conns /\ fd_' = fd_ /\ state_' = state_
      /\ closes' = closes /\ Created' = Created
  BY ZenonT(60) DEF Release, Drop, objects, Created
<1>2. LifeInv'
  BY <1>1, MakeLifeInv, ZenonT(60) DEF Settled, LifeInv, Destroy
<1>3. LifeFacts' /\ gone \subseteq gone'
  BY <1>1, <1>2, LifeIsNext, GoneStays, SettledIs, ZenonT(60) DEF Kept
<1> QED BY <1>1, <1>2, <1>3, OtherKept, SettledIs, ZenonT(60) DEF Settled

\* RemoveConnectionInLoop of a connection that is closed by then: if it was in
\* the table it is erased from it.
LEMMA RemoveLife ==
  ASSUME Settled, TypeOK', Kept', exists', NEW c \in Conns, c \in Alive,
         NEW q \in Queues, RemoveConnectionInLoop(c, q),
         \A u : InQueue(q, u) => InQueue(queue, u),
         \A d \in Conns : InQueue(queue, Destroy(d)) => InQueue(q, Destroy(d)),
         UNCHANGED <<list, conns, fd_>>,
         state_[c] = "DISCONNECTED" \/ (state_[c] = "CONNECTED" /\ list[fd_[c]] = c),
         state_'[c] = "DISCONNECTED", closes'[c] # 0,
         \A d \in Conns : d # c => state_'[d] = state_[d] /\ closes'[d] = closes[d]
  PROVE  LifeInv' /\ \A d \in Conns : LifeStep(d)
<1>1. /\ connections_' = [connections_ EXCEPT ![fd_[c]] = NoConn]
      /\ queue' = [q EXCEPT ![LoopOf(fd_[c])] = Append(@, Destroy(c))]
      /\ held' = held
  BY ZenonT(60) DEF RemoveConnectionInLoop, Drop, Destroy
<1>2. /\ fd_[c] \in Fds /\ c \in Created /\ c # NoConn /\ c \notin gone
      /\ Destroy(c) \in Task /\ Destroy(c).conn = c
  BY DestroyIs, SettledIs, ZenonT(60) DEF Alive
<1>3. \A u : InQueue(queue', u) <=> InQueue(q, u) \/ u = Destroy(c)
  <2>1. LoopOf(fd_[c]) \in Loops
    BY <1>2, LoopOfIsLoop, ZenonT(60) DEF Settled
  <2> QED BY <1>1, <1>2, <2>1, AppendQueue, ZenonT(60)
<1>4. /\ connections_'[fd_[c]] = NoConn
      /\ \A f \in Fds : f # fd_[c] => connections_'[f] = connections_[f]
      /\ list' = list /\ fd_' = fd_ /\ Created' = Created
  BY <1>1, <1>2, SettledIs, ZenonT(60) DEF Created
<1>5. /\ InQueue(queue', Destroy(c))
      /\ \A d \in Conns : d # c =>
           (InQueue(queue', Destroy(d)) <=> InQueue(queue, Destroy(d)))
  <2>1. \A d \in Conns : d # c => Destroy(d) # Destroy(c)
    BY DestroyIs, ZenonT(60)
  <2> QED BY <1>3, <2>1, ZenonT(60)
<1>6. LifeInv'
  <2>1. ASSUME NEW f \in Fds, list'[f] # NoConn
        PROVE  /\ fd_'[list'[f]] = f
               /\ connections_'[f] = list'[f] \/ InQueue(queue', Destroy(list'[f]))
    <3>1. /\ list'[f] = list[f] /\ list[f] \in Conns /\ fd_[list[f]] = f
          /\ list[f] \in Alive
      BY <1>4, <2>1, Registered, ZenonT(60)
    <3>2. list[f] # c => f # fd_[c]
      BY <3>1, OwnFd, ZenonT(60)
    <3>3. connections_[f] = list[f] \/ InQueue(queue, Destroy(list[f]))
      BY <2>1, <3>1, Registered, ZenonT(60)
    <3> QED BY <1>4, <1>5, <3>1, <3>2, <3>3, ZenonT(60)
  <2>2. ASSUME NEW d \in Created'
        PROVE  /\ InQueue(queue', Destroy(d)) =>
                    state_'[d] = "DISCONNECTED" /\ connections_'[fd_'[d]] # d
               /\ connections_'[fd_'[d]] = d /\ state_'[d] # "CONNECTING"
                    => list'[fd_'[d]] = d
    <3>1. d \in Created /\ d \in Conns /\ fd_[d] \in Fds /\ d # NoConn /\ fd_'[d] = fd_[d]
      BY <1>4, SettledIs, ZenonT(60)
    <3>2. connections_'[fd_[d]] = d => d # c /\ connections_[fd_[d]] = d
      BY <1>2, <1>4, <3>1, ZenonT(60)
    <3>3. CASE d = c
      BY <3>1, <3>2, <3>3, ZenonT(60)
    <3>4. CASE d # c
      BY <1>4, <1>5, <3>1, <3>2, <3>4, CreatedIs, ZenonT(60)
    <3> QED BY <3>3, <3>4, ZenonT(60)
  <2>3. \A d \in Conns : closes'[d] = 0 <=> state_'[d] # "DISCONNECTED"
    BY ClosedIs, ZenonT(60)
  <2> QED BY <2>1, <2>2, <2>3, MakeLifeInv, ZenonT(60)
<1>7. LifeFacts' /\ c \notin gone'
  BY <1>2, <1>4, <1>5, <1>6, LifeIsNext, StaysAlive, ZenonT(60)
<1>8. gone \subseteq gone'
  <2>1. \A f \in Fds : connections_'[f] = connections_[f] \/ connections_'[f] \notin gone
    BY <1>4, SettledIs, ZenonT(60) DEF GoneInv
  <2>2. \A u \in Task : InQueue(queue', u) => InQueue(queue, u) \/ u.conn \notin gone
    BY <1>2, <1>3, ZenonT(60)
  <2> QED BY <1>1, <1>4, <2>1, <2>2, GoneStays, SettledIs, ZenonT(60) DEF Kept
<1>9. LifeStep(c)
  <2>1. /\ Closes(c) = (IF state_[c] = "DISCONNECTED" THEN 1 ELSE 0) /\ Closes(c)' = 1
    BY ZenonT(60) DEF Closes, Settled, LifeInv
  <2>2. fd_'[c] = fd_[c] /\ connections_'[fd_[c]] # c /\ list'[fd_[c]] = list[fd_[c]]
    BY <1>2, <1>4, ZenonT(60)
  <2>3. Stage(c)' = IF list[fd_[c]] = c THEN "erased" ELSE "removed"
    BY <1>2, <1>4, <1>7, <2>2, ZenonT(60) DEF Stage
  <2>4. connections_[fd_[c]] = c => list[fd_[c]] = c
    BY <1>2, CreatedIs, ZenonT(60)
  <2>5. CASE state_[c] = "CONNECTED"
    <3>1. connections_[fd_[c]] = c
      BY <2>5, SettledIs, ZenonT(60) DEF LifeFacts
    <3>2. Stage(c) = "open" /\ Stage(c)' = "erased"
      BY <1>2, <2>3, <2>5, <3>1, ZenonT(60) DEF Stage
    <3> QED BY <2>1, <2>5, <3>2, IsClosed, ZenonT(60)
  <2>6. CASE state_[c] = "DISCONNECTED"
    <3>1. Stage(c) = IF connections_[fd_[c]] = c THEN "closed"
                     ELSE IF list[fd_[c]] = c THEN "erased" ELSE "removed"
      BY <1>2, <2>6, ZenonT(60) DEF Stage
    <3> QED BY <2>1, <2>3, <2>4, <2>6, <3>1, ZenonT(60)
            DEF LifeStep, Life!Next, Life!Erased, Life!Moves
  <2> QED BY <2>5, <2>6, ZenonT(60)
<1>10. ASSUME NEW d \in Conns, d # c PROVE LifeStep(d)
  <2>1. d \in Alive => fd_[d] # fd_[c] /\ fd_[d] \in Fds
    BY <1>10, SettledIs, ZenonT(60) DEF LifeFacts
  <2> QED BY <1>4, <1>7, <1>8, <1>10, <2>1, OtherKept, SettledIs, ZenonT(60) DEF Settled
<1> QED BY <1>6, <1>9, <1>10, ZenonT(60)

\* The queued RemoveConnectionInLoop runs.
LEMMA RunRemoveLife ==
  ASSUME Settled, TypeOK', Kept', exists', RunRemoveConnection
  PROVE  LifeInv' /\ \A c \in Conns : LifeStep(c)
<1> DEFINE t0 == Head(queue[0])
           q == [queue EXCEPT ![0] = Tail(@)]
<1>1. /\ queue[0] # <<>> /\ t0.op = "RemoveConnectionInLoop"
      /\ RemoveConnectionInLoop(t0.conn, q)
      /\ UNCHANGED <<list, conns, fd_, state_, closes>>
  BY ZenonT(60) DEF RunRemoveConnection, Task1, objects
<1>2. /\ q \in Queues /\ t0 \in Task /\ InQueue(queue, t0)
      /\ \A u : InQueue(q, u) => InQueue(queue, u)
      /\ \A u : InQueue(queue, u) => InQueue(q, u) \/ u = t0
  BY <1>1, LoopZero, TakeQueue, SettledIs, ZenonT(60)
<1> HIDE DEF t0, q
<1>3. \A d \in Conns : InQueue(queue, Destroy(d)) => InQueue(q, Destroy(d))
  <2>1. \A d \in Conns : Destroy(d) # t0
    BY <1>1, <1>2, DestroyIs, ZenonT(60)
  <2> QED BY <1>2, <2>1, ZenonT(60)
<1>4. /\ t0.conn \in Conns /\ t0.conn \in Alive
      /\ state_[t0.conn] = "DISCONNECTED" /\ closes[t0.conn] # 0
  <2>1. t0.conn \in Conns
    BY <1>1, <1>2, ForConn, ZenonT(60)
  <2>2. state_[t0.conn] = "DISCONNECTED"
    BY <1>1, <1>2, SettledIs, ZenonT(60) DEF OrderInv
  <2> QED BY <1>2, <2>1, <2>2, SettledIs, ClosedIs, ZenonT(60)
<1>5. ASSUME NEW c \in Conns, c = t0.conn PROVE LifeInv' /\ \A d \in Conns : LifeStep(d)
  <2>1. c \in Alive /\ RemoveConnectionInLoop(c, q) /\ state_[c] = "DISCONNECTED"
    BY <1>1, <1>4, <1>5, ZenonT(60)
  <2>2. /\ state_'[c] = "DISCONNECTED" /\ closes'[c] # 0
        /\ \A d \in Conns : d # c => state_'[d] = state_[d] /\ closes'[d] = closes[d]
    BY <1>1, <1>4, <1>5, ZenonT(60)
  <2> QED BY <1>1, <1>2, <1>3, <2>1, <2>2, RemoveLife, ZenonT(60)
<1> QED BY <1>4, <1>5, ZenonT(60)

\* CloseHandler: an open connection becomes closed, or erased at once if the
\* server has only one loop; a closed one may be closed again.
LEMMA CloseLife ==
  ASSUME Settled, TypeOK', Kept', exists', NEW c \in Conns, CloseHandler(c)
  PROVE  LifeInv' /\ \A d \in Conns : LifeStep(d)
<1>1. /\ list[fd_[c]] = c /\ c \notin gone
      /\ state_' = [state_ EXCEPT ![c] = "DISCONNECTED"]
      /\ closes' = [closes EXCEPT ![c] = @ + 1]
      /\ UNCHANGED <<list, conns, fd_>>
  BY ZenonT(60) DEF CloseHandler
<1>2. /\ fd_[c] \in Fds /\ c \in Alive /\ c \in Created /\ c # NoConn
      /\ state_[c] \in {"CONNECTED", "DISCONNECTED"}
  <2>1. fd_[c] \in Fds /\ c # NoConn
    BY SettledIs, ZenonT(60)
  <2>2. state_[c] # "CONNECTING"
    BY <1>1, <2>1, SettledIs, ZenonT(60) DEF OrderInv
  <2>3. c \in Alive
    BY <1>1, <2>1, SettledIs, ZenonT(60) DEF LifeFacts
  <2> QED BY <2>1, <2>2, <2>3, SettledIs, ZenonT(60) DEF Alive
<1>3. /\ state_'[c] = "DISCONNECTED" /\ closes'[c] # 0
      /\ \A d \in Conns : d # c => state_'[d] = state_[d] /\ closes'[d] = closes[d]
  <2>1. closes[c] \in Nat
    BY ClosedIs, ZenonT(60)
  <2> QED BY <1>1, <2>1, SettledIs
<1>4. CASE loop_list_ = 0
  <2>1. RemoveConnectionInLoop(c, queue)
    BY <1>4, ZenonT(60) DEF CloseHandler
  <2> QED BY <1>1, <1>2, <1>3, <2>1, RemoveLife, SettledIs, ZenonT(60)
<1>5. CASE loop_list_ # 0
  <2> DEFINE t0 == Do("RemoveConnectionInLoop", c)
  <2>1. /\ queue' = [queue EXCEPT ![0] = Append(@, t0)]
        /\ connections_' = connections_ /\ held' = held /\ gone' = gone
        /\ list' = list /\ fd_' = fd_ /\ Created' = Created
    BY <1>1, <1>5, ZenonT(60) DEF CloseHandler, Created
  <2>2. \A d \in Conns : InQueue(queue', Destroy(d)) <=> InQueue(queue, Destroy(d))
    <3>1. t0 \in Task /\ t0.op = "RemoveConnectionInLoop"
      BY TaskIs, ZenonT(60)
    <3> HIDE DEF t0
    <3>2. \A u : InQueue(queue', u) <=> InQueue(queue, u) \/ u = t0
      BY <2>1, <3>1, LoopZero, AppendQueue, SettledIs, ZenonT(60)
    <3>3. \A d \in Conns : Destroy(d) # t0
      BY <3>1, DestroyIs, ZenonT(60)
    <3> QED BY <3>2, <3>3, ZenonT(60)
  <2> HIDE DEF t0
  <2>3. LifeInv'
    <3>1. ASSUME NEW f \in Fds, list'[f] # NoConn
          PROVE  /\ fd_'[list'[f]] = f
                 /\ connections_'[f] = list'[f] \/ InQueue(queue', Destroy(list'[f]))
      <4>1. list[f] \in Conns /\ list[f] # NoConn
        BY <2>1, <3>1, SettledIs, ZenonT(60)
      <4>2. fd_[list[f]] = f /\ (connections_[f] = list[f] \/ InQueue(queue, Destroy(list[f])))
        BY <4>1, Registered, ZenonT(60)
      <4> QED BY <2>1, <2>2, <4>1, <4>2, ZenonT(60)
    <3>2. ASSUME NEW d \in Created'
          PROVE  /\ InQueue(queue', Destroy(d)) =>
                      state_'[d] = "DISCONNECTED" /\ connections_'[fd_'[d]] # d
                 /\ connections_'[fd_'[d]] = d /\ state_'[d] # "CONNECTING"
                      => list'[fd_'[d]] = d
      <4>1. d \in Created /\ d \in Conns
        BY <2>1, SettledIs, ZenonT(60)
      <4>2. /\ InQueue(queue, Destroy(d)) =>
                 state_[d] = "DISCONNECTED" /\ connections_[fd_[d]] # d
            /\ connections_[fd_[d]] = d /\ state_[d] # "CONNECTING" => list[fd_[d]] = d
        BY <4>1, CreatedIs, ZenonT(60)
      <4>3. fd_'[d] = fd_[d] /\ connections_'[fd_[d]] = connections_[fd_[d]]
            /\ list'[fd_[d]] = list[fd_[d]]
        BY <2>1, ZenonT(60)
      <4> QED BY <1>1, <1>3, <2>2, <4>1, <4>2, <4>3, ZenonT(60)
    <3>3. \A d \in Conns : closes'[d] = 0 <=> state_'[d] # "DISCONNECTED"
      BY <1>3, ClosedIs, ZenonT(60)
    <3> QED BY <3>1, <3>2, <3>3, MakeLifeInv, ZenonT(60)
  <2>4. LifeFacts'
    BY <2>3, LifeIsNext, ZenonT(60)
  <2>5. LifeStep(c)
    <3>1. Closes(c) = (IF state_[c] = "DISCONNECTED" THEN 1 ELSE 0) /\ Closes(c)' = 1
      BY <1>3, ZenonT(60) DEF Closes, Settled, LifeInv
    <3>2. fd_'[c] = fd_[c] /\ connections_'[fd_[c]] = connections_[fd_[c]]
          /\ list'[fd_[c]] = c /\ c \notin gone' /\ c \in Created'
      BY <1>1, <1>2, <2>1, ZenonT(60)
    <3>3. Stage(c)' = IF connections_[fd_[c]] = c THEN "closed" ELSE "erased"
      BY <1>3, <3>2, ZenonT(60) DEF Stage
    <3>4. CASE state_[c] = "CONNECTED"
      <4>1. connections_[fd_[c]] = c
        BY <1>2, <3>4, SettledIs, ZenonT(60) DEF LifeFacts
      <4>2. Stage(c) = "open" /\ Stage(c)' = "closed"
        BY <1>1, <1>2, <3>3, <3>4, <4>1, ZenonT(60) DEF Stage
      <4> QED BY <3>1, <3>4, <4>2, IsClosed, ZenonT(60)
    <3>5. CASE state_[c] = "DISCONNECTED"
      <4>1. Stage(c) = IF connections_[fd_[c]] = c THEN "closed" ELSE "erased"
        BY <1>1, <1>2, <3>5, ZenonT(60) DEF Stage
      <4> QED BY <3>1, <3>3, <3>5, <4>1, ZenonT(60) DEF LifeStep
    <3> QED BY <1>2, <3>4, <3>5, ZenonT(60)
  <2>6. ASSUME NEW d \in Conns, d # c PROVE LifeStep(d)
    BY <1>3, <2>1, <2>4, <2>6, OtherKept, SettledIs, ZenonT(60) DEF Settled
  <2> QED BY <2>3, <2>5, <2>6, ZenonT(60)
<1> QED BY <1>4, <1>5, ZenonT(60)

\* AcceptNew makes a connection with a number that no other one has.
LEMMA AcceptLife ==
  ASSUME Settled, AcceptInv, TypeOK', Kept', exists', AcceptNew
  PROVE  LifeInv' /\ \A d \in Conns : LifeStep(d)
<1>1. ASSUME NEW f \in Fds, f = Lowest, NEW c \in Conns, c = conns + 1
      PROVE  LifeInv' /\ \A d \in Conns : LifeStep(d)
  <2> DEFINE t0 == Do("ConnectEstablished", c)
  <2>1. /\ conns' = c /\ fd_' = [fd_ EXCEPT ![c] = f]
        /\ connections_' = [connections_ EXCEPT ![f] = c]
        /\ queue' = [queue EXCEPT ![LoopOf(f)] = Append(@, t0)]
        /\ held' = held /\ UNCHANGED <<list, state_, closes>>
    BY <1>1, ZenonT(60) DEF AcceptNew, NewConnected, Drop
  <2>2. t0 \in Task /\ t0.op = "ConnectEstablished" /\ t0.conn = c
    BY TaskIs, ZenonT(60)
  <2> HIDE DEF t0
  <2>3. \A u : InQueue(queue', u) <=> InQueue(queue, u) \/ u = t0
    <3>1. LoopOf(f) \in Loops
      BY LoopOfIsLoop, ZenonT(60) DEF Settled
    <3> QED BY <2>1, <2>2, <3>1, AppendQueue, SettledIs, ZenonT(60)
  <2>4. \A d \in Conns : InQueue(queue', Destroy(d)) <=> InQueue(queue, Destroy(d))
    <3>1. \A d \in Conns : Destroy(d) # t0
      BY <2>2, DestroyIs, ZenonT(60)
    <3> QED BY <2>3, <3>1, ZenonT(60)
  <2>5. /\ c \notin Created /\ c \notin gone /\ Created' = Created \cup {c}
        /\ state_[c] = "CONNECTING" /\ ~InQueue(queue, Destroy(c)) /\ c # NoConn
    <3>1. c \notin Created /\ Created' = Created \cup {c} /\ conns \in Nat /\ c > conns
      BY <1>1, <2>1, SettledIs DEF Created
    <3>2. c \notin gone /\ state_[c] = "CONNECTING" /\ c # NoConn
      BY <3>1, SettledIs, ZenonT(60) DEF GoneInv, OrderInv
    <3>3. ~InQueue(queue, Destroy(c))
      <4>1. Destroy(c) \in Task /\ Destroy(c).conn = c
        BY DestroyIs, ZenonT(60)
      <4>2. InQueue(queue, Destroy(c)) => c \in Alive
        BY <4>1, SettledIs, ZenonT(60)
      <4> QED BY <3>1, <4>2, ZenonT(60) DEF Alive
    <3> QED BY <3>1, <3>2, <3>3, ZenonT(60)
  <2>6. \A d \in Alive : fd_[d] # f
    <3>1. files[f] = Free
      BY <1>1, LowestIsFree, ZenonT(60) DEF AcceptNew, FreeFds
    <3>2. \A d \in Alive : files[fd_[d]] = d /\ d \in Conns
      BY SettledIs, ZenonT(60) DEF Kept, DescriptorInv, Alive
    <3>3. \A d \in Conns : d # Free
      BY ServerAssumption DEF Conns, Free
    <3> QED BY <3>1, <3>2, <3>3, ZenonT(60)
  <2>7. /\ fd_'[c] = f /\ connections_'[f] = c
        /\ \A d \in Conns : d # c => fd_'[d] = fd_[d]
        /\ \A g \in Fds : g # f => connections_'[g] = connections_[g]
        /\ list' = list /\ state_' = state_ /\ closes' = closes
    BY <2>1, SettledIs, ZenonT(60)
  <2>8. LifeInv'
    <3>1. ASSUME NEW g \in Fds, list'[g] # NoConn
          PROVE  /\ fd_'[list'[g]] = g
                 /\ connections_'[g] = list'[g] \/ InQueue(queue', Destroy(list'[g]))
      <4>1. list[g] \in Conns /\ list[g] # NoConn /\ list[g] \in Alive
        BY <2>7, <3>1, Registered, ZenonT(60)
      <4>2. fd_[list[g]] = g /\ (connections_[g] = list[g] \/ InQueue(queue, Destroy(list[g])))
        BY <4>1, Registered, ZenonT(60)
      <4>3. g # f /\ list[g] # c
        BY <2>5, <2>6, <4>1, <4>2, ZenonT(60) DEF Alive
      <4> QED BY <2>4, <2>7, <4>1, <4>2, <4>3, ZenonT(60)
    <3>2. ASSUME NEW d \in Created'
          PROVE  /\ InQueue(queue', Destroy(d)) =>
                      state_'[d] = "DISCONNECTED" /\ connections_'[fd_'[d]] # d
                 /\ connections_'[fd_'[d]] = d /\ state_'[d] # "CONNECTING"
                      => list'[fd_'[d]] = d
      <4>1. CASE d = c
        BY <2>4, <2>5, <2>7, <4>1, ZenonT(60)
      <4>2. CASE d # c
        <5>1. d \in Created /\ d \in Conns /\ fd_[d] \in Fds /\ fd_'[d] = fd_[d]
          BY <2>5, <2>7, <4>2, SettledIs, ZenonT(60)
        <5>2. /\ InQueue(queue, Destroy(d)) =>
                   state_[d] = "DISCONNECTED" /\ connections_[fd_[d]] # d
              /\ connections_[fd_[d]] = d /\ state_[d] # "CONNECTING" => list[fd_[d]] = d
          BY <5>1, CreatedIs, ZenonT(60)
        <5>3. connections_'[fd_[d]] = d => connections_[fd_[d]] = d
          BY <2>7, <4>2, <5>1, ZenonT(60)
        <5> QED BY <2>4, <2>7, <5>1, <5>2, <5>3, ZenonT(60)
      <4> QED BY <4>1, <4>2, ZenonT(60)
    <3>3. \A d \in Conns : closes'[d] = 0 <=> state_'[d] # "DISCONNECTED"
      BY <2>7, ClosedIs, ZenonT(60)
    <3> QED BY <3>1, <3>2, <3>3, MakeLifeInv, ZenonT(60)
  <2>9. LifeFacts' /\ c \notin gone'
    BY <2>5, <2>7, <2>8, LifeIsNext, StaysAlive, ZenonT(60)
  <2>10. gone \subseteq gone'
    <3>1. \A g \in Fds : connections_'[g] = connections_[g] \/ connections_'[g] \notin gone
      BY <2>5, <2>7, ZenonT(60)
    <3>2. \A u \in Task : InQueue(queue', u) => InQueue(queue, u) \/ u.conn \notin gone
      BY <2>2, <2>3, <2>5, ZenonT(60)
    <3> QED BY <2>1, <2>5, <3>1, <3>2, GoneStays, SettledIs, ZenonT(60) DEF Kept
  <2>11. LifeStep(c)
    <3>1. Stage(c) = "new" /\ Stage(c)' = "new"
      BY <2>5, <2>7, <2>9, ZenonT(60) DEF Stage
    <3>2. Closes(c)' = Closes(c)
      BY <2>7, ZenonT(60) DEF Closes
    <3> QED BY <3>1, <3>2, ZenonT(60) DEF LifeStep
  <2>12. ASSUME NEW d \in Conns, d # c PROVE LifeStep(d)
    <3>1. d \in Alive => fd_[d] # f /\ fd_[d] \in Fds
      BY <2>6, SettledIs, ZenonT(60)
    <3> QED BY <2>5, <2>7, <2>9, <2>10, <2>12, <3>1, OtherKept, SettledIs, ZenonT(60) DEF Settled
  <2> QED BY <2>8, <2>11, <2>12, ZenonT(60)
<1>2. Lowest \in Fds
  BY LowestIsFree, ZenonT(60) DEF AcceptNew, FreeFds
<1>3. conns + 1 \in Conns
  <2>1. /\ conns \in 0..MaxArrivals /\ backlog \in 0..MaxArrivals
        /\ arrivals \in 0..MaxArrivals /\ MaxArrivals \in Nat
    BY ServerAssumption, ZenonT(60) DEF Settled, TypeOK, Counts
  <2>2. backlog > 0 /\ conns + backlog <= arrivals
    BY ZenonT(60) DEF AcceptNew, AcceptInv
  <2> QED BY <2>1, <2>2 DEF Conns
<1> QED BY <1>1, <1>2, <1>3, ZenonT(60)

\* Until ~TcpServer every step keeps the invariant, and moves every connection
\* to the next stage of its life or leaves it where it is.
LEMMA NextLife ==
  ASSUME Settled, AcceptInv, TypeOK', Kept', exists', Next
  PROVE  LifeInv' /\ \A c \in Conns : LifeStep(c)
<1>1. ASSUME UNCHANGED <<connections_, list, objects, held, gone, queue>>
      PROVE  LifeInv' /\ \A c \in Conns : LifeStep(c)
  BY <1>1, LifeStutter, ZenonT(60)
<1>2. ASSUME Start PROVE LifeInv' /\ \A c \in Conns : LifeStep(c)
  <2> DEFINE t0 == Do("Listen", NoConn)
  <2>1. t0 \in Task /\ t0.op = "Listen"
    BY ZenonT(60) DEF Task, Do
  <2>2. /\ queue' = [queue EXCEPT ![0] = Append(@, t0)]
        /\ UNCHANGED <<connections_, list, objects, held, gone>>
    BY <1>2, ZenonT(60) DEF Start
  <2> HIDE DEF t0
  <2>3. \A u : InQueue(queue', u) <=> InQueue(queue, u) \/ u = t0
    BY <2>1, <2>2, LoopZero, AppendQueue, SettledIs, ZenonT(60)
  <2>4. \A d \in Conns : Destroy(d) # t0
    BY <2>1, DestroyIs, ZenonT(60)
  <2> QED BY <2>2, <2>3, <2>4, LifeStutter, ZenonT(60)
<1>3. ASSUME Listen PROVE LifeInv' /\ \A c \in Conns : LifeStep(c)
  <2> DEFINE t0 == Head(queue[0])
  <2>1. /\ queue[0] # <<>> /\ t0.op = "Listen"
        /\ queue' = [queue EXCEPT ![0] = Tail(@)]
        /\ UNCHANGED <<connections_, list, objects, held, gone>>
    BY <1>3, ZenonT(60) DEF Listen, Task1
  <2>0. t0 \in Task
    BY <2>1, LoopZero, TakenTask, ZenonT(60)
  <2>2. /\ \A u : InQueue(queue', u) => InQueue(queue, u)
        /\ \A u : InQueue(queue, u) => InQueue(queue', u) \/ u = t0
    BY <2>1, LoopZero, TakenTask, ZenonT(60)
  <2> HIDE DEF t0
  <2>3. \A d \in Conns : Destroy(d) # t0
    BY <2>0, <2>1, DestroyIs, ZenonT(60)
  <2> QED BY <2>1, <2>2, <2>3, LifeStutter, ZenonT(60)
<1>4. CASE Environment
  <2>1. ASSUME NEW n \in ThreadNums, SetThreadNum(n)
        PROVE  LifeInv' /\ \A c \in Conns : LifeStep(c)
    BY <1>1, <2>1, ZenonT(60) DEF SetThreadNum
  <2>2. CASE Arrive
    BY <1>1, <2>2, ZenonT(60) DEF Arrive
  <2>3. CASE AppOpen
    BY <1>1, <2>3, ZenonT(60) DEF AppOpen
  <2>4. ASSUME NEW f \in Fds, AppClose(f)
        PROVE  LifeInv' /\ \A c \in Conns : LifeStep(c)
    BY <1>1, <2>4, ZenonT(60) DEF AppClose
  <2>5. ~DestroyServer
    BY ZenonT(60) DEF DestroyServer
  <2> QED BY <1>2, <1>4, <2>1, <2>2, <2>3, <2>4, <2>5, CloseLife, ReleaseLife, ZenonT(60)
          DEF Environment
<1>5. ASSUME NEW l \in Loops, Loop(l) PROVE LifeInv' /\ \A c \in Conns : LifeStep(c)
  <2>1. CASE AcceptHandle
    <3>1. CASE AcceptEvent \/ AcceptAgain \/ AcceptFails
      BY <1>1, <3>1, ZenonT(60) DEF AcceptEvent, AcceptAgain, AcceptFails
    <3>2. CASE CloseIdle("close", "reaccept") \/ CloseIdle("reclose", "reopen") \/ Reaccept \/ Reopen
      BY <1>1, <3>2, ZenonT(60) DEF CloseIdle, Reaccept, Reopen, Recover
    <3>3. CASE ReopenFails
      BY <1>1, <3>3, ZenonT(60) DEF ReopenFails
    <3> QED BY <2>1, <3>1, <3>2, <3>3, AcceptLife, ZenonT(60) DEF AcceptHandle
  <2> QED BY <1>3, <1>5, <2>1, EstablishedLife, DestoryedLife, RunRemoveLife, ZenonT(60) DEF Loop
<1> QED BY <1>4, <1>5, ZenonT(60) DEF Next

\* LifeIsKept: every connection of a server goes through the stages of
\* ConnectionLife, until ~TcpServer and for as long as the application leaves
\* the low numbers alone and open(2) brings the reserve back.
THEOREM ServerLifeCorrect == Spec => LifeIsKept
<1> DEFINE Inv == IInv /\ (disturbed \/ ~exists \/ LifeInv)
           Step == \A c \in Conns : \/ ~exists' \/ disturbed'
                                    \/ Life(c)!Next
                                    \/ UNCHANGED <<Stage(c), Closes(c)>>
<1>1. Init => Inv
  <2> SUFFICES ASSUME Init PROVE LifeInv
    BY InitIInv, ZenonT(60)
  <2>1. /\ \A f \in Fds : list[f] = NoConn /\ connections_[f] = NoConn
        /\ Created = {} /\ \A c \in Conns : closes[c] = 0 /\ state_[c] = "CONNECTING"
    BY DEF Init, Created
  <2> QED BY <2>1, ZenonT(60) DEF LifeInv
<1>2. ASSUME Inv, Next, IInv' PROVE Inv' /\ Step
  <2> SUFFICES ASSUME exists', ~disturbed' PROVE LifeInv' /\ \A c \in Conns : LifeStep(c)
    BY <1>2, ZenonT(60) DEF LifeStep
  <2>1. exists /\ ~disturbed
    <3>1. ~(disturbed /\ ~disturbed')
      BY <1>2, ZenonT(60)
      DEF Next, Environment, Loop, AcceptHandle, SetThreadNum, Start, Arrive,
          AcceptEvent, AcceptNew, AcceptAgain, AcceptFails, CloseIdle, Recover,
          Reaccept, Reopen, ReopenFails, Listen, ConnectEstablished, RunRemoveConnection,
          ConnectDestoryed, CloseHandler, Release, AppOpen, AppClose,
          DestroyServer, app
    <3>2. ~(~exists /\ exists')
      BY <1>2, ZenonT(60)
      DEF Next, Environment, Loop, AcceptHandle, SetThreadNum, Start, Arrive,
          AcceptEvent, AcceptNew, AcceptAgain, AcceptFails, CloseIdle, Recover,
          Reaccept, Reopen, ReopenFails, Listen, ConnectEstablished, RunRemoveConnection,
          ConnectDestoryed, CloseHandler, Release, AppOpen, AppClose,
          DestroyServer
    <3> QED BY <3>1, <3>2, ZenonT(60)
  <2>2. Settled /\ AcceptInv /\ TypeOK' /\ Kept'
    BY <1>2, <2>1, ZenonT(60) DEF IInv, Settled
  <2> QED BY <1>2, <2>2, NextLife, ZenonT(60)
<1>3. ASSUME Inv, UNCHANGED vars, IInv' PROVE Inv'
  <2>1. UNCHANGED <<connections_, list, fd_, state_, closes, queue, exists, disturbed>>
        /\ Created' = Created
    BY <1>3, ZenonT(60) DEF vars, objects, app, Created
  <2>2. LifeInv => LifeInv'
    BY <2>1, MakeLifeInv, ZenonT(60) DEF LifeInv, Destroy
  <2> QED BY <1>3, <2>1, <2>2, ZenonT(60)
<1> QED
  <2>1. Spec => []IInv
    BY AlwaysIInv, ZenonT(60)
  <2>2. Inv /\ IInv' /\ [Next]_vars => Inv' /\ [Step]_vars
    BY <1>2, <1>3, ZenonT(60)
  <2> HIDE DEF Inv
  <2> QED BY <1>1, <2>1, <2>2, PTL DEF Spec, LifeIsKept
=============================================================================
