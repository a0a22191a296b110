-------------------------- MODULE TaskQueueProofs ---------------------------
(***************************************************************************)
(* The task queue: type correctness for any producers, and for one producer *)
(* that the assertions hold and that the ring of blocks is a queue, for any  *)
(* number of tasks, blocks and slots.                                       *)
(***************************************************************************)
EXTENDS TaskQueue, WellFoundedInduction, TLAPS

\* The provers a step is tried with, and their time limits.
USE SMTT(30), ZenonT(60)

\* The sizes a block may have.
Sizes ==
  CHOOSE sizes \in SUBSET (2..MAX_BLOCK_SIZE) :
    InitSize \in sizes /\ \A n \in sizes : n = MAX_BLOCK_SIZE \/ 2 * n \in sizes

\* The indices of a block are slots of it, and every reference to a block is
\* to one that has been made.
Fits(b, n) ==
  /\ b.size \in Sizes /\ b.next \in 1..n
  /\ {b.front, b.localTail, b.tail, b.localFront} \subseteq 0..(b.size - 1)

BlocksFit ==
  /\ block \in [1..count -> Block] /\ count \in Blocks
  /\ \A b \in 1..count : Fits(block[b], count)

EnqFits(e, n) ==
  /\ e \in Enqueuer /\ (e.pc # "idle" => e.task \in Tasks)
  /\ e.b \in 1..n /\ e.nb \in 1..n

DeqFits == deq \in Dequeuer /\ deq.b \in 1..count

RestFits ==
  /\ frontBlock \in 1..count /\ tailBlock \in 1..count
  /\ posted \in Seq(Tasks) /\ result \in Seq(Tasks \cup {None})
  /\ failed \subseteq {"enqueuing", "next_is_empty", "next_has_element"}

TypeInv ==
  /\ BlocksFit /\ DeqFits /\ RestFits
  /\ enq \in [Producers -> Enqueuer] /\ \A p \in Producers : EnqFits(enq[p], count)

-----------------------------------------------------------------------------
(* One producer.                                                            *)

OneProducer == \E p : Producers = {p}
producer == CHOOSE p \in Producers : TRUE
E == enq[producer]

\* Steps from slot i to slot j of a block, and the slots in use.
Dist(i, j, size) == IF i <= j THEN j - i ELSE j + size - i
Used(b) == Dist(b.front, b.tail, b.size)

\* localTail is between front and tail, localFront not between them: what
\* either side believes of the other is out of date, but safe.
ShadowsLag(b) ==
  /\ Dist(b.front, b.localTail, b.size) <= Used(b)
  /\ Used(b) <= Dist(b.localFront, b.tail, b.size)

\* From the slot skip on, the slots in use hold consecutive tasks.
Numbered(b, first, skip) ==
  \A i \in 0..(b.size - 1) :
    LET d == Dist(b.front, i, b.size)
    IN  skip <= d /\ d < Used(b) => b.data[i] = first + d

\* A block the producer has filled but not yet shown to the consumer.
Pending(b) == E.pc \in {"link", "move"} /\ b = E.nb

\* The blocks the consumer has to go through.
Active(b) ==
  b \in {frontBlock, tailBlock} \/ (Used(block[b]) # 0 /\ ~Pending(b))

\* The number of the first task of an active block, and of the one after its last.
First(b) ==
  IF b = frontBlock THEN Len(result) + 1 ELSE block[b].data[block[b].front]
End(b) == First(b) + Used(block[b])

\* The task in the first slot has been moved out.
Skip(b) == IF deq.pc = "release" /\ b = frontBlock THEN 1 ELSE 0

BlocksInv ==
  \A b \in 1..count :
    /\ ShadowsLag(block[b])
    /\ Active(b) => /\ First(b) \in Nat
                    /\ Numbered(block[b], First(b), Skip(b))
                    /\ b # frontBlock => Used(block[b]) # 0
                    /\ End(b) <= Len(posted) + 1

\* The blocks of the ring: a new block is in it once it is linked.
InRing(b) == ~(E.pc = "link" /\ b = E.nb)

\* The active blocks are a chain from frontBlock to tailBlock, and their tasks
\* follow on each other.
RingInv ==
  /\ \A a, b \in 1..count :
       InRing(a) /\ InRing(b) /\ block[a].next = block[b].next => a = b
  /\ \A a, b \in 1..count :
       block[a].next = b =>
         /\ InRing(a) => InRing(b)
         /\ Active(a) /\ a # tailBlock =>
              Active(b) /\ b # frontBlock /\ First(b) = End(a)
  /\ \A b \in 1..count :
       Active(b) /\ b # frontBlock =>
         \E a \in 1..count : Active(a) /\ a # tailBlock /\ block[a].next = b
  /\ \A b \in 1..count : b = tailBlock => End(b) = Len(posted) + 1

EnqueueInv ==
  LET tb == block[tailBlock] IN
  /\ E.pc # "idle" => E.b = tailBlock /\ E.task = Len(posted) + 1
  /\ E.pc = "idle" => E.task = None
  /\ E.pc \in {"full", "store", "publish"} => E.slot = tb.tail
  /\ E.pc \in {"store", "publish"} => After(tb.tail, tb.size) # tb.localFront
  /\ E.pc = "publish" => tb.data[tb.tail] = E.task
  /\ \A b \in 1..count : E.pc = "advance" /\ tb.next = b => ~Active(b)
  /\ E.pc = "link" => block[E.nb].next = tb.next
  /\ E.pc = "move" => tb.next = E.nb
  /\ E.pc \in {"link", "move"} =>
       /\ E.nb \notin {frontBlock, tailBlock}
       /\ Used(block[E.nb]) = 1
       /\ block[E.nb].data[block[E.nb].front] = E.task

DequeueInv ==
  LET fb == block[frontBlock] IN
  /\ deq.pc \notin {"idle", "move"} => deq.b = frontBlock
  /\ deq.pc # "idle" => deq.slot = block[deq.b].front
  /\ deq.pc \in {"again", "advance", "move"} => frontBlock # tailBlock
  /\ deq.pc \in {"advance", "move"} => Used(fb) = 0
  /\ deq.pc = "move" => deq.b = fb.next
  /\ deq.pc \in {"move", "take", "release"} =>
       block[deq.b].front # block[deq.b].localTail
  /\ deq.pc = "release" => deq.task = Len(result) + 1

HistoryInv ==
  /\ \A i \in 1..Len(posted) : posted[i] = i
  /\ failed = {}

QueueInv ==
  TypeInv /\ BlocksInv /\ RingInv /\ EnqueueInv /\ DequeueInv /\ HistoryInv

-----------------------------------------------------------------------------
(* Sizes and slots.                                                         *)

\* There are such sizes.
LEMMA SizesAre ==
  /\ MAX_BLOCK_SIZE \in Nat /\ Sizes \subseteq 2..MAX_BLOCK_SIZE /\ InitSize \in Sizes
  /\ \A n \in Sizes : n = MAX_BLOCK_SIZE \/ 2 * n \in Sizes
BY QueueAssumption, ZenonT(60) DEF Sizes

\* The mask makes the index after the last slot the first one.
LEMMA AfterIs ==
  ASSUME NEW size \in Nat, size >= 2, NEW i \in 0..(size - 1)
  PROVE  /\ After(i, size) = IF i + 1 = size THEN 0 ELSE i + 1
         /\ After(i, size) \in 0..(size - 1)
<1>1. CASE i + 1 = size
  <2>1. size % size = 0
    OBVIOUS
  <2> QED BY <1>1, <2>1 DEF After
<1>2. CASE i + 1 # size
  <2>1. i + 1 \in 0..(size - 1)
    BY <1>2
  <2>2. (i + 1) % size = i + 1
    BY <2>1
  <2> QED BY <1>2, <2>1, <2>2 DEF After
<1> QED BY <1>1, <1>2

\* How far two slots are apart, and what a step of either does to that.
LEMMA Distances ==
  ASSUME NEW size \in Nat, size >= 2,
         NEW i \in 0..(size - 1), NEW j \in 0..(size - 1)
  PROVE  /\ Dist(i, j, size) \in 0..(size - 1)
         /\ Dist(i, j, size) = 0 <=> i = j
         /\ After(j, size) = i <=> Dist(i, j, size) = size - 1
         /\ After(j, size) # i => Dist(i, After(j, size), size) = Dist(i, j, size) + 1
         /\ i # j => Dist(After(i, size), j, size) = Dist(i, j, size) - 1
<1>1. /\ After(j, size) = IF j + 1 = size THEN 0 ELSE j + 1
      /\ After(i, size) = IF i + 1 = size THEN 0 ELSE i + 1
  BY AfterIs
<1> QED BY <1>1 DEF Dist

\* A distance is a natural number.
LEMMA DistNat ==
  ASSUME NEW size \in Nat, NEW i \in 0..(size - 1), NEW j \in 0..(size - 1)
  PROVE  Dist(i, j, size) \in Nat
BY DEF Dist

\* A remainder of a number below twice the divisor.
LEMMA Remainders ==
  ASSUME NEW size \in Nat, size >= 2, NEW x \in Nat, x < 2 * size
  PROVE  x % size = IF x < size THEN x ELSE x - size
<1>1. CASE x < size
  BY <1>1
<1>2. CASE x >= size
  <2>1. x - size \in 0..(size - 1)
    BY <1>2
  <2>2. x % size = (x - size) % size
    BY <1>2
  <2> QED BY <1>2, <2>1, <2>2
<1> QED BY <1>1, <1>2

\* The slot d steps after slot f of a ring of size slots.
LEMMA SlotAt ==
  ASSUME NEW size \in Nat, size >= 2, NEW f \in 0..(size - 1),
         NEW t \in 0..(size - 1), NEW d \in Nat, d < Dist(f, t, size)
  PROVE  /\ (t + size - f) % size = Dist(f, t, size)
         /\ d + 1 \in 1..Dist(f, t, size) /\ f + (d + 1) - 1 = f + d
         /\ (f + d) % size \in 0..(size - 1)
         /\ Dist(f, (f + d) % size, size) = d
         /\ (f + d) % size = f <=> d = 0
<1>1. t + size - f \in Nat /\ t + size - f < 2 * size
  BY DEF Dist
<1>2. f + d \in Nat /\ f + d < 2 * size /\ d < size
  BY DEF Dist
<1> DEFINE x == t + size - f
           y == f + d
<1> HIDE DEF x, y
<1>3. x % size = IF x < size THEN x ELSE x - size
  <2>1. x \in Nat /\ x < 2 * size
    BY <1>1 DEF x
  <2> QED BY <2>1, Remainders, ZenonT(60)
<1>4. y % size = IF y < size THEN y ELSE y - size
  <2>1. y \in Nat /\ y < 2 * size
    BY <1>2 DEF y
  <2> QED BY <2>1, Remainders, ZenonT(60)
<1>5. (t + size - f) % size = Dist(f, t, size)
  BY <1>3 DEF Dist, x
<1>6. d + 1 \in 1..Dist(f, t, size) /\ f + (d + 1) - 1 = f + d
  BY DEF Dist
<1>7. /\ (f + d) % size \in 0..(size - 1)
      /\ Dist(f, (f + d) % size, size) = d
      /\ (f + d) % size = f <=> d = 0
  BY <1>2, <1>4 DEF Dist, y
<1> QED BY <1>5, <1>6, <1>7

\* A set of natural numbers has a least element.
LEMMA Least ==
  ASSUME NEW T, T \subseteq Nat, T # {}
  PROVE  \E m \in T : \A n \in T : m <= n
<1>1. \E m \in T : \A n \in T : ~(<<n, m>> \in OpToRel(<, Nat))
  BY NatLessThanWellFounded, WFMin, ZenonT(60)
<1>2. PICK m \in T : \A n \in T : ~(<<n, m>> \in OpToRel(<, Nat))
  BY <1>1, ZenonT(60)
<1>3. \A n \in T : ~(n < m)
  <2>1. \A i \in Nat, j \in Nat : j < i => <<j, i>> \in OpToRel(<, Nat)
    BY DEF OpToRel
  <2> QED BY <1>2, <2>1, ZenonT(60)
<1> QED BY <1>3

-----------------------------------------------------------------------------
(* Types, for any producers.                                                *)

\* What TypeInv says of a block, field by field.
LEMMA BlockTypes ==
  ASSUME TypeInv, NEW b \in 1..count
  PROVE  /\ block[b] \in Block
         /\ block[b].size \in Nat /\ block[b].size >= 2 /\ block[b].size \in Sizes
         /\ block[b].front \in 0..(block[b].size - 1)
         /\ block[b].tail \in 0..(block[b].size - 1)
         /\ block[b].localFront \in 0..(block[b].size - 1)
         /\ block[b].localTail \in 0..(block[b].size - 1)
         /\ block[b].next \in 1..count
         /\ block[b].data \in [Slots -> Tasks \cup {None}]
         /\ 0..(block[b].size - 1) \subseteq Slots
<1>1. block[b] \in Block /\ Fits(block[b], count)
  BY DEF TypeInv, BlocksFit
<1>2. block[b].size \in 2..MAX_BLOCK_SIZE /\ MAX_BLOCK_SIZE \in Nat
  BY <1>1, SizesAre, ZenonT(60) DEF Fits
<1>3. 0..(block[b].size - 1) \subseteq Slots
  BY <1>2 DEF Slots
<1>4. block[b].data \in [Slots -> Tasks \cup {None}]
  BY <1>1 DEF Block
<1> QED BY <1>1, <1>2, <1>3, <1>4 DEF Fits

\* A step that replaces one block.
LEMMA OneBlock ==
  ASSUME TypeInv, NEW b \in 1..count, NEW r \in Block, Fits(r, count),
         block' = [block EXCEPT ![b] = r], count' = count
  PROVE  /\ BlocksFit'
         /\ block'[b] = r /\ \A x \in 1..count : x # b => block'[x] = block[x]
<1>1. block \in [1..count -> Block] /\ count \in Blocks
  BY DEF TypeInv, BlocksFit
<1>2. block' \in [1..count -> Block]
  BY <1>1
<1>3. block'[b] = r /\ \A x \in 1..count : x # b => block'[x] = block[x]
  BY <1>1
<1>4. ASSUME NEW x \in 1..count PROVE Fits(block'[x], count')
  <2>1. CASE x = b
    BY <1>3, <2>1 DEF Fits
  <2>2. CASE x # b
    BY <1>3, <2>2 DEF Fits, TypeInv, BlocksFit
  <2> QED BY <2>1, <2>2
<1> QED BY <1>1, <1>2, <1>3, <1>4 DEF BlocksFit

\* The blocks as they are.
LEMMA NoBlock ==
  ASSUME TypeInv, UNCHANGED <<block, count>>
  PROVE  BlocksFit'
BY DEF TypeInv, BlocksFit, Fits

\* The updates of a block that the code makes.
LEMMA Updates ==
  ASSUME TypeInv, NEW b \in 1..count
  PROVE  LET r == block[b] IN
         /\ \A i \in 0..(r.size - 1) :
              /\ [r EXCEPT !.localFront = i] \in Block
              /\ Fits([r EXCEPT !.localFront = i], count)
              /\ [r EXCEPT !.localTail = i] \in Block
              /\ Fits([r EXCEPT !.localTail = i], count)
              /\ [r EXCEPT !.front = i] \in Block /\ Fits([r EXCEPT !.front = i], count)
              /\ [r EXCEPT !.tail = i] \in Block /\ Fits([r EXCEPT !.tail = i], count)
         /\ \A n \in 1..count : [r EXCEPT !.next = n] \in Block /\ Fits([r EXCEPT !.next = n], count)
         /\ \A i \in Slots, t \in Tasks \cup {None} :
              [r EXCEPT !.data[i] = t] \in Block /\ Fits([r EXCEPT !.data[i] = t], count)
<1> DEFINE r == block[b]
<1>1. /\ r \in Block /\ Fits(r, count) /\ 0..(r.size - 1) \subseteq Slots
      /\ r.data \in [Slots -> Tasks \cup {None}]
  BY BlockTypes DEF TypeInv, BlocksFit
<1>2. 1..count \subseteq Blocks
  BY QueueAssumption DEF TypeInv, BlocksFit, Blocks
<1> HIDE DEF r
<1>3. ASSUME NEW i \in 0..(r.size - 1)
      PROVE  /\ [r EXCEPT !.localFront = i] \in Block
             /\ Fits([r EXCEPT !.localFront = i], count)
             /\ [r EXCEPT !.localTail = i] \in Block
             /\ Fits([r EXCEPT !.localTail = i], count)
             /\ [r EXCEPT !.front = i] \in Block /\ Fits([r EXCEPT !.front = i], count)
             /\ [r EXCEPT !.tail = i] \in Block /\ Fits([r EXCEPT !.tail = i], count)
  <2>1. i \in Slots
    BY <1>1
  <2> QED BY <1>1, <2>1 DEF Block, Fits
<1>4. ASSUME NEW n \in 1..count
      PROVE  [r EXCEPT !.next = n] \in Block /\ Fits([r EXCEPT !.next = n], count)
  BY <1>1, <1>2 DEF Block, Fits
<1>5. ASSUME NEW i \in Slots, NEW t \in Tasks \cup {None}
      PROVE  [r EXCEPT !.data[i] = t] \in Block /\ Fits([r EXCEPT !.data[i] = t], count)
  <2>1. [r.data EXCEPT ![i] = t] \in [Slots -> Tasks \cup {None}]
    BY <1>1
  <2> QED BY <1>1, <2>1 DEF Block, Fits
<1> QED BY <1>3, <1>4, <1>5 DEF r

\* A step of one producer.
LEMMA OneEnqueuer ==
  ASSUME TypeInv, NEW p \in Producers, NEW e, EnqFits(e, count'),
         count' \in Nat, count <= count', enq' = [enq EXCEPT ![p] = e]
  PROVE  enq' \in [Producers -> Enqueuer] /\ \A x \in Producers : EnqFits(enq'[x], count')
<1>1. /\ enq \in [Producers -> Enqueuer] /\ \A x \in Producers : EnqFits(enq[x], count)
      /\ count \in Nat
  BY DEF TypeInv, BlocksFit, Blocks
<1>2. e \in Enqueuer
  BY DEF EnqFits
<1>3. enq' \in [Producers -> Enqueuer]
  BY <1>1, <1>2
<1>4. ASSUME NEW x \in Producers PROVE EnqFits(enq'[x], count')
  <2>1. CASE x = p
    <3>1. enq'[x] = e
      BY <1>1, <2>1
    <3> QED BY <3>1 DEF EnqFits
  <2>2. CASE x # p
    <3>1. enq'[x] = enq[x]
      BY <1>1, <2>2
    <3> QED BY <1>1, <3>1 DEF EnqFits
  <2> QED BY <2>1, <2>2
<1> QED BY <1>3, <1>4

\* The block of EnqueueAlloc.
NewBlock(next, task) ==
  [make_block(next, NewBlockSize) EXCEPT !.data[0] = task, !.tail = 1, !.localTail = 1]

\* It holds one task, and is at most as large as MAX_BLOCK_SIZE.
LEMMA NewBlockIs ==
  ASSUME TypeInv, NEW n \in 1..count, NEW t \in Tasks \cup {None}
  PROVE  LET r == NewBlock(n, t) IN
         /\ r \in Block /\ r.size \in Sizes /\ r.size \in Nat /\ r.size >= 2
         /\ r.front = 0 /\ r.localFront = 0 /\ r.tail = 1 /\ r.localTail = 1
         /\ r.next = n /\ r.data[0] = t
<1>1. NewBlockSize \in Sizes
  <2>1. count \in 1..count
    BY DEF TypeInv, BlocksFit, Blocks
  <2>2. block[count].size \in Sizes /\ block[count].size \in Nat
    BY <2>1, BlockTypes
  <2> DEFINE z == block[count].size
  <2>3. NewBlockSize = IF z >= MAX_BLOCK_SIZE THEN z ELSE 2 * z
    BY DEF NewBlockSize
  <2> HIDE DEF z
  <2>4. z \in Sizes /\ z \in Nat /\ MAX_BLOCK_SIZE \in Nat
    BY <2>2, SizesAre DEF z
  <2> QED BY <2>3, <2>4, SizesAre
<1>2. /\ NewBlockSize \in 2..MAX_BLOCK_SIZE /\ MAX_BLOCK_SIZE \in Nat
      /\ 0 \in Slots /\ 1 \in Slots
  BY <1>1, SizesAre DEF Slots
<1>3. n \in Blocks
  BY QueueAssumption DEF TypeInv, BlocksFit, Blocks
<1> DEFINE d == [i \in Slots |-> None]
<1>4. [d EXCEPT ![0] = t] \in [Slots -> Tasks \cup {None}] /\ [d EXCEPT ![0] = t][0] = t
  BY <1>2
<1> DEFINE m == make_block(n, NewBlockSize)
           r == NewBlock(n, t)
<1>5. m = [front |-> 0, localTail |-> 0, tail |-> 0, localFront |-> 0,
           next |-> n, size |-> NewBlockSize, data |-> d]
  BY DEF make_block
<1> HIDE DEF d
<1>6. /\ m \in Block /\ m.front = 0 /\ m.localFront = 0 /\ m.next = n
      /\ m.size = NewBlockSize /\ m.data = d
  <2>1. d \in [Slots -> Tasks \cup {None}]
    BY DEF d
  <2> QED BY <1>2, <1>3, <1>5, <2>1 DEF Block
<1>7. r = [m EXCEPT !.data[0] = t, !.tail = 1, !.localTail = 1]
  BY DEF NewBlock
<1> HIDE DEF m, r
<1>8. /\ r.front = m.front /\ r.localFront = m.localFront /\ r.next = m.next
      /\ r.size = m.size /\ r.tail = 1 /\ r.localTail = 1
      /\ r.data = [m.data EXCEPT ![0] = t]
  BY <1>6, <1>7 DEF Block
<1>9. r \in Block
  BY <1>2, <1>4, <1>6, <1>7, ZenonT(60) DEF Block
<1> QED BY <1>1, <1>2, <1>4, <1>6, <1>8, <1>9 DEF r

\* A step that adds a block.
LEMMA AddBlock ==
  ASSUME TypeInv, count < MaxBlocks, NEW r \in Block, count' = count + 1, Fits(r, count'),
         block' = [b \in 1..(count + 1) |-> IF b <= count THEN block[b] ELSE r]
  PROVE  /\ BlocksFit'
         /\ block'[count + 1] = r /\ \A x \in 1..count : block'[x] = block[x]
<1>1. /\ block \in [1..count -> Block] /\ count \in Nat /\ count' \in Blocks
  BY QueueAssumption DEF TypeInv, BlocksFit, Blocks
<1>2. block' \in [1..count' -> Block]
  BY <1>1
<1>3. block'[count + 1] = r /\ \A x \in 1..count : block'[x] = block[x]
  BY <1>1
<1>4. ASSUME NEW x \in 1..count' PROVE Fits(block'[x], count')
  <2>1. CASE x = count + 1
    BY <1>3, <2>1
  <2>2. CASE x # count + 1
    <3>1. x \in 1..count /\ block'[x] = block[x] /\ Fits(block[x], count)
      BY <1>1, <1>3, <2>2 DEF TypeInv, BlocksFit
    <3>2. block[x].next \in 1..count'
      BY <1>1, <3>1 DEF Fits
    <3> QED BY <3>1, <3>2 DEF Fits
  <2> QED BY <2>1, <2>2
<1> QED BY <1>1, <1>2, <1>3, <1>4 DEF BlocksFit

\* Every step of inner_enqueue keeps the types, whatever the other threads do.
LEMMA EnqueueTypes ==
  ASSUME TypeInv, NEW p \in Producers,
         (\E t \in Tasks : EnqueueStart(p, t)) \/ inner_enqueue(p)
  PROVE  TypeInv'
<1> DEFINE e == enq[p]
<1>0. /\ BlocksFit /\ DeqFits /\ RestFits /\ enq \in [Producers -> Enqueuer] /\ EnqFits(e, count)
      /\ count \in Nat /\ count <= MaxBlocks /\ count \in 1..count
  BY QueueAssumption DEF TypeInv, BlocksFit, Blocks
<1>1. /\ e \in Enqueuer /\ e.b \in 1..count /\ e.nb \in 1..count
      /\ e.task \in Tasks \cup {None} /\ e.slot \in Slots
  BY <1>0 DEF EnqFits, Enqueuer
<1>2. ASSUME UNCHANGED <<deq, result, frontBlock>>, count' \in Nat, count <= count',
             failed' \subseteq {"enqueuing", "next_is_empty", "next_has_element"},
             posted' \in Seq(Tasks), tailBlock' \in 1..count', BlocksFit',
             NEW n, EnqFits(n, count'), enq' = [enq EXCEPT ![p] = n]
      PROVE  TypeInv'
  <2>1. enq' \in [Producers -> Enqueuer] /\ \A x \in Producers : EnqFits(enq'[x], count')
    BY <1>2, OneEnqueuer, ZenonT(60)
  <2>2. DeqFits' /\ RestFits'
    BY <1>0, <1>2 DEF DeqFits, RestFits
  <2> QED BY <1>2, <2>1, <2>2 DEF TypeInv
<1>same. ASSUME UNCHANGED <<count, deq, result, frontBlock>>,
                failed' \subseteq {"enqueuing", "next_is_empty", "next_has_element"},
                posted' \in Seq(Tasks), tailBlock' \in 1..count, BlocksFit',
                NEW n, EnqFits(n, count'), enq' = [enq EXCEPT ![p] = n]
         PROVE  TypeInv'
  <2>1. count' \in Nat /\ count <= count' /\ tailBlock' \in 1..count'
    BY <1>0, <1>same
  <2> QED BY <1>2, <1>same, <2>1, ZenonT(60)
<1>3. ASSUME NEW n \in Enqueuer, n.pc # "idle" => n.task \in Tasks,
             n.b \in 1..count, n.nb \in 1..count, count' = count
      PROVE  EnqFits(n, count')
  BY <1>3 DEF EnqFits
<1>4. ASSUME NEW t \in Tasks, EnqueueStart(p, t) PROVE TypeInv'
  <2> DEFINE tb == block[tailBlock]
             n == [pc |-> IF After(tb.tail, tb.size) # tb.localFront
                          THEN "store" ELSE "full",
                   task |-> t, b |-> tailBlock, nb |-> tailBlock, slot |-> tb.tail]
  <2>1. /\ enq' = [enq EXCEPT ![p] = n]
        /\ failed' \in {failed, failed \cup {"enqueuing"}}
        /\ UNCHANGED <<block, count, frontBlock, tailBlock, deq, posted, result>>
    BY <1>4 DEF EnqueueStart
  <2>2. tailBlock \in 1..count /\ tailBlock \in Blocks
    BY <1>0, QueueAssumption DEF RestFits, Blocks
  <2>3. tb.tail \in Slots
    BY <2>2, BlockTypes
  <2>4. n \in Enqueuer
    BY <2>2, <2>3 DEF Enqueuer
  <2>5. BlocksFit'
    BY <2>1, NoBlock
  <2>6. n.task = t /\ n.b = tailBlock /\ n.nb = tailBlock
    OBVIOUS
  <2> HIDE DEF n
  <2>7. EnqFits(n, count')
    BY <1>3, <2>1, <2>2, <2>4, <2>6
  <2> QED BY <1>0, <1>same, <2>1, <2>5, <2>7, ZenonT(60) DEF RestFits
<1>5. CASE EnqueueFull(p)
  <2> DEFINE r == [block[e.b] EXCEPT !.localFront = block[e.b].front]
             n == [e EXCEPT !.pc = IF After(e.slot, block[e.b].size) # block[e.b].front
                                   THEN "store" ELSE "next"]
  <2>1. /\ block' = [block EXCEPT ![e.b] = r] /\ enq' = [enq EXCEPT ![p] = n]
        /\ UNCHANGED <<count, frontBlock, tailBlock, deq, posted, result, failed>>
        /\ e.pc # "idle"
    BY <1>5 DEF EnqueueFull, history
  <2>2. r \in Block /\ Fits(r, count)
    BY <1>1, BlockTypes, Updates, ZenonT(60)
  <2>3. BlocksFit'
    BY <1>1, <2>1, <2>2, OneBlock, ZenonT(60)
  <2>4. /\ n \in Enqueuer /\ n.task = e.task /\ n.b = e.b /\ n.nb = e.nb
    BY <1>1 DEF Enqueuer
  <2> HIDE DEF n, r
  <2>5. EnqFits(n, count')
    BY <1>0, <1>1, <1>3, <2>1, <2>4 DEF EnqFits
  <2> QED BY <1>0, <1>same, <2>1, <2>3, <2>5, ZenonT(60) DEF RestFits
<1>6. CASE EnqueueStore(p)
  <2> DEFINE r == [block[e.b] EXCEPT !.data[e.slot] = e.task]
             n == [e EXCEPT !.pc = "publish"]
  <2>1. /\ block' = [block EXCEPT ![e.b] = r] /\ enq' = [enq EXCEPT ![p] = n]
        /\ UNCHANGED <<count, frontBlock, tailBlock, deq, posted, result, failed>>
        /\ e.pc # "idle"
    BY <1>6 DEF EnqueueStore, history
  <2>2. r \in Block /\ Fits(r, count)
    BY <1>1, Updates, ZenonT(60)
  <2>3. BlocksFit'
    BY <1>1, <2>1, <2>2, OneBlock, ZenonT(60)
  <2>4. /\ n \in Enqueuer /\ n.task = e.task /\ n.b = e.b /\ n.nb = e.nb
    BY <1>1 DEF Enqueuer
  <2> HIDE DEF n, r
  <2>5. EnqFits(n, count')
    BY <1>0, <1>1, <1>3, <2>1, <2>4 DEF EnqFits
  <2> QED BY <1>0, <1>same, <2>1, <2>3, <2>5, ZenonT(60) DEF RestFits
<1>7. ASSUME EnqueueReturn(p), e.pc # "idle", BlocksFit', tailBlock' \in 1..count
      PROVE  TypeInv'
  <2> DEFINE n == [e EXCEPT !.pc = "idle", !.task = None]
  <2>1. /\ enq' = [enq EXCEPT ![p] = n] /\ posted' = Append(posted, e.task)
        /\ UNCHANGED <<count, frontBlock, deq, result, failed>>
    BY <1>7, ZenonT(60) DEF EnqueueReturn
  <2>2. /\ n \in Enqueuer /\ n.pc = "idle" /\ n.b = e.b /\ n.nb = e.nb
    BY <1>1, ZenonT(60) DEF Enqueuer
  <2> HIDE DEF n
  <2>3. EnqFits(n, count')
    BY <1>1, <1>3, <2>1, <2>2
  <2>4. posted' \in Seq(Tasks)
    BY <1>0, <1>7, <2>1 DEF EnqFits, RestFits
  <2> QED BY <1>0, <1>same, <1>7, <2>1, <2>3, <2>4, ZenonT(60) DEF RestFits
<1>8. CASE EnqueuePublish(p)
  <2> DEFINE i == After(e.slot, block[e.b].size)
             r == [block[e.b] EXCEPT !.tail = i]
  <2>1. /\ block' = [block EXCEPT ![e.b] = r] /\ EnqueueReturn(p)
        /\ tailBlock' = tailBlock /\ e.pc # "idle" /\ count' = count
    BY <1>8 DEF EnqueuePublish, EnqueueReturn
  <2>2. i \in 0..(block[e.b].size - 1)
    <3>1. e.slot \in Nat /\ block[e.b].size \in Nat /\ block[e.b].size >= 2
      BY <1>1, BlockTypes, SizesAre DEF Slots
    <3> QED BY <3>1 DEF After
  <2> HIDE DEF i
  <2>3. r \in Block /\ Fits(r, count)
    BY <1>1, <2>2, Updates, ZenonT(60)
  <2>4. BlocksFit'
    BY <1>1, <2>1, <2>3, OneBlock, ZenonT(60)
  <2> QED BY <1>0, <1>7, <2>1, <2>4 DEF RestFits
<1>9. CASE EnqueueNext(p)
  <2> DEFINE n == [e EXCEPT !.pc = IF block[e.b].next # frontBlock
                                   THEN "advance" ELSE "alloc"]
  <2>1. /\ enq' = [enq EXCEPT ![p] = n] /\ e.pc # "idle"
        /\ UNCHANGED <<block, count, frontBlock, tailBlock, deq, posted, result, failed>>
    BY <1>9 DEF EnqueueNext, history
  <2>2. /\ n \in Enqueuer /\ n.task = e.task /\ n.b = e.b /\ n.nb = e.nb
    BY <1>1 DEF Enqueuer
  <2> HIDE DEF n
  <2>3. EnqFits(n, count') /\ BlocksFit'
    BY <1>0, <1>1, <1>3, <2>1, <2>2, NoBlock DEF EnqFits
  <2> QED BY <1>0, <1>same, <2>1, <2>3, ZenonT(60) DEF RestFits
<1>10. CASE EnqueueAdvance(p)
  <2> DEFINE x == block[e.b].next
             a == [block[x] EXCEPT !.localFront = block[x].front]
             d == [a EXCEPT !.data[block[x].tail] = e.task]
             i == After(block[x].tail, block[x].size)
             r == [d EXCEPT !.tail = i]
             n == [e EXCEPT !.pc = "move", !.nb = x]
  <2>1. /\ block' = [block EXCEPT ![x] = r] /\ enq' = [enq EXCEPT ![p] = n]
        /\ failed' \in {failed, failed \cup {"next_is_empty"}}
        /\ UNCHANGED <<count, frontBlock, tailBlock, deq, posted, result>>
        /\ e.pc # "idle"
    BY <1>10, ZenonT(60) DEF EnqueueAdvance
  <2>2. /\ x \in 1..count /\ x \in Blocks
    BY <1>1, BlockTypes, QueueAssumption DEF TypeInv, BlocksFit, Blocks
  <2>3. i \in 0..(block[x].size - 1)
    BY <2>2, AfterIs, BlockTypes
  <2>4. r \in Block /\ Fits(r, count)
    <3>1. /\ block[x] \in Block /\ Fits(block[x], count) /\ i \in Slots
          /\ block[x].front \in 0..(block[x].size - 1) /\ block[x].front \in Slots
          /\ [block[x].data EXCEPT ![block[x].tail] = e.task]
               \in [Slots -> Tasks \cup {None}]
      BY <1>1, <2>2, <2>3, BlockTypes, ZenonT(60) DEF TypeInv, BlocksFit
    <3>2. /\ r.localFront = block[x].front /\ r.tail = i
          /\ r.data = [block[x].data EXCEPT ![block[x].tail] = e.task]
          /\ r.front = block[x].front /\ r.localTail = block[x].localTail
          /\ r.size = block[x].size /\ r.next = block[x].next
      BY <3>1, ZenonT(60) DEF Block
    <3>3. r \in Block
      BY <3>1, ZenonT(60) DEF Block
    <3> HIDE DEF r, i
    <3> QED BY <2>3, <3>1, <3>2, <3>3, ZenonT(60) DEF Fits
  <2>5. BlocksFit'
    BY <2>1, <2>2, <2>4, OneBlock, ZenonT(60)
  <2>6. /\ n \in Enqueuer /\ n.task = e.task /\ n.b = e.b /\ n.nb = x
    BY <1>1, <2>2, ZenonT(60) DEF Enqueuer
  <2> HIDE DEF n, r, x
  <2>7. EnqFits(n, count')
    BY <1>0, <1>1, <1>3, <2>1, <2>2, <2>6 DEF EnqFits
  <2> QED BY <1>0, <1>same, <2>1, <2>5, <2>7, ZenonT(60) DEF RestFits
<1>11. CASE EnqueueAlloc(p)
  <2>0. count + 1 # count
    BY <1>0
  <2>1. CASE count' # count
    <3> DEFINE r == NewBlock(block[e.b].next, e.task)
               n == [e EXCEPT !.pc = "link", !.nb = count + 1]
    <3>1. /\ count < MaxBlocks /\ count' = count + 1 /\ e.pc # "idle"
          /\ block' = [b \in 1..(count + 1) |-> IF b <= count THEN block[b] ELSE r]
          /\ enq' = [enq EXCEPT ![p] = n]
          /\ UNCHANGED <<frontBlock, tailBlock, deq, posted, result, failed>>
      BY <1>11, <2>1, ZenonT(60) DEF EnqueueAlloc, NewBlock, history
    <3>2. block[e.b].next \in 1..count
      BY <1>1, BlockTypes
    <3>3. r \in Block /\ r.size \in Sizes /\ r.next = block[e.b].next
          /\ r.front = 0 /\ r.localFront = 0 /\ r.tail = 1 /\ r.localTail = 1
          /\ r.size \in Nat /\ r.size >= 2
      BY <1>1, <3>2, NewBlockIs
    <3> HIDE DEF r
    <3>4. Fits(r, count')
      BY <1>0, <3>1, <3>2, <3>3 DEF Fits
    <3>5. BlocksFit'
      BY <3>1, <3>3, <3>4, AddBlock
    <3>6. count + 1 \in Blocks
      BY <1>0, <3>1, QueueAssumption DEF Blocks
    <3>7. n \in Enqueuer /\ n.task = e.task /\ n.b = e.b /\ n.nb = count + 1
      BY <1>1, <3>6, ZenonT(60) DEF Enqueuer
    <3> HIDE DEF n
    <3>8. EnqFits(n, count')
      BY <1>0, <1>1, <3>1, <3>7 DEF EnqFits
    <3>9. tailBlock' \in 1..count' /\ count' \in Nat /\ count <= count'
      BY <1>0, <3>1 DEF RestFits
    <3>10. frontBlock' = frontBlock /\ posted' \in Seq(Tasks)
           /\ failed' \subseteq {"enqueuing", "next_is_empty", "next_has_element"}
      BY <1>0, <3>1 DEF RestFits
    <3> QED BY <1>2, <3>1, <3>5, <3>8, <3>9, <3>10, ZenonT(60)
  <2>2. CASE count' = count
    <3> DEFINE n == [e EXCEPT !.pc = "idle", !.task = None]
    <3>1. /\ enq' = [enq EXCEPT ![p] = n]
          /\ UNCHANGED <<block, count, frontBlock, tailBlock, deq, posted, result, failed>>
      BY <1>11, <2>0, <2>2, ZenonT(60) DEF EnqueueAlloc, history
    <3>2. /\ n \in Enqueuer /\ n.pc = "idle" /\ n.b = e.b /\ n.nb = e.nb
      BY <1>1, ZenonT(60) DEF Enqueuer
    <3> HIDE DEF n
    <3>3. EnqFits(n, count') /\ BlocksFit'
      BY <1>1, <1>3, <3>1, <3>2, NoBlock
    <3> QED BY <1>0, <1>same, <3>1, <3>3, ZenonT(60) DEF RestFits
  <2> QED BY <2>1, <2>2
<1>12. CASE EnqueueLink(p)
  <2> DEFINE r == [block[e.b] EXCEPT !.next = e.nb]
             n == [e EXCEPT !.pc = "move"]
  <2>1. /\ block' = [block EXCEPT ![e.b] = r] /\ enq' = [enq EXCEPT ![p] = n]
        /\ UNCHANGED <<count, frontBlock, tailBlock, deq, posted, result, failed>>
        /\ e.pc # "idle"
    BY <1>12 DEF EnqueueLink, history
  <2>2. r \in Block /\ Fits(r, count)
    BY <1>1, Updates
  <2>3. BlocksFit'
    BY <1>1, <2>1, <2>2, OneBlock, ZenonT(60)
  <2>4. /\ n \in Enqueuer /\ n.task = e.task /\ n.b = e.b /\ n.nb = e.nb
    BY <1>1 DEF Enqueuer
  <2> HIDE DEF n, r
  <2>5. EnqFits(n, count')
    BY <1>0, <1>1, <1>3, <2>1, <2>4 DEF EnqFits
  <2> QED BY <1>0, <1>same, <2>1, <2>3, <2>5, ZenonT(60) DEF RestFits
<1>13. CASE EnqueueMove(p)
  <2>1. /\ tailBlock' = e.nb /\ EnqueueReturn(p) /\ e.pc # "idle"
        /\ UNCHANGED <<block, count>>
    BY <1>13 DEF EnqueueMove, EnqueueReturn
  <2> QED BY <1>1, <1>7, <2>1, NoBlock
<1> QED BY <1>4, <1>5, <1>6, <1>8, <1>9, <1>10, <1>11, <1>12, <1>13 DEF inner_enqueue

\* So does every step of try_dequeue.
LEMMA DequeueTypes ==
  ASSUME TypeInv, try_dequeue
  PROVE  TypeInv'
<1>0. /\ BlocksFit /\ DeqFits /\ RestFits /\ deq \in Dequeuer
      /\ deq.b \in 1..count /\ deq.slot \in Slots /\ deq.task \in Tasks \cup {None}
      /\ count \in Nat
  BY DEF TypeInv, BlocksFit, DeqFits, Dequeuer, Blocks
<1>1. ASSUME UNCHANGED <<count, tailBlock, enq, posted>>, BlocksFit', DeqFits',
             frontBlock' \in 1..count, result' \in Seq(Tasks \cup {None}),
             failed' \subseteq {"enqueuing", "next_is_empty", "next_has_element"}
      PROVE  TypeInv'
  <2>1. RestFits'
    BY <1>0, <1>1 DEF RestFits
  <2>2. enq' \in [Producers -> Enqueuer] /\ \A p \in Producers : EnqFits(enq'[p], count')
    BY <1>1 DEF TypeInv, EnqFits
  <2> QED BY <1>1, <2>1, <2>2 DEF TypeInv
<1>2. CASE DequeueStart
  <2> DEFINE fb == block[frontBlock]
             d == [pc |-> IF fb.front # fb.localTail THEN "take" ELSE "tail",
                   b |-> frontBlock, slot |-> fb.front, task |-> None]
  <2>1. /\ deq' = d
        /\ UNCHANGED <<block, count, frontBlock, tailBlock, enq, posted, result, failed>>
    BY <1>2 DEF DequeueStart, DequeueStep
  <2>2. frontBlock \in 1..count /\ frontBlock \in Blocks
    BY <1>0, QueueAssumption DEF RestFits, BlocksFit, Blocks
  <2>3. fb.front \in Slots
    BY <2>2, BlockTypes
  <2>4. d \in Dequeuer /\ d.b = frontBlock
    BY <2>2, <2>3 DEF Dequeuer
  <2> HIDE DEF d
  <2>5. DeqFits' /\ BlocksFit'
    BY <2>1, <2>2, <2>4, NoBlock DEF DeqFits
  <2> QED BY <1>0, <1>1, <2>1, <2>5 DEF RestFits
<1>3. ASSUME NEW pc \in {"tailBlock", "advance"},
             DequeueTail("tail", pc) \/ DequeueTail("again", pc)
      PROVE  TypeInv'
  <2> DEFINE r == [block[deq.b] EXCEPT !.localTail = block[deq.b].tail]
             d == [deq EXCEPT !.pc = IF deq.slot # block[deq.b].tail THEN "take" ELSE pc]
  <2>1. /\ deq' = d /\ block' = [block EXCEPT ![deq.b] = r]
        /\ UNCHANGED <<count, frontBlock, tailBlock, enq, posted, result, failed>>
    BY <1>3 DEF DequeueTail, DequeueStep
  <2>2. r \in Block /\ Fits(r, count)
    BY <1>0, BlockTypes, Updates, ZenonT(60)
  <2>3. d \in Dequeuer /\ d.b = deq.b
    BY <1>0 DEF Dequeuer
  <2> HIDE DEF d, r
  <2>4. DeqFits' /\ BlocksFit'
    BY <1>0, <2>1, <2>2, <2>3, OneBlock, ZenonT(60) DEF DeqFits
  <2> QED BY <1>0, <1>1, <2>1, <2>4 DEF RestFits
<1>4. CASE DequeueTailBlock
  <2> DEFINE d == [deq EXCEPT !.pc = IF deq.b # tailBlock THEN "again" ELSE "idle"]
  <2>1. /\ deq' = d
        /\ UNCHANGED <<block, count, frontBlock, tailBlock, enq, posted, result, failed>>
    BY <1>4 DEF DequeueTailBlock, DequeueStep
  <2>2. d \in Dequeuer /\ d.b = deq.b
    BY <1>0 DEF Dequeuer
  <2> HIDE DEF d
  <2>3. DeqFits' /\ BlocksFit'
    BY <1>0, <2>1, <2>2, NoBlock DEF DeqFits
  <2> QED BY <1>0, <1>1, <2>1, <2>3 DEF RestFits
<1>5. CASE DequeueAdvance
  <2> DEFINE n == block[deq.b].next
             r == [block[n] EXCEPT !.localTail = block[n].tail]
             d == [deq EXCEPT !.pc = "move", !.b = n, !.slot = block[n].front]
  <2>1. /\ deq' = d /\ block' = [block EXCEPT ![n] = r]
        /\ failed' \in {failed, failed \cup {"next_has_element"}}
        /\ UNCHANGED <<count, frontBlock, tailBlock, enq, posted, result>>
    BY <1>5 DEF DequeueAdvance, DequeueStep
  <2>2. n \in 1..count /\ n \in Blocks
    BY <1>0, BlockTypes, QueueAssumption DEF BlocksFit, Blocks
  <2>3. block[n].front \in Slots
    BY <2>2, BlockTypes
  <2>4. r \in Block /\ Fits(r, count)
    BY <2>2, BlockTypes, Updates, ZenonT(60)
  <2>5. d \in Dequeuer /\ d.b = n
    BY <1>0, <2>2, <2>3, ZenonT(60) DEF Dequeuer
  <2> HIDE DEF d, r, n
  <2>6. DeqFits' /\ BlocksFit'
    BY <2>1, <2>2, <2>4, <2>5, OneBlock, ZenonT(60) DEF DeqFits
  <2> QED BY <1>0, <1>1, <2>1, <2>6 DEF RestFits
<1>6. CASE DequeueMove
  <2> DEFINE d == [deq EXCEPT !.pc = "take"]
  <2>1. /\ deq' = d /\ frontBlock' = deq.b
        /\ UNCHANGED <<block, count, tailBlock, enq, posted, result, failed>>
    BY <1>6 DEF DequeueMove, DequeueStep
  <2>2. d \in Dequeuer /\ d.b = deq.b
    BY <1>0 DEF Dequeuer
  <2> HIDE DEF d
  <2>3. DeqFits' /\ BlocksFit'
    BY <1>0, <2>1, <2>2, NoBlock DEF DeqFits
  <2> QED BY <1>0, <1>1, <2>1, <2>3 DEF RestFits
<1>7. CASE DequeueTake
  <2> DEFINE t == block[deq.b].data[deq.slot]
             r == [block[deq.b] EXCEPT !.data[deq.slot] = None]
             d == [deq EXCEPT !.pc = "release", !.task = t]
  <2>1. /\ deq' = d /\ block' = [block EXCEPT ![deq.b] = r]
        /\ UNCHANGED <<count, frontBlock, tailBlock, enq, posted, result, failed>>
    BY <1>7 DEF DequeueTake, DequeueStep
  <2>2. r \in Block /\ Fits(r, count)
    BY <1>0, Updates, ZenonT(60)
  <2>3. t \in Tasks \cup {None}
    BY <1>0, BlockTypes
  <2>4. d \in Dequeuer /\ d.b = deq.b
    BY <1>0, <2>3, ZenonT(60) DEF Dequeuer
  <2> HIDE DEF d, r
  <2>5. DeqFits' /\ BlocksFit'
    BY <1>0, <2>1, <2>2, <2>4, OneBlock, ZenonT(60) DEF DeqFits
  <2> QED BY <1>0, <1>1, <2>1, <2>5 DEF RestFits
<1>8. CASE DequeueRelease
  <2> DEFINE i == After(deq.slot, block[deq.b].size)
             r == [block[deq.b] EXCEPT !.front = i]
             d == [deq EXCEPT !.pc = "idle", !.task = None]
  <2>1. /\ deq' = d /\ block' = [block EXCEPT ![deq.b] = r]
        /\ result' = Append(result, deq.task)
        /\ UNCHANGED <<count, frontBlock, tailBlock, enq, posted, failed>>
    BY <1>8 DEF DequeueRelease, DequeueStep
  <2>2. i \in 0..(block[deq.b].size - 1)
    <3>1. /\ deq.slot \in Nat /\ block[deq.b].size \in Nat /\ block[deq.b].size >= 2
      BY <1>0, BlockTypes, SizesAre DEF Slots
    <3> QED BY <3>1 DEF After
  <2> HIDE DEF i
  <2>3. r \in Block /\ Fits(r, count)
    BY <1>0, <2>2, Updates, ZenonT(60)
  <2>4. d \in Dequeuer /\ d.b = deq.b
    BY <1>0, ZenonT(60) DEF Dequeuer
  <2> HIDE DEF d, r
  <2>5. DeqFits' /\ BlocksFit'
    BY <1>0, <2>1, <2>3, <2>4, OneBlock, ZenonT(60) DEF DeqFits
  <2>6. result' \in Seq(Tasks \cup {None})
    BY <1>0, <2>1 DEF RestFits
  <2> QED BY <1>0, <1>1, <2>1, <2>5, <2>6 DEF RestFits
<1> QED BY <1>2, <1>3, <1>4, <1>5, <1>6, <1>7, <1>8 DEF try_dequeue

\* The blocks the constructor makes.
LEMMA FirstBlocks ==
  ASSUME NEW n \in 1..InitBlocks
  PROVE  LET r == make_block(n, InitSize) IN
         /\ r \in Block /\ r.size = InitSize /\ r.next = n
         /\ r.front = 0 /\ r.localFront = 0 /\ r.tail = 0 /\ r.localTail = 0
<1> DEFINE d == [i \in Slots |-> None]
           r == make_block(n, InitSize)
<1>1. d \in [Slots -> Tasks \cup {None}]
  OBVIOUS
<1>2. InitSize \in 2..MAX_BLOCK_SIZE /\ MAX_BLOCK_SIZE \in Nat /\ 0 \in Slots
  BY SizesAre DEF Slots
<1>3. n \in Blocks
  BY QueueAssumption DEF Blocks
<1>4. r = [front |-> 0, localTail |-> 0, tail |-> 0, localFront |-> 0,
           next |-> n, size |-> InitSize, data |-> d]
  BY DEF make_block
<1> HIDE DEF d, r
<1>5. /\ r \in Block /\ r.size = InitSize /\ r.next = n
      /\ r.front = 0 /\ r.localFront = 0 /\ r.tail = 0 /\ r.localTail = 0
  BY <1>1, <1>2, <1>3, <1>4 DEF Block
<1> QED BY <1>5 DEF r

\* The remainder of what is smaller than the divisor.
LEMMA SmallRemainder ==
  ASSUME NEW n \in Nat, n >= 1, NEW i \in 0..(n - 1)
  PROVE  i % n = i
OBVIOUS

\* The constructor's ring.
LEMMA InitRing ==
  ASSUME Init
  PROVE  /\ InitBlocks \in Nat /\ InitBlocks >= 1 /\ count = InitBlocks
         /\ block \in [1..count -> Block]
         /\ \A b \in 1..count :
              /\ block[b].size = InitSize
              /\ block[b].next = (IF b = count THEN 1 ELSE b + 1)
              /\ block[b].front = 0 /\ block[b].localFront = 0
              /\ block[b].tail = 0 /\ block[b].localTail = 0
<1>1. /\ InitBlocks \in Nat /\ InitBlocks >= 1 /\ count = InitBlocks
      /\ block = [b \in 1..InitBlocks |-> make_block((b % InitBlocks) + 1, InitSize)]
  BY QueueAssumption DEF Init
<1>2. ASSUME NEW b \in 1..InitBlocks
      PROVE  (b % InitBlocks) + 1 = IF b = InitBlocks THEN 1 ELSE b + 1
  <2>1. CASE b = InitBlocks
    <3>1. InitBlocks % InitBlocks = 0
      BY <1>1
    <3> QED BY <2>1, <3>1
  <2>2. CASE b # InitBlocks
    <3>1. b \in 0..(InitBlocks - 1)
      BY <1>1, <2>2
    <3>2. b % InitBlocks = b
      BY <1>1, <3>1, SmallRemainder, ZenonT(60)
    <3> QED BY <2>2, <3>2, ZenonT(60)
  <2> QED BY <2>1, <2>2, ZenonT(60)
<1>3. ASSUME NEW b \in 1..count
      PROVE  /\ block[b] \in Block /\ block[b].size = InitSize
             /\ block[b].next = (IF b = count THEN 1 ELSE b + 1)
             /\ block[b].front = 0 /\ block[b].localFront = 0
             /\ block[b].tail = 0 /\ block[b].localTail = 0
  <2> DEFINE n == (b % InitBlocks) + 1
  <2>1. n = (IF b = count THEN 1 ELSE b + 1)
    BY <1>1, <1>2, ZenonT(60)
  <2>2. block[b] = make_block(n, InitSize)
    BY <1>1, ZenonT(60)
  <2> HIDE DEF n
  <2>3. n \in 1..InitBlocks
    BY <1>1, <2>1
  <2> QED BY <2>1, <2>2, <2>3, FirstBlocks, ZenonT(60)
<1>4. block \in [1..count -> Block]
  BY <1>1, <1>3, ZenonT(60)
<1> QED BY <1>1, <1>3, <1>4, ZenonT(60)

\* The queue just constructed is well typed.
LEMMA InitTypes == Init => TypeInv
<1> SUFFICES ASSUME Init PROVE TypeInv
  OBVIOUS
<1>1. /\ frontBlock = 1 /\ tailBlock = 1 /\ posted = <<>> /\ result = <<>> /\ failed = {}
      /\ enq = [p \in Producers |->
                  [pc |-> "idle", task |-> None, b |-> 1, nb |-> 1, slot |-> 0]]
      /\ deq = [pc |-> "idle", b |-> 1, slot |-> 0, task |-> None]
  BY ZenonT(60) DEF Init
<1>2. count \in Nat /\ 1 \in 1..count /\ count \in Blocks /\ 1 \in Blocks /\ 0 \in Slots
  BY InitRing, SizesAre, QueueAssumption DEF Blocks, Slots
<1>3. InitSize \in Nat /\ InitSize >= 2 /\ InitSize \in Sizes
  BY SizesAre
<1>4. BlocksFit
  BY <1>2, <1>3, InitRing DEF BlocksFit, Fits
<1>5. DeqFits
  BY <1>1, <1>2, ZenonT(60) DEF DeqFits, Dequeuer
<1>6. RestFits
  BY <1>1, <1>2 DEF RestFits
<1>7. enq \in [Producers -> Enqueuer] /\ \A p \in Producers : EnqFits(enq[p], count)
  BY <1>1, <1>2, ZenonT(60) DEF EnqFits, Enqueuer
<1> QED BY <1>4, <1>5, <1>6, <1>7, ZenonT(60) DEF TypeInv

\* Every step keeps the types.
LEMMA NextTypes == TypeInv /\ [Next]_vars => TypeInv'
<1> SUFFICES ASSUME TypeInv, [Next]_vars PROVE TypeInv'
  OBVIOUS
<1>1. CASE Next
  BY <1>1, EnqueueTypes, DequeueTypes, ZenonT(60) DEF Next
<1>2. CASE UNCHANGED vars
  <2>1. UNCHANGED <<block, count, frontBlock, tailBlock, enq, deq, posted, result, failed>>
    BY <1>2, ZenonT(60) DEF vars
  <2> QED BY <2>1, NoBlock, ZenonT(60) DEF TypeInv, DeqFits, RestFits, EnqFits
<1> QED BY <1>1, <1>2, ZenonT(60)

\* Every state of the queue is well typed, for any number of producers in
\* inner_enqueue at once: no index leaves its block, no link leads to a block
\* that was not made, and no block outgrows MAX_BLOCK_SIZE.
THEOREM QueueTypeCorrect == Spec => []TypeOK
<1>1. TypeInv => TypeOK
  BY ZenonT(60) DEF TypeInv, BlocksFit, DeqFits, RestFits, TypeOK
<1> QED BY <1>1, InitTypes, NextTypes, PTL DEF Spec

-----------------------------------------------------------------------------
(* One producer: what several steps have in common.                         *)

\* The producer.
LEMMA TheProducer ==
  ASSUME OneProducer, TypeInv
  PROVE  /\ Producers = {producer} /\ E \in Enqueuer
         /\ E.b \in 1..count /\ E.nb \in 1..count
<1>1. Producers = {producer}
  BY ZenonT(60) DEF OneProducer, producer
<1> QED BY <1>1, ZenonT(60) DEF TypeInv, EnqFits, E

\* The slots in use.
LEMMA UsedIs ==
  ASSUME TypeInv, NEW b \in 1..count
  PROVE  /\ Used(block[b]) \in 0..(block[b].size - 1) /\ Used(block[b]) \in Nat
         /\ Used(block[b]) = 0 <=> block[b].front = block[b].tail
<1>1. /\ block[b].size \in Nat /\ block[b].size >= 2
      /\ block[b].front \in 0..(block[b].size - 1)
      /\ block[b].tail \in 0..(block[b].size - 1)
  BY BlockTypes, ZenonT(60)
<1> QED BY <1>1 DEF Used, Dist

\* What each side may do to a block without overtaking the other: read the
\* other's index, take a slot of which localFront says that it is free, or
\* free one of which localTail says that it is taken.
LEMMA Shadows ==
  ASSUME NEW size \in Nat, size >= 2,
         NEW f \in 0..(size - 1), NEW lt \in 0..(size - 1),
         NEW t \in 0..(size - 1), NEW lf \in 0..(size - 1),
         Dist(f, lt, size) <= Dist(f, t, size), Dist(f, t, size) <= Dist(lf, t, size)
  PROVE  /\ After(t, size) # lf =>
              /\ Dist(f, After(t, size), size) = Dist(f, t, size) + 1
              /\ Dist(f, lt, size) <= Dist(f, After(t, size), size)
              /\ Dist(f, After(t, size), size) <= Dist(lf, After(t, size), size)
         /\ f # lt =>
              /\ f # t /\ Dist(After(f, size), t, size) = Dist(f, t, size) - 1
              /\ Dist(After(f, size), lt, size) <= Dist(After(f, size), t, size)
              /\ Dist(After(f, size), t, size) <= Dist(lf, t, size)
<1>1. /\ Dist(f, t, size) \in 0..(size - 1) /\ Dist(f, lt, size) \in 0..(size - 1)
      /\ Dist(lf, t, size) \in 0..(size - 1)
  BY Distances, ZenonT(60)
<1>2. ASSUME After(t, size) # lf
      PROVE  /\ Dist(f, After(t, size), size) = Dist(f, t, size) + 1
             /\ Dist(f, lt, size) <= Dist(f, After(t, size), size)
             /\ Dist(f, After(t, size), size) <= Dist(lf, After(t, size), size)
  <2>1. /\ Dist(lf, After(t, size), size) = Dist(lf, t, size) + 1
        /\ Dist(lf, t, size) # size - 1
    BY <1>2, Distances, ZenonT(60)
  <2>2. Dist(f, t, size) # size - 1
    BY <1>1, <2>1
  <2>3. Dist(f, After(t, size), size) = Dist(f, t, size) + 1
    BY <2>2, Distances, ZenonT(60)
  <2> QED BY <1>1, <2>1, <2>3
<1>3. ASSUME f # lt
      PROVE  /\ f # t /\ Dist(After(f, size), t, size) = Dist(f, t, size) - 1
             /\ Dist(After(f, size), lt, size) <= Dist(After(f, size), t, size)
             /\ Dist(After(f, size), t, size) <= Dist(lf, t, size)
  <2>1. Dist(f, lt, size) # 0 /\ Dist(After(f, size), lt, size) = Dist(f, lt, size) - 1
    BY <1>3, Distances, ZenonT(60)
  <2>2. Dist(f, t, size) # 0
    BY <1>1, <2>1
  <2>3. f # t /\ Dist(After(f, size), t, size) = Dist(f, t, size) - 1
    BY <2>2, Distances
  <2> QED BY <1>1, <2>1, <2>3
<1> QED BY <1>2, <1>3, ZenonT(60)

\* A slot that localFront says is free is published: the block holds one task
\* more and its shadows still lag.
LEMMA PublishShadows ==
  ASSUME NEW b, NEW g, b.size \in Nat, b.size >= 2,
         b.front \in 0..(b.size - 1), b.tail \in 0..(b.size - 1),
         b.localTail \in 0..(b.size - 1), b.localFront \in 0..(b.size - 1),
         ShadowsLag(b), After(b.tail, b.size) # b.localFront,
         g.tail = After(b.tail, b.size), g.front = b.front, g.size = b.size,
         g.localTail = b.localTail, g.localFront = b.localFront
  PROVE  ShadowsLag(g) /\ Used(g) = Used(b) + 1 /\ Used(b) \in Nat
<1>1. /\ Dist(b.front, b.localTail, b.size) <= Dist(b.front, b.tail, b.size)
      /\ Dist(b.front, b.tail, b.size) <= Dist(b.localFront, b.tail, b.size)
  BY ZenonT(60) DEF ShadowsLag, Used
<1>2. /\ Dist(b.front, g.tail, b.size) = Dist(b.front, b.tail, b.size) + 1
      /\ Dist(b.front, b.localTail, b.size) <= Dist(b.front, g.tail, b.size)
      /\ Dist(b.front, g.tail, b.size) <= Dist(b.localFront, g.tail, b.size)
  BY <1>1, Shadows
<1>3. Used(b) \in Nat
  BY DEF Used, Dist
<1> QED BY <1>2, <1>3, ZenonT(60) DEF ShadowsLag, Used

\* A block in which localTail says that a task is left is not empty.
LEMMA TakenShadows ==
  ASSUME NEW b, b.size \in Nat, b.size >= 2,
         b.front \in 0..(b.size - 1), b.tail \in 0..(b.size - 1),
         b.localTail \in 0..(b.size - 1), ShadowsLag(b), b.front # b.localTail
  PROVE  Used(b) \in Nat /\ Used(b) # 0
<1>1. Dist(b.front, b.localTail, b.size) <= Dist(b.front, b.tail, b.size)
  BY DEF ShadowsLag, Used
<1>2. Dist(b.front, b.tail, b.size) \in Nat /\ Dist(b.front, b.tail, b.size) # 0
  BY <1>1 DEF Dist
<1> QED BY <1>2 DEF Used

\* A block made for a task that did not fit holds that task only.
LEMMA NewShadows ==
  ASSUME NEW b, b.size \in Nat, b.size >= 2, b.front = 0, b.localFront = 0,
         b.tail = 1, b.localTail = 1
  PROVE  ShadowsLag(b) /\ Used(b) = 1
BY DEF ShadowsLag, Used, Dist

\* The queue just constructed: a ring of empty blocks, of which one is active.
LEMMA InitQueue == ASSUME OneProducer, Init PROVE QueueInv
<1>1. /\ frontBlock = 1 /\ tailBlock = 1 /\ posted = <<>> /\ result = <<>> /\ failed = {}
      /\ enq = [p \in Producers |->
                  [pc |-> "idle", task |-> None, b |-> 1, nb |-> 1, slot |-> 0]]
      /\ deq = [pc |-> "idle", b |-> 1, slot |-> 0, task |-> None]
  BY ZenonT(60) DEF Init
<1>2. TypeInv
  BY InitTypes, ZenonT(60)
<1>3. /\ count \in Nat /\ count >= 1 /\ InitSize \in Nat /\ InitSize >= 2
      /\ \A b \in 1..count :
           /\ block[b].next = (IF b = count THEN 1 ELSE b + 1)
           /\ block[b].front = 0 /\ block[b].localFront = 0
           /\ block[b].tail = 0 /\ block[b].localTail = 0
  BY InitRing, SizesAre
<1>4. E.pc = "idle" /\ E.task = None /\ deq.pc = "idle"
  BY <1>1, <1>2, TheProducer, ZenonT(60) DEF E
<1>5. \A b \in 1..count : Used(block[b]) = 0 /\ ShadowsLag(block[b])
  BY <1>3 DEF Used, ShadowsLag, Dist
<1>6. ASSUME NEW b \in 1..count
      PROVE  /\ InRing(b) /\ (Active(b) <=> b = 1)
             /\ b = 1 => First(b) = 1 /\ End(b) = 1 /\ Skip(b) = 0
  <2>1. InRing(b)
    BY <1>4, ZenonT(60) DEF InRing
  <2>2. Active(b) <=> b = 1
    BY <1>1, <1>5, ZenonT(60) DEF Active
  <2>3. Len(result) = 0
    BY <1>1, ZenonT(60)
  <2>4. ASSUME b = 1 PROVE First(b) = 1 /\ Skip(b) = 0
    BY <1>1, <1>4, <2>3, <2>4 DEF First, Skip
  <2> QED BY <1>5, <2>1, <2>2, <2>4 DEF End
<1>7. Len(posted) = 0
  BY <1>1, ZenonT(60)
<1>8. BlocksInv
  <2>1. ASSUME NEW b \in 1..count PROVE Numbered(block[b], First(b), Skip(b))
    <3>1. \A i \in 0..(block[b].size - 1) : ~(Dist(block[b].front, i, block[b].size) < 0)
      <4>1. block[b].front = 0
        BY <1>3, ZenonT(60)
      <4> QED BY <4>1 DEF Dist
    <3> QED BY <1>5, <3>1, ZenonT(60) DEF Numbered
  <2> QED BY <1>1, <1>5, <1>6, <1>7, <2>1 DEF BlocksInv
<1>9. RingInv
  <2>1. \A a, b \in 1..count : block[a].next = block[b].next => a = b
    BY <1>3
  <2>2. \A a \in 1..count : Active(a) => a = tailBlock
    BY <1>1, <1>6, ZenonT(60)
  <2>3. \A b \in 1..count : b = tailBlock => End(b) = Len(posted) + 1
    <3>1. 0 + 1 = 1
      OBVIOUS
    <3> QED BY <1>1, <1>6, <1>7, <3>1, ZenonT(60)
  <2>4. \A b \in 1..count : Active(b) => b = frontBlock
    BY <1>1, <1>6, ZenonT(60)
  <2> QED BY <1>6, <2>1, <2>2, <2>3, <2>4, ZenonT(60) DEF RingInv
<1>10. EnqueueInv /\ DequeueInv
  BY <1>4, ZenonT(60) DEF EnqueueInv, DequeueInv
<1>11. HistoryInv
  BY <1>1, <1>7 DEF HistoryInv
<1> QED BY <1>2, <1>8, <1>9, <1>10, <1>11, ZenonT(60) DEF QueueInv

\* The task of a new call follows the tasks posted.
LEMMA FreshIs ==
  ASSUME OneProducer, QueueInv, E.pc = "idle", NEW t \in Tasks, Fresh(t)
  PROVE  t = Len(posted) + 1
<1> DEFINE L == Len(posted)
<1>1. /\ posted \in Seq(Tasks) /\ L \in Nat /\ \A i \in 1..L : posted[i] = i
      /\ E.task = None /\ Producers = {producer}
  BY TheProducer DEF QueueInv, TypeInv, RestFits, HistoryInv, EnqueueInv
<1>2. Range(posted) = 1..L
  <2>1. DOMAIN posted = 1..L
    BY <1>1
  <2> QED BY <1>1, <2>1, ZenonT(60) DEF Range
<1>3. {enq[p].task : p \in Producers} = {None}
  BY <1>1, ZenonT(60) DEF E
<1>4. t \notin 1..L /\ 1..(t - 1) \subseteq (1..L) \cup {None}
  BY <1>2, <1>3, ZenonT(60) DEF Fresh
<1>5. t \in 1..MaxTasks /\ MaxTasks \in Nat /\ None \notin 1..MaxTasks
  BY QueueAssumption, ZenonT(60) DEF Tasks
<1> HIDE DEF L
<1>6. ~(t > L + 1)
  <2> SUFFICES ASSUME t > L + 1 PROVE FALSE
    OBVIOUS
  <2>1. L + 1 \in 1..(t - 1) /\ L + 1 \in 1..MaxTasks /\ L + 1 \notin 1..L
    BY <1>1, <1>5
  <2> QED BY <1>4, <1>5, <2>1, ZenonT(60)
<1> QED BY <1>1, <1>4, <1>5, <1>6 DEF L

\* Block b has the tasks it had, except those that are moved out.
Unmoved(b) ==
  /\ block'[b].front = block[b].front /\ block'[b].tail = block[b].tail
  /\ block'[b].size = block[b].size
  /\ \A i \in 0..(block[b].size - 1) :
       LET d == Dist(block[b].front, i, block[b].size)
       IN  Skip(b)' <= d /\ d < Used(block[b]) => block'[b].data[i] = block[b].data[i]

\* A step that leaves the chain and the tasks of its blocks alone.
LEMMA FrameKept ==
  ASSUME TypeInv, BlocksInv, RingInv,
         UNCHANGED <<count, frontBlock, tailBlock, posted, result>>,
         \A b \in 1..count : /\ block'[b].next = block[b].next
                             /\ ShadowsLag(block'[b])
                             /\ Active(b)' <=> Active(b)
                             /\ InRing(b)' <=> InRing(b)
                             /\ Active(b) => Unmoved(b)
                             /\ Skip(b) <= Skip(b)'
  PROVE  BlocksInv' /\ RingInv'
<1>1. ASSUME NEW b \in 1..count, Active(b)
      PROVE  /\ Used(block'[b]) = Used(block[b]) /\ First(b)' = First(b)
             /\ End(b)' = End(b)
             /\ Numbered(block'[b], First(b)', Skip(b)')
  <2>1. /\ block[b].size \in Nat /\ block[b].size >= 2
        /\ block[b].front \in 0..(block[b].size - 1)
        /\ block[b].tail \in 0..(block[b].size - 1)
    BY BlockTypes, ZenonT(60)
  <2>2. Unmoved(b)
    BY <1>1, ZenonT(60)
  <2>3. Used(block'[b]) = Used(block[b])
    BY <2>2, ZenonT(60) DEF Unmoved, Used
  <2>4. First(b)' = First(b)
    <3>1. CASE b = frontBlock
      BY <3>1, ZenonT(60) DEF First
    <3>2. CASE b # frontBlock
      <4>1. /\ Used(block[b]) # 0 /\ Used(block[b]) \in Nat
            /\ Dist(block[b].front, block[b].front, block[b].size) = 0
        <5>1. Used(block[b]) # 0
          BY <1>1, <3>2, ZenonT(60) DEF BlocksInv
        <5>2. Used(block[b]) \in Nat
          BY UsedIs, ZenonT(60)
        <5>3. Dist(block[b].front, block[b].front, block[b].size) = 0
          BY <2>1 DEF Dist
        <5> QED BY <5>1, <5>2, <5>3, ZenonT(60)
      <4>2. Skip(b)' = 0
        BY <3>2, ZenonT(60) DEF Skip
      <4>3. block'[b].data[block[b].front] = block[b].data[block[b].front]
        BY <2>1, <2>2, <4>1, <4>2 DEF Unmoved
      <4> QED BY <2>2, <3>2, <4>3, ZenonT(60) DEF First, Unmoved
    <3> QED BY <3>1, <3>2, ZenonT(60)
  <2>5. End(b)' = End(b)
    BY <2>3, <2>4, ZenonT(60) DEF End
  <2>6. Numbered(block'[b], First(b)', Skip(b)')
    <3>1. Numbered(block[b], First(b), Skip(b)) /\ Skip(b) <= Skip(b)'
      BY <1>1, ZenonT(60) DEF BlocksInv
    <3>2. Skip(b) \in Nat /\ Skip(b)' \in Nat
      BY ZenonT(60) DEF Skip
    <3>3. ASSUME NEW i \in 0..(block'[b].size - 1),
                 Skip(b)' <= Dist(block'[b].front, i, block'[b].size),
                 Dist(block'[b].front, i, block'[b].size) < Used(block'[b])
          PROVE  block'[b].data[i] = First(b)' + Dist(block'[b].front, i, block'[b].size)
      <4>1. /\ i \in 0..(block[b].size - 1)
            /\ Skip(b)' <= Dist(block[b].front, i, block[b].size)
            /\ Dist(block[b].front, i, block[b].size) < Used(block[b])
        BY <2>2, <2>3, <3>3, ZenonT(60) DEF Unmoved
      <4>2. block'[b].data[i] = block[b].data[i]
        BY <2>2, <4>1, ZenonT(60) DEF Unmoved
      <4>3. Dist(block[b].front, i, block[b].size) \in Nat
        BY <2>1, <4>1, DistNat, ZenonT(60)
      <4>4. block[b].data[i] = First(b) + Dist(block[b].front, i, block[b].size)
        BY <3>1, <3>2, <4>1, <4>3 DEF Numbered
      <4> QED BY <2>2, <2>4, <4>2, <4>4, ZenonT(60) DEF Unmoved
    <3> QED BY <3>3, ZenonT(60) DEF Numbered
  <2> QED BY <2>3, <2>4, <2>5, <2>6, ZenonT(60)
<1>2. BlocksInv'
  BY <1>1, ZenonT(60) DEF BlocksInv
<1>3. RingInv'
  <2>1. ASSUME NEW a \in 1..count, NEW b \in 1..count, block'[a].next = b
        PROVE  /\ InRing(a)' => InRing(b)'
               /\ Active(a)' /\ a # tailBlock' =>
                    Active(b)' /\ b # frontBlock' /\ First(b)' = End(a)'
    <3>1. block[a].next = b
      BY <2>1, ZenonT(60)
    <3>2. InRing(a) => InRing(b)
      BY <3>1, ZenonT(60) DEF RingInv
    <3>3. Active(a) /\ a # tailBlock => Active(b) /\ b # frontBlock /\ First(b) = End(a)
      BY <3>1, ZenonT(60) DEF RingInv
    <3> QED BY <1>1, <3>2, <3>3, ZenonT(60)
  <2>2. ASSUME NEW a \in 1..count, NEW b \in 1..count,
               InRing(a)', InRing(b)', block'[a].next = block'[b].next
        PROVE  a = b
    BY <2>2, ZenonT(60) DEF RingInv
  <2>3. ASSUME NEW b \in 1..count, Active(b)', b # frontBlock'
        PROVE  \E a \in 1..count : Active(a)' /\ a # tailBlock' /\ block'[a].next = b
    BY <2>3, ZenonT(60) DEF RingInv
  <2>4. ASSUME NEW b \in 1..count, b = tailBlock' PROVE End(b)' = Len(posted') + 1
    <3>1. Active(b)
      BY <2>4, ZenonT(60) DEF Active
    <3> QED BY <1>1, <2>4, <3>1, ZenonT(60) DEF RingInv
  <2> QED BY <2>1, <2>2, <2>3, <2>4, ZenonT(60) DEF RingInv
<1> QED BY <1>2, <1>3, ZenonT(60)

\* A step of the producer that the consumer does not notice.
LEMMA ConsumerUndisturbed ==
  ASSUME TypeInv, DequeueInv, UNCHANGED <<frontBlock, deq, result>>,
         \A b \in 1..count : /\ block'[b].front = block[b].front
                             /\ block'[b].localTail = block[b].localTail,
         frontBlock # tailBlock =>
           /\ frontBlock # tailBlock'
           /\ block'[frontBlock].tail = block[frontBlock].tail
           /\ block'[frontBlock].size = block[frontBlock].size
           /\ block'[frontBlock].next = block[frontBlock].next
  PROVE  DequeueInv'
<1>1. deq.b \in 1..count /\ frontBlock \in 1..count
  BY ZenonT(60) DEF TypeInv, DeqFits, RestFits
<1>2. /\ block'[deq.b].front = block[deq.b].front
      /\ block'[deq.b].localTail = block[deq.b].localTail
      /\ block'[frontBlock].front = block[frontBlock].front
  BY <1>1, ZenonT(60)
<1>3. frontBlock # tailBlock => Used(block'[frontBlock]) = Used(block[frontBlock])
  BY <1>2, ZenonT(60) DEF Used
<1> QED BY <1>2, <1>3, ZenonT(60) DEF DequeueInv

\* A step of the consumer that takes no slot and leaves no block.
LEMMA ConsumerLooks ==
  ASSUME OneProducer, QueueInv, deq.pc # "release",
         UNCHANGED <<count, frontBlock, tailBlock, posted, result, enq>>,
         \A b \in 1..count :
           /\ block'[b].front = block[b].front /\ block'[b].tail = block[b].tail
           /\ block'[b].size = block[b].size /\ block'[b].next = block[b].next
           /\ block'[b].localFront = block[b].localFront
           /\ Dist(block[b].front, block'[b].localTail, block[b].size) <= Used(block[b])
           /\ \A i \in Slots :
                \/ block'[b].data[i] = block[b].data[i]
                \/ /\ b = frontBlock /\ i = block[b].front
                   /\ Used(block[b]) # 0 /\ deq'.pc = "release"
  PROVE  BlocksInv' /\ RingInv' /\ EnqueueInv'
<1> USE DEF QueueInv
<1>1. ASSUME NEW b \in 1..count
      PROVE  /\ ShadowsLag(block'[b])
             /\ Active(b)' <=> Active(b)
             /\ InRing(b)' <=> InRing(b)
             /\ Used(block'[b]) = Used(block[b])
  <2>1. Used(block'[b]) = Used(block[b])
    BY ZenonT(60) DEF Used
  <2>2. ShadowsLag(block[b])
    BY ZenonT(60) DEF BlocksInv
  <2>3. ShadowsLag(block'[b])
    BY <2>1, <2>2, ZenonT(60) DEF ShadowsLag
  <2>4. Active(b)' <=> Active(b)
    BY <2>1, ZenonT(60) DEF Active, Pending, E
  <2>5. InRing(b)' <=> InRing(b)
    BY ZenonT(60) DEF InRing, E
  <2> QED BY <2>1, <2>3, <2>4, <2>5, ZenonT(60)
<1>2. ASSUME NEW b \in 1..count
      PROVE  Unmoved(b) /\ Skip(b) <= Skip(b)'
  <2>1. Skip(b) = 0 /\ Skip(b)' \in {0, 1}
    BY ZenonT(60) DEF Skip
  <2>2. /\ 0..(block[b].size - 1) \subseteq Slots
        /\ block[b].size \in Nat /\ block[b].size >= 2
        /\ block[b].front \in 0..(block[b].size - 1)
    BY BlockTypes, ZenonT(60)
  <2>3. Dist(block[b].front, block[b].front, block[b].size) = 0
    BY <2>2, Distances, ZenonT(60)
  <2>4. ASSUME NEW i \in 0..(block[b].size - 1),
               Skip(b)' <= Dist(block[b].front, i, block[b].size)
        PROVE  block'[b].data[i] = block[b].data[i]
    <3>1. b = frontBlock /\ deq'.pc = "release" => Skip(b)' = 1
      BY ZenonT(60) DEF Skip
    <3> QED BY <2>2, <2>3, <2>4, <3>1
  <2> QED BY <2>1, <2>4 DEF Unmoved
<1>3. BlocksInv' /\ RingInv'
  BY <1>1, <1>2, FrameKept, ZenonT(60)
<1>4. EnqueueInv'
  <2>1. E' = E /\ tailBlock \in 1..count /\ E.nb \in 1..count
    BY TheProducer, ZenonT(60) DEF E, TypeInv, RestFits
  <2> DEFINE tb == block[tailBlock]
             nb == block[E.nb]
  <2>2. /\ tb.tail \in Slots /\ nb.front \in Slots
    BY <2>1, BlockTypes, ZenonT(60)
  <2>3. block'[tailBlock].data[tb.tail] = tb.data[tb.tail]
    <3>1. Used(tb) # 0 => tb.front # tb.tail
      BY <2>1, UsedIs, ZenonT(60)
    <3> QED BY <2>1, <2>2, <3>1, ZenonT(60)
  <2>4. E.pc \in {"link", "move"} => block'[E.nb].data[nb.front] = nb.data[nb.front]
    BY <2>1, <2>2, ZenonT(60) DEF EnqueueInv
  <2>5. Used(block'[E.nb]) = Used(nb)
    BY <1>1, <2>1, ZenonT(60)
  <2>6. ASSUME NEW b \in 1..count', E'.pc = "advance", block'[tailBlock'].next = b
        PROVE  ~Active(b)'
    BY <1>1, <2>1, <2>6, ZenonT(60) DEF EnqueueInv
  <2> HIDE DEF tb, nb
  <2>7. /\ block'[tailBlock].tail = tb.tail /\ block'[tailBlock].size = tb.size
        /\ block'[tailBlock].next = tb.next /\ block'[tailBlock].localFront = tb.localFront
        /\ block'[E.nb].front = nb.front /\ block'[E.nb].next = nb.next
    BY <2>1, ZenonT(60) DEF tb, nb
  <2> QED BY <2>1, <2>3, <2>4, <2>5, <2>6, <2>7, ZenonT(60) DEF EnqueueInv, tb, nb
<1> QED BY <1>3, <1>4, ZenonT(60)

-----------------------------------------------------------------------------
(* One producer: the steps of try_dequeue.                                  *)

\* The consumer has read the tail of block b.
LEMMA TailRead ==
  ASSUME OneProducer, QueueInv, deq.pc # "release", NEW b \in 1..count,
         block' = [block EXCEPT ![b].localTail = block[b].tail], deq'.pc # "release",
         UNCHANGED <<count, frontBlock, tailBlock, posted, result, enq>>
  PROVE  /\ BlocksInv' /\ RingInv' /\ EnqueueInv'
         /\ block'[b].localTail = block[b].tail
         /\ \A x \in 1..count :
              /\ block'[x].front = block[x].front /\ block'[x].next = block[x].next
              /\ Used(block'[x]) = Used(block[x])
<1>1. TypeInv /\ block \in [1..count -> Block]
  BY ZenonT(60) DEF QueueInv, TypeInv, BlocksFit
<1>2. ASSUME NEW x \in 1..count
      PROVE  /\ block'[x].front = block[x].front /\ block'[x].tail = block[x].tail
             /\ block'[x].size = block[x].size /\ block'[x].next = block[x].next
             /\ block'[x].localFront = block[x].localFront
             /\ block'[x].data = block[x].data
             /\ block'[x].localTail = IF x = b THEN block[x].tail ELSE block[x].localTail
  <2>1. block[x] \in Block
    BY <1>1, ZenonT(60)
  <2> QED BY <1>1, <2>1, ZenonT(60) DEF Block
<1>3. ASSUME NEW x \in 1..count
      PROVE  Dist(block[x].front, block'[x].localTail, block[x].size) <= Used(block[x])
  <2>1. ShadowsLag(block[x]) /\ Used(block[x]) \in Nat
    BY <1>1, UsedIs, ZenonT(60) DEF QueueInv, BlocksInv
  <2>2. Dist(block[x].front, block[x].tail, block[x].size) = Used(block[x])
    BY ZenonT(60) DEF Used
  <2> QED BY <1>2, <2>1, <2>2 DEF ShadowsLag
<1>4. BlocksInv' /\ RingInv' /\ EnqueueInv'
  BY <1>2, <1>3, ConsumerLooks, ZenonT(60)
<1> QED BY <1>2, <1>4, ZenonT(60) DEF Used

\* A step of the consumer before it knows where the next task is.
LEMMA LooksKept ==
  ASSUME OneProducer, QueueInv,
         \/ DequeueStart \/ DequeueTailBlock
         \/ DequeueTail("tail", "tailBlock") \/ DequeueTail("again", "advance")
  PROVE  BlocksInv' /\ RingInv' /\ EnqueueInv' /\ DequeueInv' /\ HistoryInv'
<1>1. /\ TypeInv /\ BlocksInv /\ DequeueInv /\ HistoryInv /\ deq \in Dequeuer
      /\ frontBlock \in 1..count /\ deq.b \in 1..count
  BY ZenonT(60) DEF QueueInv, TypeInv, DeqFits, RestFits
<1>same. ASSUME UNCHANGED <<block, count, frontBlock, tailBlock, posted, result, enq>>,
                deq.pc # "release", deq'.pc # "release"
         PROVE  BlocksInv' /\ RingInv' /\ EnqueueInv'
  <2>1. ASSUME NEW b \in 1..count
        PROVE  Dist(block[b].front, block[b].localTail, block[b].size) <= Used(block[b])
    BY <1>1, ZenonT(60) DEF BlocksInv, ShadowsLag
  <2> QED BY <1>same, <2>1, ConsumerLooks, ZenonT(60)
<1>2. CASE DequeueStart
  <2>1. /\ deq.pc = "idle" /\ deq'.pc \in {"take", "tail"} /\ deq'.b = frontBlock
        /\ deq'.slot = block[frontBlock].front
        /\ deq'.pc = "take" => block[frontBlock].front # block[frontBlock].localTail
        /\ UNCHANGED <<block, count, frontBlock, tailBlock, posted, result, enq, failed>>
    BY <1>2, ZenonT(60) DEF DequeueStart, DequeueStep
  <2>2. DequeueInv'
    BY <2>1, ZenonT(60) DEF DequeueInv
  <2> QED BY <1>1, <1>same, <2>1, <2>2, ZenonT(60) DEF HistoryInv
<1>3. CASE DequeueTailBlock
  <2>1. /\ deq.pc = "tailBlock" /\ deq' = [deq EXCEPT !.pc = deq'.pc]
        /\ deq'.pc = IF deq.b # tailBlock THEN "again" ELSE "idle"
        /\ deq'.b = deq.b /\ deq'.slot = deq.slot
        /\ UNCHANGED <<block, count, frontBlock, tailBlock, posted, result, enq, failed>>
    BY <1>1, <1>3, ZenonT(60) DEF DequeueTailBlock, DequeueStep, Dequeuer
  <2>2. DequeueInv'
    BY <1>1, <2>1, ZenonT(60) DEF DequeueInv
  <2> QED BY <1>1, <1>same, <2>1, <2>2, ZenonT(60) DEF HistoryInv
<1>4. ASSUME NEW pc \in {"tail", "again"}, NEW empty \in {"tailBlock", "advance"},
             DequeueTail(pc, empty), pc = "again" <=> empty = "advance"
      PROVE  BlocksInv' /\ RingInv' /\ EnqueueInv' /\ DequeueInv' /\ HistoryInv'
  <2>1. /\ deq.pc = pc
        /\ deq'.pc = IF deq.slot # block[deq.b].tail THEN "take" ELSE empty
        /\ deq'.b = deq.b /\ deq'.slot = deq.slot
        /\ block' = [block EXCEPT ![deq.b].localTail = block[deq.b].tail]
        /\ UNCHANGED <<count, frontBlock, tailBlock, posted, result, enq, failed>>
    BY <1>1, <1>4, ZenonT(60) DEF DequeueTail, DequeueStep, Dequeuer
  <2>2. deq.b = frontBlock /\ deq.slot = block[frontBlock].front
    BY <1>1, <2>1, ZenonT(60) DEF DequeueInv
  <2>3. /\ BlocksInv' /\ RingInv' /\ EnqueueInv'
        /\ block'[deq.b].localTail = block[deq.b].tail
        /\ block'[deq.b].front = block[deq.b].front
        /\ Used(block'[frontBlock]) = Used(block[frontBlock])
    BY <1>1, <2>1, TailRead, ZenonT(60)
  <2>4. Used(block[frontBlock]) = 0 <=> block[frontBlock].front = block[frontBlock].tail
    BY <1>1, UsedIs, ZenonT(60)
  <2>5. DequeueInv'
    BY <1>1, <1>4, <2>1, <2>2, <2>3, <2>4, ZenonT(60) DEF DequeueInv
  <2> QED BY <1>1, <2>1, <2>3, <2>5, ZenonT(60) DEF HistoryInv
<1> QED BY <1>2, <1>3, <1>4, ZenonT(60)

\* The block after frontBlock, once that is empty and not the last, has a task.
LEMMA AdvanceKept ==
  ASSUME OneProducer, QueueInv, DequeueAdvance
  PROVE  BlocksInv' /\ RingInv' /\ EnqueueInv' /\ DequeueInv' /\ HistoryInv'
<1> DEFINE n == block[deq.b].next
<1>1. /\ TypeInv /\ BlocksInv /\ RingInv /\ DequeueInv /\ HistoryInv /\ deq \in Dequeuer
      /\ frontBlock \in 1..count /\ n \in 1..count
  <2>1. TypeInv /\ deq.b \in 1..count
    BY ZenonT(60) DEF QueueInv, TypeInv, DeqFits
  <2> QED BY <2>1, BlockTypes, ZenonT(60) DEF QueueInv, TypeInv, DeqFits, RestFits
<1>2. /\ deq.pc = "advance" /\ deq'.pc = "move" /\ deq'.b = n
      /\ deq'.slot = block[n].front
      /\ block' = [block EXCEPT ![n].localTail = block[n].tail]
      /\ failed' = IF block[n].front # block[n].tail
                   THEN failed ELSE failed \cup {"next_has_element"}
      /\ UNCHANGED <<count, frontBlock, tailBlock, posted, result, enq>>
  BY <1>1, ZenonT(60) DEF DequeueAdvance, DequeueStep, Dequeuer
<1>3. /\ n = block[frontBlock].next /\ frontBlock # tailBlock
      /\ Used(block[frontBlock]) = 0
  BY <1>1, <1>2, ZenonT(60) DEF DequeueInv
<1> HIDE DEF n
<1>4. Active(n) /\ n # frontBlock
  <2>1. Active(frontBlock)
    BY ZenonT(60) DEF Active
  <2> QED BY <1>1, <1>3, <2>1, ZenonT(60) DEF RingInv
<1>5. block[n].front # block[n].tail
  <2>1. Used(block[n]) # 0
    BY <1>1, <1>4, ZenonT(60) DEF BlocksInv
  <2> QED BY <1>1, <2>1, UsedIs, ZenonT(60)
<1>6. /\ BlocksInv' /\ RingInv' /\ EnqueueInv'
      /\ block'[n].localTail = block[n].tail /\ block'[n].front = block[n].front
      /\ Used(block'[frontBlock]) = Used(block[frontBlock])
      /\ block'[frontBlock].next = block[frontBlock].next
  BY <1>1, <1>2, TailRead, ZenonT(60)
<1>7. DequeueInv'
  BY <1>2, <1>3, <1>5, <1>6, ZenonT(60) DEF DequeueInv
<1>8. HistoryInv'
  BY <1>1, <1>2, <1>5, ZenonT(60) DEF HistoryInv
<1> QED BY <1>6, <1>7, <1>8, ZenonT(60)

\* The task moved out is the next one.
LEMMA TakeKept ==
  ASSUME OneProducer, QueueInv, DequeueTake
  PROVE  BlocksInv' /\ RingInv' /\ EnqueueInv' /\ DequeueInv' /\ HistoryInv'
<1> DEFINE fb == block[frontBlock]
<1>1. /\ TypeInv /\ BlocksInv /\ DequeueInv /\ HistoryInv /\ deq \in Dequeuer
      /\ frontBlock \in 1..count /\ block \in [1..count -> Block]
  BY ZenonT(60) DEF QueueInv, TypeInv, BlocksFit, DeqFits, RestFits
<1>2. /\ deq.pc = "take" /\ deq'.pc = "release" /\ deq'.b = deq.b /\ deq'.slot = deq.slot
      /\ deq'.task = block[deq.b].data[deq.slot]
      /\ block' = [block EXCEPT ![deq.b].data[deq.slot] = None]
      /\ UNCHANGED <<count, frontBlock, tailBlock, posted, result, enq, failed>>
  BY <1>1, ZenonT(60) DEF DequeueTake, DequeueStep, Dequeuer
<1>3. /\ deq.b = frontBlock /\ deq.slot = fb.front /\ fb.front # fb.localTail
  BY <1>1, <1>2, ZenonT(60) DEF DequeueInv
<1>4. /\ fb.size \in Nat /\ fb.size >= 2 /\ 0..(fb.size - 1) \subseteq Slots
      /\ {fb.front, fb.tail, fb.localTail, fb.localFront} \subseteq 0..(fb.size - 1)
      /\ fb \in Block /\ fb.data \in [Slots -> Tasks \cup {None}]
  BY <1>1, BlockTypes, ZenonT(60)
<1>5. ShadowsLag(fb) /\ Numbered(fb, Len(result) + 1, 0) /\ Len(result) \in Nat
  <2>1. Active(frontBlock) /\ First(frontBlock) = Len(result) + 1 /\ Skip(frontBlock) = 0
    BY <1>2, ZenonT(60) DEF Active, First, Skip
  <2>2. Len(result) \in Nat
    BY <1>1 DEF TypeInv, RestFits
  <2> QED BY <1>1, <2>1, <2>2, ZenonT(60) DEF BlocksInv
<1>6. ASSUME NEW b \in 1..count
      PROVE  /\ block'[b].front = block[b].front /\ block'[b].tail = block[b].tail
             /\ block'[b].size = block[b].size /\ block'[b].next = block[b].next
             /\ block'[b].localFront = block[b].localFront
             /\ block'[b].localTail = block[b].localTail
             /\ \A i \in Slots : \/ block'[b].data[i] = block[b].data[i]
                                 \/ b = frontBlock /\ i = fb.front
  <2>1. CASE b # frontBlock
    BY <1>1, <1>2, <1>3, <2>1, ZenonT(60)
  <2>2. CASE b = frontBlock
    <3>1. block'[b] = [fb EXCEPT !.data[fb.front] = None]
      BY <1>1, <1>2, <1>3, <2>2, ZenonT(60)
    <3> HIDE DEF fb
    <3>2. /\ block'[b].front = fb.front /\ block'[b].tail = fb.tail
          /\ block'[b].size = fb.size /\ block'[b].next = fb.next
          /\ block'[b].localFront = fb.localFront /\ block'[b].localTail = fb.localTail
          /\ block'[b].data = [fb.data EXCEPT ![fb.front] = None]
      BY <1>4, <3>1, ZenonT(60) DEF Block
    <3>3. \A i \in Slots : i # fb.front => block'[b].data[i] = fb.data[i]
      BY <1>4, <3>2, ZenonT(60)
    <3> QED BY <2>2, <3>2, <3>3, ZenonT(60) DEF fb
  <2> QED BY <2>1, <2>2, ZenonT(60)
<1>7. Used(fb) # 0 /\ Used(fb) \in Nat /\ fb.front # fb.tail
  <2> HIDE DEF fb
  <2>1. Dist(fb.front, fb.localTail, fb.size) <= Dist(fb.front, fb.tail, fb.size)
    BY <1>5, ZenonT(60) DEF ShadowsLag, Used
  <2>2. /\ fb.front \in 0..(fb.size - 1) /\ fb.tail \in 0..(fb.size - 1)
        /\ fb.localTail \in 0..(fb.size - 1)
    BY <1>4, ZenonT(60)
  <2>3. fb.front # fb.tail
    BY <1>3, <1>4, <2>1, <2>2 DEF Dist
  <2> QED BY <1>4, <2>2, <2>3 DEF Used, Dist
<1>8. deq'.task = Len(result) + 1
  <2>1. Dist(fb.front, fb.front, fb.size) = 0 /\ fb.front \in 0..(fb.size - 1)
    BY <1>4 DEF Dist
  <2>2. fb.data[fb.front] = Len(result) + 1 + 0
    BY <1>5, <1>7, <2>1 DEF Numbered
  <2> QED BY <1>2, <1>3, <1>5, <2>2
<1>9. \A b \in 1..count :
        Dist(block[b].front, block'[b].localTail, block[b].size) <= Used(block[b])
  BY <1>1, <1>6, ZenonT(60) DEF BlocksInv, ShadowsLag
<1>10. BlocksInv' /\ RingInv' /\ EnqueueInv'
  BY <1>2, <1>6, <1>7, <1>9, ConsumerLooks
<1>11. DequeueInv'
  <2>1. /\ block'[frontBlock].front = fb.front
        /\ block'[frontBlock].localTail = fb.localTail
    BY <1>1, <1>6, ZenonT(60)
  <2> QED BY <1>2, <1>3, <1>8, <2>1, ZenonT(60) DEF DequeueInv
<1>12. HistoryInv'
  BY <1>1, <1>2, ZenonT(60) DEF HistoryInv
<1> QED BY <1>10, <1>11, <1>12, ZenonT(60)

\* Active blocks are in the ring, and a pending one is not active.
LEMMA ActiveIs ==
  ASSUME EnqueueInv, NEW b, Active(b)
  PROVE  InRing(b) /\ ~Pending(b)
BY ZenonT(60) DEF EnqueueInv, Active, InRing, Pending

\* An empty frontBlock leaves the chain; the next one takes its place.
LEMMA MoveKept ==
  ASSUME OneProducer, QueueInv, DequeueMove
  PROVE  BlocksInv' /\ RingInv' /\ EnqueueInv' /\ DequeueInv' /\ HistoryInv'
<1> DEFINE f == frontBlock
           n == block[frontBlock].next
<1>1. /\ TypeInv /\ BlocksInv /\ RingInv /\ EnqueueInv /\ DequeueInv /\ HistoryInv
      /\ deq \in Dequeuer /\ f \in 1..count /\ n \in 1..count
  <2>1. TypeInv /\ frontBlock \in 1..count
    BY ZenonT(60) DEF QueueInv, TypeInv, RestFits
  <2> QED BY <2>1, BlockTypes, ZenonT(60) DEF QueueInv, TypeInv, DeqFits
<1>2. /\ deq.pc = "move" /\ deq'.pc = "take" /\ deq'.b = deq.b /\ deq'.slot = deq.slot
      /\ frontBlock' = deq.b
      /\ UNCHANGED <<block, count, tailBlock, enq, posted, result, failed>>
  BY <1>1, ZenonT(60) DEF DequeueMove, DequeueStep, Dequeuer
<1>3. /\ frontBlock' = n /\ f # tailBlock /\ Used(block[f]) = 0 /\ deq.b = n
      /\ deq.slot = block[n].front /\ block[n].front # block[n].localTail
  BY <1>1, <1>2, ZenonT(60) DEF DequeueInv
<1> HIDE DEF f, n
<1>4. Active(f) /\ Active(n) /\ n # f /\ First(n) = Len(result) + 1
  <2>1. Active(f) /\ First(f) = Len(result) + 1
    BY ZenonT(60) DEF Active, First, f
  <2>2. Active(n) /\ n # f /\ First(n) = End(f)
    BY <1>1, <1>3, <2>1 DEF RingInv, f, n
  <2>3. Len(result) \in Nat
    BY <1>1 DEF TypeInv, RestFits
  <2> QED BY <1>3, <2>1, <2>2, <2>3 DEF End
<1>5. ASSUME NEW b \in 1..count PROVE Active(b)' <=> Active(b) /\ b # f
  <2>1. Active(b) <=> b \in {f, tailBlock} \/ (Used(block[b]) # 0 /\ ~Pending(b))
    BY ZenonT(60) DEF Active, f
  <2>2. Active(b)' <=> b \in {n, tailBlock} \/ (Used(block[b]) # 0 /\ ~Pending(b))
    BY <1>2, <1>3, ZenonT(60) DEF Active, Pending, E
  <2> QED BY <1>3, <1>4, <2>1, <2>2, ZenonT(60)
<1>6. ASSUME NEW b \in 1..count, b # f
      PROVE  First(b)' = First(b) /\ End(b)' = End(b) /\ Skip(b)' = Skip(b)
  <2>1. First(b)' = IF b = n THEN Len(result) + 1 ELSE block[b].data[block[b].front]
    BY <1>2, <1>3, ZenonT(60) DEF First
  <2>2. First(b)' = First(b)
    BY <1>4, <1>6, <2>1, ZenonT(60) DEF First, f
  <2> QED BY <1>2, <2>2, ZenonT(60) DEF End, Skip
<1>7. BlocksInv'
  <2>1. ASSUME NEW b \in 1..count'
        PROVE  /\ ShadowsLag(block'[b])
               /\ Active(b)' => /\ First(b)' \in Nat
                                /\ Numbered(block'[b], First(b)', Skip(b)')
                                /\ b # frontBlock' => Used(block'[b]) # 0
                                /\ End(b)' <= Len(posted') + 1
    <3>1. b \in 1..count /\ ShadowsLag(block[b])
      BY <1>1, <1>2, ZenonT(60) DEF BlocksInv
    <3>2. ASSUME Active(b)'
          PROVE  /\ First(b) \in Nat
                 /\ Numbered(block[b], First(b), Skip(b))
                 /\ Used(block[b]) # 0
                 /\ End(b) <= Len(posted) + 1
                 /\ First(b)' = First(b) /\ End(b)' = End(b) /\ Skip(b)' = Skip(b)
      <4>1. Active(b) /\ b # f
        BY <1>5, <3>1, <3>2, ZenonT(60)
      <4> QED BY <1>1, <1>6, <3>1, <4>1, ZenonT(60) DEF BlocksInv, f
    <3> QED BY <1>2, <3>1, <3>2, ZenonT(60)
  <2> QED BY <2>1, ZenonT(60) DEF BlocksInv
<1>8. RingInv'
  <2>1. ASSUME NEW a \in 1..count, NEW b \in 1..count, block[a].next = b
        PROVE  /\ InRing(a)' => InRing(b)'
               /\ Active(a)' /\ a # tailBlock =>
                    Active(b)' /\ b # n /\ First(b)' = End(a)'
    <3>1. InRing(a)' => InRing(b)'
      BY <1>1, <1>2, <2>1, ZenonT(60) DEF RingInv, InRing, E
    <3>2. ASSUME Active(a)', a # tailBlock
          PROVE  Active(b)' /\ b # n /\ First(b)' = End(a)'
      <4>1. Active(a) /\ a # f
        BY <1>5, <3>2, ZenonT(60)
      <4>2. Active(b) /\ b # f /\ First(b) = End(a)
        BY <1>1, <2>1, <3>2, <4>1, ZenonT(60) DEF RingInv, f
      <4>3. b # n
        <5>1. InRing(a) /\ InRing(f)
          BY <1>1, <1>4, <4>1, ActiveIs, ZenonT(60)
        <5>2. block[f].next = n
          BY ZenonT(60) DEF f, n
        <5> QED BY <1>1, <2>1, <4>1, <5>1, <5>2, ZenonT(60) DEF RingInv
      <4> QED BY <1>5, <1>6, <4>1, <4>2, <4>3, ZenonT(60)
    <3> QED BY <3>1, <3>2, ZenonT(60)
  <2>2. ASSUME NEW a \in 1..count, NEW b \in 1..count,
               InRing(a)', InRing(b)', block[a].next = block[b].next
        PROVE  a = b
    <3>1. InRing(a) /\ InRing(b)
      BY <1>2, <2>2, ZenonT(60) DEF InRing, E
    <3> QED BY <1>1, <2>2, <3>1, ZenonT(60) DEF RingInv
  <2>3. ASSUME NEW b \in 1..count, Active(b)', b # n
        PROVE  \E a \in 1..count : Active(a)' /\ a # tailBlock /\ block[a].next = b
    <3>1. Active(b) /\ b # f
      BY <1>5, <2>3, ZenonT(60)
    <3>2. PICK a \in 1..count : Active(a) /\ a # tailBlock /\ block[a].next = b
      BY <1>1, <3>1, ZenonT(60) DEF RingInv, f
    <3>3. a # f
      BY <2>3, <3>2, ZenonT(60) DEF f, n
    <3> QED BY <1>5, <3>2, <3>3, ZenonT(60)
  <2>4. ASSUME NEW b \in 1..count, b = tailBlock PROVE End(b)' = Len(posted) + 1
    BY <1>1, <1>3, <1>6, <2>4, ZenonT(60) DEF RingInv
  <2> QED BY <1>2, <1>3, <2>1, <2>2, <2>3, <2>4 DEF RingInv
<1>9. EnqueueInv'
  <2>1. E' = E
    BY <1>2, ZenonT(60) DEF E
  <2>2. \A b \in 1..count' : E'.pc = "advance" /\ block'[tailBlock'].next = b => ~Active(b)'
    BY <1>1, <1>2, <1>5, <2>1, ZenonT(60) DEF EnqueueInv
  <2>3. E.pc \in {"link", "move"} => E.nb # n
    <3>1. ~Pending(n)
      BY <1>1, <1>4, ActiveIs, ZenonT(60)
    <3> QED BY <3>1, ZenonT(60) DEF Pending
  <2> QED BY <1>1, <1>2, <1>3, <2>1, <2>2, <2>3, ZenonT(60) DEF EnqueueInv
<1>10. DequeueInv'
  BY <1>2, <1>3, ZenonT(60) DEF DequeueInv
<1>11. HistoryInv'
  BY <1>1, <1>2, ZenonT(60) DEF HistoryInv
<1> QED BY <1>7, <1>8, <1>9, <1>10, <1>11, ZenonT(60)

\* The slot of the task moved out is given back to the producer.
LEMMA ReleaseKept ==
  ASSUME OneProducer, QueueInv, DequeueRelease
  PROVE  BlocksInv' /\ RingInv' /\ EnqueueInv' /\ DequeueInv' /\ HistoryInv'
<1> DEFINE f == frontBlock
           fb == block[frontBlock]
           gb == block'[frontBlock]
<1>1. /\ TypeInv /\ BlocksInv /\ RingInv /\ EnqueueInv /\ DequeueInv /\ HistoryInv
      /\ deq \in Dequeuer /\ f \in 1..count /\ block \in [1..count -> Block]
      /\ result \in Seq(Tasks \cup {None}) /\ deq.task \in Tasks \cup {None}
  BY ZenonT(60) DEF QueueInv, TypeInv, BlocksFit, DeqFits, RestFits, Dequeuer
<1>2. /\ deq.pc = "release" /\ deq'.pc = "idle"
      /\ block' = [block EXCEPT ![deq.b].front = After(deq.slot, block[deq.b].size)]
      /\ result' = Append(result, deq.task)
      /\ UNCHANGED <<frontBlock, count, tailBlock, enq, posted, failed>>
  BY <1>1, ZenonT(60) DEF DequeueRelease, DequeueStep, Dequeuer
<1>3. deq.b = f /\ deq.slot = fb.front /\ fb.front # fb.localTail
  BY <1>1, <1>2, ZenonT(60) DEF DequeueInv
<1>4. /\ fb.size \in Nat /\ fb.size >= 2 /\ fb \in Block
      /\ fb.front \in 0..(fb.size - 1) /\ fb.tail \in 0..(fb.size - 1)
      /\ fb.localTail \in 0..(fb.size - 1) /\ fb.localFront \in 0..(fb.size - 1)
  BY <1>1, BlockTypes, ZenonT(60)
<1>5. \A b \in 1..count : b # f => block'[b] = block[b]
  BY <1>1, <1>2, <1>3, ZenonT(60)
<1>6. /\ gb.front = After(fb.front, fb.size) /\ gb.tail = fb.tail /\ gb.size = fb.size
      /\ gb.localTail = fb.localTail /\ gb.localFront = fb.localFront
      /\ gb.next = fb.next /\ gb.data = fb.data
  <2>1. gb = [fb EXCEPT !.front = After(fb.front, fb.size)]
    BY <1>1, <1>2, <1>3, ZenonT(60)
  <2> HIDE DEF fb, gb
  <2> QED BY <1>4, <2>1, ZenonT(60) DEF Block
<1>7. /\ Len(result) \in Nat /\ Len(result') = Len(result) + 1
  BY <1>1, <1>2
<1>8. /\ Active(f) /\ First(f) = Len(result) + 1 /\ Skip(f) = 1
      /\ \A b : Skip(b)' = 0
      /\ \A b : b = f => First(b)' = Len(result) + 2
  <2>1. frontBlock' = frontBlock /\ deq'.pc # "release" /\ deq.pc = "release"
    BY <1>2, ZenonT(60)
  <2> QED BY <1>7, <2>1 DEF Active, First, Skip
<1>9. ShadowsLag(fb) /\ Numbered(fb, Len(result) + 1, 1)
  BY <1>1, <1>8, ZenonT(60) DEF BlocksInv
<1> HIDE DEF fb, gb
<1>10. /\ ShadowsLag(gb) /\ Used(gb) = Used(fb) - 1
       /\ Used(fb) \in 1..(fb.size - 1)
  <2>1. /\ Dist(fb.front, fb.localTail, fb.size) <= Dist(fb.front, fb.tail, fb.size)
        /\ Dist(fb.front, fb.tail, fb.size) <= Dist(fb.localFront, fb.tail, fb.size)
    BY <1>9, ZenonT(60) DEF ShadowsLag, Used
  <2>2. /\ fb.front # fb.tail
        /\ Dist(gb.front, fb.tail, fb.size) = Dist(fb.front, fb.tail, fb.size) - 1
        /\ Dist(gb.front, fb.localTail, fb.size) <= Dist(gb.front, fb.tail, fb.size)
        /\ Dist(gb.front, fb.tail, fb.size) <= Dist(fb.localFront, fb.tail, fb.size)
    BY <1>3, <1>4, <1>6, <2>1, Shadows
  <2>3. Used(fb) \in 1..(fb.size - 1)
    BY <1>4, <2>2 DEF Used, Dist
  <2> QED BY <1>6, <2>2, <2>3, ZenonT(60) DEF ShadowsLag, Used
<1>11. Numbered(gb, Len(result) + 2, 0)
  <2>1. ASSUME NEW i \in 0..(fb.size - 1), Dist(gb.front, i, fb.size) < Used(gb)
        PROVE  fb.data[i] = Len(result) + 2 + Dist(gb.front, i, fb.size)
    <3>1. gb.front = IF fb.front + 1 = fb.size THEN 0 ELSE fb.front + 1
      BY <1>4, <1>6, AfterIs, ZenonT(60)
    <3>2. i # fb.front
      BY <1>4, <1>10, <2>1, <3>1 DEF Dist
    <3>3. Dist(fb.front, i, fb.size) = Dist(gb.front, i, fb.size) + 1
          /\ Dist(gb.front, i, fb.size) \in Nat
      BY <1>4, <3>1, <3>2 DEF Dist
    <3>4. 1 <= Dist(fb.front, i, fb.size) /\ Dist(fb.front, i, fb.size) < Used(fb)
      BY <1>10, <2>1, <3>3
    <3>5. fb.data[i] = Len(result) + 1 + Dist(fb.front, i, fb.size)
      BY <1>9, <3>4, ZenonT(60) DEF Numbered
    <3> QED BY <1>7, <3>3, <3>5
  <2> QED BY <1>6, <2>1, ZenonT(60) DEF Numbered
<1>12. ASSUME NEW b \in 1..count
       PROVE  /\ Active(b)' <=> Active(b)
              /\ InRing(b)' <=> InRing(b)
              /\ End(b)' = End(b)
              /\ b # f => First(b)' = First(b) /\ Used(block'[b]) = Used(block[b])
              /\ block'[b].next = block[b].next
              /\ block'[b].tail = block[b].tail /\ block'[b].size = block[b].size
  <2>1. CASE b = f
    <3>1. block[b] = fb /\ block'[b] = gb
      BY <2>1, ZenonT(60) DEF fb, gb
    <3>2. End(b)' = Len(result) + 2 + Used(gb) /\ End(b) = Len(result) + 1 + Used(fb)
      BY <1>8, <2>1, <3>1, ZenonT(60) DEF End
    <3>3. End(b)' = End(b)
      BY <1>7, <1>10, <3>2
    <3> QED BY <1>2, <1>6, <2>1, <3>1, <3>3, ZenonT(60) DEF Active, InRing, E
  <2>2. CASE b # f
    <3>1. block'[b] = block[b]
      BY <1>5, <2>2, ZenonT(60)
    <3>2. First(b)' = First(b)
      <4>1. frontBlock' = frontBlock
        BY <1>2, ZenonT(60)
      <4> QED BY <2>2, <3>1, <4>1, ZenonT(60) DEF First
    <3>3. Active(b)' <=> Active(b)
      BY <1>2, <3>1, ZenonT(60) DEF Active, Pending, E
    <3> QED BY <1>2, <2>2, <3>1, <3>2, <3>3, ZenonT(60) DEF End, InRing, E
  <2> QED BY <2>1, <2>2, ZenonT(60)
<1>13. BlocksInv'
  <2>1. ASSUME NEW b \in 1..count
        PROVE  /\ ShadowsLag(block'[b])
               /\ Active(b)' => /\ First(b)' \in Nat
                                /\ Numbered(block'[b], First(b)', Skip(b)')
                                /\ b # frontBlock => Used(block'[b]) # 0
                                /\ End(b)' <= Len(posted) + 1
    <3>1. CASE b = f
      <4>1. block'[b] = gb
        BY <3>1, ZenonT(60) DEF gb
      <4>2. First(b)' = Len(result) + 2 /\ Skip(b)' = 0
        BY <1>8, <3>1, ZenonT(60)
      <4>3. End(b)' <= Len(posted) + 1
        BY <1>1, <1>8, <1>12, <3>1, ZenonT(60) DEF BlocksInv
      <4> QED BY <1>7, <1>10, <1>11, <3>1, <4>1, <4>2, <4>3
    <3>2. CASE b # f
      <4>1. block'[b] = block[b] /\ Skip(b)' = 0 /\ Skip(b) = 0
        BY <1>5, <1>8, <3>2, ZenonT(60) DEF Skip
      <4> QED BY <1>1, <1>12, <3>2, <4>1, ZenonT(60) DEF BlocksInv
    <3> QED BY <3>1, <3>2, ZenonT(60)
  <2> QED BY <1>2, <2>1, ZenonT(60) DEF BlocksInv
<1>14. RingInv'
  <2>1. ASSUME NEW a \in 1..count, NEW b \in 1..count, block'[a].next = b
        PROVE  /\ InRing(a)' => InRing(b)'
               /\ Active(a)' /\ a # tailBlock =>
                    Active(b)' /\ b # f /\ First(b)' = End(a)'
    <3>1. block[a].next = b
      BY <1>12, <2>1, ZenonT(60)
    <3> QED BY <1>1, <1>12, <3>1 DEF RingInv
  <2>2. ASSUME NEW b \in 1..count, Active(b)', b # f
        PROVE  \E a \in 1..count : Active(a)' /\ a # tailBlock /\ block'[a].next = b
    <3>1. PICK a \in 1..count : Active(a) /\ a # tailBlock /\ block[a].next = b
      BY <1>1, <1>12, <2>2, ZenonT(60) DEF RingInv
    <3> QED BY <1>12, <3>1, ZenonT(60)
  <2>3. ASSUME NEW a \in 1..count, NEW b \in 1..count,
               InRing(a)', InRing(b)', block'[a].next = block'[b].next
        PROVE  a = b
    BY <1>1, <1>12, <2>3, ZenonT(60) DEF RingInv
  <2>4. ASSUME NEW b \in 1..count, b = tailBlock PROVE End(b)' = Len(posted) + 1
    BY <1>1, <1>12, <2>4, ZenonT(60) DEF RingInv
  <2> QED BY <1>2, <2>1, <2>2, <2>3, <2>4, ZenonT(60) DEF RingInv
<1>15. EnqueueInv'
  <2>1. E' = E /\ tailBlock \in 1..count /\ E.nb \in 1..count
    BY <1>1, <1>2, TheProducer, ZenonT(60) DEF E, TypeInv, RestFits
  <2>2. ASSUME NEW b \in 1..count', E'.pc = "advance", block'[tailBlock'].next = b
        PROVE  ~Active(b)'
    BY <1>1, <1>2, <1>12, <2>1, <2>2, ZenonT(60) DEF EnqueueInv
  <2>3. E.pc \in {"link", "move"} => block'[E.nb] = block[E.nb]
    BY <1>1, <1>5, <2>1, ZenonT(60) DEF EnqueueInv
  <2>4. /\ block'[tailBlock].tail = block[tailBlock].tail
        /\ block'[tailBlock].size = block[tailBlock].size
        /\ block'[tailBlock].next = block[tailBlock].next
        /\ block'[tailBlock].localFront = block[tailBlock].localFront
        /\ block'[tailBlock].data = block[tailBlock].data
    BY <1>5, <1>6, <2>1, ZenonT(60) DEF fb, gb
  <2> QED BY <1>1, <1>2, <2>1, <2>2, <2>3, <2>4, ZenonT(60) DEF EnqueueInv
<1>16. DequeueInv'
  BY <1>2, ZenonT(60) DEF DequeueInv
<1>17. HistoryInv'
  BY <1>1, <1>2, ZenonT(60) DEF HistoryInv
<1> QED BY <1>13, <1>14, <1>15, <1>16, <1>17, ZenonT(60)

-----------------------------------------------------------------------------
(* One producer: the steps of inner_enqueue.                                *)

\* Its step is a step of the producer.
LEMMA ProducerStep ==
  ASSUME OneProducer, TypeInv, NEW p \in Producers
  PROVE  /\ enq[p] = E /\ p = producer
         /\ \A e : enq' = [enq EXCEPT ![p] = e] => E' = e
<1>1. p = producer /\ producer \in Producers /\ enq \in [Producers -> Enqueuer]
  BY TheProducer, ZenonT(60) DEF TypeInv
<1> QED BY <1>1, ZenonT(60) DEF E

\* A step of the producer that publishes nothing, and leaves the ring alone.
LEMMA ProducerLooks ==
  ASSUME OneProducer, QueueInv,
         E.pc \notin {"link", "move"}, E'.pc \notin {"link", "move"},
         UNCHANGED <<count, frontBlock, tailBlock, deq, posted, result>>,
         \A b \in 1..count :
           /\ block'[b].front = block[b].front /\ block'[b].tail = block[b].tail
           /\ block'[b].size = block[b].size /\ block'[b].next = block[b].next
           /\ block'[b].localTail = block[b].localTail
           /\ Used(block[b]) <= Dist(block'[b].localFront, block[b].tail, block[b].size)
           /\ \A i \in Slots : \/ block'[b].data[i] = block[b].data[i]
                               \/ b = tailBlock /\ i = block[b].tail
  PROVE  BlocksInv' /\ RingInv' /\ DequeueInv'
<1>0. TypeInv /\ BlocksInv /\ RingInv /\ DequeueInv
  BY ZenonT(60) DEF QueueInv
<1>1. ASSUME NEW b \in 1..count
      PROVE  /\ ShadowsLag(block'[b])
             /\ Active(b)' <=> Active(b)
             /\ InRing(b)' <=> InRing(b)
             /\ Skip(b) <= Skip(b)'
  <2>1. Used(block'[b]) = Used(block[b])
    BY ZenonT(60) DEF Used
  <2>2. ShadowsLag(block[b])
    BY <1>0, ZenonT(60) DEF BlocksInv
  <2>3. ShadowsLag(block'[b])
    BY <2>1, <2>2, ZenonT(60) DEF ShadowsLag
  <2>4. Active(b)' <=> Active(b)
    BY <2>1, ZenonT(60) DEF Active, Pending
  <2>5. InRing(b)' <=> InRing(b)
    BY ZenonT(60) DEF InRing
  <2>6. Skip(b) <= Skip(b)'
    BY DEF Skip
  <2> QED BY <2>3, <2>4, <2>5, <2>6, ZenonT(60)
<1>2. ASSUME NEW b \in 1..count PROVE Unmoved(b)
  <2>1. 0..(block[b].size - 1) \subseteq Slots /\ Used(block[b]) \in Nat
    BY <1>0, BlockTypes, UsedIs, ZenonT(60)
  <2>2. ASSUME NEW i \in 0..(block[b].size - 1),
               Dist(block[b].front, i, block[b].size) < Used(block[b])
        PROVE  block'[b].data[i] = block[b].data[i]
    <3>1. i # block[b].tail
      BY <2>1, <2>2 DEF Used
    <3> QED BY <2>1, <3>1, ZenonT(60)
  <2> QED BY <2>2, ZenonT(60) DEF Unmoved
<1>3. BlocksInv' /\ RingInv'
  BY <1>0, <1>1, <1>2, FrameKept, ZenonT(60)
<1>4. DequeueInv'
  <2>1. frontBlock \in 1..count
    BY <1>0, ZenonT(60) DEF TypeInv, RestFits
  <2> QED BY <1>0, <2>1, ConsumerUndisturbed, ZenonT(60)
<1> QED BY <1>3, <1>4, ZenonT(60)

\* A step of the producer that changes nothing but its locals.
LEMMA ProducerThinks ==
  ASSUME OneProducer, QueueInv,
         E.pc \notin {"link", "move"}, E'.pc \notin {"link", "move"},
         UNCHANGED <<block, count, frontBlock, tailBlock, deq, posted, result>>
  PROVE  /\ BlocksInv' /\ RingInv' /\ DequeueInv'
         /\ \A b \in 1..count : Active(b)' <=> Active(b)
<1>1. ASSUME NEW b \in 1..count
      PROVE  Used(block[b]) <= Dist(block[b].localFront, block[b].tail, block[b].size)
  BY ZenonT(60) DEF QueueInv, BlocksInv, ShadowsLag
<1>2. BlocksInv' /\ RingInv' /\ DequeueInv'
  BY <1>1, ProducerLooks, ZenonT(60)
<1>3. \A b \in 1..count : Active(b)' <=> Active(b)
  BY ZenonT(60) DEF Active, Pending
<1> QED BY <1>2, <1>3, ZenonT(60)

\* A call begins.
LEMMA StartKept ==
  ASSUME OneProducer, QueueInv, NEW p \in Producers, NEW t \in Tasks, EnqueueStart(p, t)
  PROVE  BlocksInv' /\ RingInv' /\ EnqueueInv' /\ DequeueInv' /\ HistoryInv'
<1> DEFINE tb == block[tailBlock]
<1>1. TypeInv /\ HistoryInv /\ Producers = {producer} /\ p = producer
  BY TheProducer, ZenonT(60) DEF QueueInv
<1>2. /\ E.pc = "idle" /\ Fresh(t)
      /\ E' = [pc |-> IF After(tb.tail, tb.size) # tb.localFront THEN "store" ELSE "full",
               task |-> t, b |-> tailBlock, nb |-> tailBlock, slot |-> tb.tail]
      /\ UNCHANGED <<block, count, frontBlock, tailBlock, deq, posted, result>>
  BY <1>1, ProducerStep, ZenonT(60) DEF EnqueueStart
<1>3. failed' = failed
  BY <1>1, ZenonT(60) DEF EnqueueStart
<1>4. t = Len(posted) + 1
  BY <1>2, FreshIs, ZenonT(60)
<1>5. BlocksInv' /\ RingInv' /\ DequeueInv'
  BY <1>2, ProducerThinks, ZenonT(60)
<1>6. EnqueueInv'
  <2>1. /\ E'.pc \in {"store", "full"} /\ E'.task = t /\ E'.b = tailBlock
        /\ E'.slot = tb.tail
        /\ E'.pc = "store" => After(tb.tail, tb.size) # tb.localFront
    BY <1>2, ZenonT(60)
  <2>2. UNCHANGED <<block, tailBlock, posted>>
    BY <1>2, ZenonT(60)
  <2> QED BY <1>4, <2>1, <2>2, ZenonT(60) DEF EnqueueInv
<1> QED BY <1>1, <1>2, <1>3, <1>5, <1>6, ZenonT(60) DEF HistoryInv

\* What the invariant says of the producer within a call.
LEMMA InCall ==
  ASSUME OneProducer, QueueInv, E.pc # "idle"
  PROVE  /\ TypeInv /\ E \in Enqueuer /\ E.b = tailBlock /\ tailBlock \in 1..count
         /\ E.task = Len(posted) + 1 /\ E.task \in Tasks /\ E.nb \in 1..count
         /\ E.slot \in Slots /\ block \in [1..count -> Block] /\ HistoryInv
         /\ posted \in Seq(Tasks) /\ Len(posted) \in Nat
<1>1. /\ TypeInv /\ posted \in Seq(Tasks) /\ tailBlock \in 1..count
      /\ block \in [1..count -> Block] /\ HistoryInv
  BY ZenonT(60) DEF QueueInv, TypeInv, RestFits, BlocksFit
<1>2. E \in Enqueuer /\ E.nb \in 1..count
  BY <1>1, TheProducer, ZenonT(60)
<1>3. E.b = tailBlock /\ E.task = Len(posted) + 1
  BY ZenonT(60) DEF QueueInv, EnqueueInv
<1>4. E.slot \in Slots
  BY <1>2, ZenonT(60) DEF Enqueuer
<1>5. E.task \in Tasks
  BY <1>1, TheProducer, ZenonT(60) DEF TypeInv, EnqFits, E
<1> QED BY <1>1, <1>2, <1>3, <1>4, <1>5

\* The shadow of front is brought up to date.
LEMMA FullKept ==
  ASSUME OneProducer, QueueInv, NEW p \in Producers, EnqueueFull(p)
  PROVE  BlocksInv' /\ RingInv' /\ EnqueueInv' /\ DequeueInv' /\ HistoryInv'
<1> DEFINE tb == block[tailBlock]
           n == [E EXCEPT !.pc = IF After(E.slot, tb.size) # tb.front THEN "store" ELSE "next"]
<1>1. enq[p] = E /\ E.pc = "full" /\ TypeInv
  BY ProducerStep, ZenonT(60) DEF EnqueueFull, QueueInv
<1>2. /\ E \in Enqueuer /\ E.b = tailBlock /\ tailBlock \in 1..count
      /\ E.task = Len(posted) + 1 /\ block \in [1..count -> Block] /\ HistoryInv
  BY <1>1, InCall, ZenonT(60)
<1>3. /\ block' = [block EXCEPT ![tailBlock].localFront = tb.front]
      /\ enq' = [enq EXCEPT ![p] = n]
      /\ UNCHANGED <<count, frontBlock, tailBlock, deq, posted, result, failed>>
  BY <1>1, <1>2, ZenonT(60) DEF EnqueueFull, history
<1>4. E' = n
  BY <1>1, <1>3, ProducerStep, ZenonT(60)
<1>5. /\ E'.pc = IF After(E.slot, tb.size) # tb.front THEN "store" ELSE "next"
      /\ E'.task = E.task /\ E'.b = E.b /\ E'.slot = E.slot
  BY <1>2, <1>4, ZenonT(60) DEF Enqueuer
<1>6. E.slot = tb.tail
  BY <1>1, ZenonT(60) DEF QueueInv, EnqueueInv
<1> HIDE DEF n
<1>7. ASSUME NEW b \in 1..count
      PROVE  /\ block'[b].front = block[b].front /\ block'[b].tail = block[b].tail
             /\ block'[b].size = block[b].size /\ block'[b].next = block[b].next
             /\ block'[b].localTail = block[b].localTail
             /\ block'[b].data = block[b].data
             /\ block'[b].localFront = IF b = tailBlock THEN block[b].front
                                       ELSE block[b].localFront
  <2>1. block[b] \in Block
    BY <1>2, ZenonT(60)
  <2> QED BY <1>2, <1>3, <2>1, ZenonT(60) DEF Block
<1>8. ASSUME NEW b \in 1..count
      PROVE  Used(block[b]) <= Dist(block'[b].localFront, block[b].tail, block[b].size)
  <2>1. ShadowsLag(block[b]) /\ Used(block[b]) \in Nat
    BY <1>1, UsedIs, ZenonT(60) DEF QueueInv, BlocksInv
  <2>2. Dist(block[b].front, block[b].tail, block[b].size) = Used(block[b])
    BY ZenonT(60) DEF Used
  <2> QED BY <1>7, <2>1, <2>2 DEF ShadowsLag
<1>9. BlocksInv' /\ RingInv' /\ DequeueInv'
  BY <1>1, <1>3, <1>5, <1>7, <1>8, ProducerLooks, ZenonT(60)
<1>10. EnqueueInv'
  <2>1. /\ block'[tailBlock].tail = tb.tail /\ block'[tailBlock].size = tb.size
        /\ block'[tailBlock].localFront = tb.front
    BY <1>2, <1>7, ZenonT(60)
  <2>2. tailBlock' = tailBlock /\ posted' = posted
    BY <1>3, ZenonT(60)
  <2> QED BY <1>2, <1>5, <1>6, <2>1, <2>2, ZenonT(60) DEF EnqueueInv
<1> QED BY <1>2, <1>3, <1>9, <1>10, ZenonT(60) DEF HistoryInv

\* The task is stored behind the last one.
LEMMA StoreKept ==
  ASSUME OneProducer, QueueInv, NEW p \in Producers, EnqueueStore(p)
  PROVE  BlocksInv' /\ RingInv' /\ EnqueueInv' /\ DequeueInv' /\ HistoryInv'
<1> DEFINE tb == block[tailBlock]
           n == [E EXCEPT !.pc = "publish"]
<1>1. enq[p] = E /\ E.pc = "store" /\ TypeInv
  BY ProducerStep, ZenonT(60) DEF EnqueueStore, QueueInv
<1>2. /\ E \in Enqueuer /\ E.b = tailBlock /\ tailBlock \in 1..count
      /\ E.task = Len(posted) + 1 /\ block \in [1..count -> Block] /\ HistoryInv
      /\ tb \in Block /\ tb.data \in [Slots -> Tasks \cup {None}] /\ tb.tail \in Slots
  BY <1>1, InCall, BlockTypes, ZenonT(60)
<1>3. E.slot = tb.tail /\ After(tb.tail, tb.size) # tb.localFront
  BY <1>1, ZenonT(60) DEF QueueInv, EnqueueInv
<1>4. /\ block' = [block EXCEPT ![tailBlock].data[tb.tail] = E.task]
      /\ enq' = [enq EXCEPT ![p] = n]
      /\ UNCHANGED <<count, frontBlock, tailBlock, deq, posted, result, failed>>
  BY <1>1, <1>2, <1>3, ZenonT(60) DEF EnqueueStore, history
<1>5. E' = n
  BY <1>1, <1>4, ProducerStep, ZenonT(60)
<1>6. E'.pc = "publish" /\ E'.task = E.task /\ E'.b = E.b /\ E'.slot = E.slot
  BY <1>2, <1>5, ZenonT(60) DEF Enqueuer
<1>7. \A b \in 1..count : b # tailBlock => block'[b] = block[b]
  BY <1>2, <1>4, ZenonT(60)
<1>8. LET r == block'[tailBlock] IN
      /\ r.front = tb.front /\ r.tail = tb.tail /\ r.size = tb.size /\ r.next = tb.next
      /\ r.localTail = tb.localTail /\ r.localFront = tb.localFront
      /\ r.data = [tb.data EXCEPT ![tb.tail] = E.task]
  <2>1. block'[tailBlock] = [tb EXCEPT !.data[tb.tail] = E.task]
    BY <1>2, <1>4, ZenonT(60)
  <2> HIDE DEF tb
  <2> QED BY <1>2, <2>1, ZenonT(60) DEF Block
<1>9. ASSUME NEW b \in 1..count
      PROVE  /\ block'[b].front = block[b].front /\ block'[b].tail = block[b].tail
             /\ block'[b].size = block[b].size /\ block'[b].next = block[b].next
             /\ block'[b].localTail = block[b].localTail
             /\ block'[b].localFront = block[b].localFront
             /\ Used(block[b]) <= Dist(block'[b].localFront, block[b].tail, block[b].size)
             /\ \A i \in Slots : \/ block'[b].data[i] = block[b].data[i]
                                 \/ b = tailBlock /\ i = block[b].tail
  <2>1. ShadowsLag(block[b])
    BY ZenonT(60) DEF QueueInv, BlocksInv
  <2>2. CASE b # tailBlock
    BY <1>7, <2>1, <2>2, ZenonT(60) DEF ShadowsLag
  <2>3. CASE b = tailBlock
    <3>1. \A i \in Slots : i # tb.tail => block'[b].data[i] = tb.data[i]
      BY <1>2, <1>8, <2>3, ZenonT(60)
    <3> QED BY <1>8, <2>1, <2>3, <3>1, ZenonT(60) DEF ShadowsLag
  <2> QED BY <2>2, <2>3, ZenonT(60)
<1>10. BlocksInv' /\ RingInv' /\ DequeueInv'
  BY <1>1, <1>4, <1>6, <1>9, ProducerLooks, ZenonT(60)
<1>11. EnqueueInv'
  <2>1. block'[tailBlock].data[tb.tail] = E.task
    BY <1>2, <1>8, ZenonT(60)
  <2>2. tailBlock' = tailBlock /\ posted' = posted
    BY <1>4, ZenonT(60)
  <2> QED BY <1>2, <1>3, <1>6, <1>8, <2>1, <2>2, ZenonT(60) DEF EnqueueInv
<1> QED BY <1>2, <1>4, <1>10, <1>11, ZenonT(60) DEF HistoryInv

\* A next block that is not frontBlock is not in the chain: the blocks before
\* it are, up to tailBlock.
LEMMA NextKept ==
  ASSUME OneProducer, QueueInv, NEW p \in Producers, EnqueueNext(p)
  PROVE  BlocksInv' /\ RingInv' /\ EnqueueInv' /\ DequeueInv' /\ HistoryInv'
<1> DEFINE tb == block[tailBlock]
           n == [E EXCEPT !.pc = IF tb.next # frontBlock THEN "advance" ELSE "alloc"]
<1>1. enq[p] = E /\ E.pc = "next" /\ TypeInv /\ RingInv /\ EnqueueInv
  BY ProducerStep, ZenonT(60) DEF EnqueueNext, QueueInv
<1>2. /\ E \in Enqueuer /\ E.b = tailBlock /\ tailBlock \in 1..count
      /\ E.task = Len(posted) + 1 /\ HistoryInv
  BY <1>1, InCall, ZenonT(60)
<1>3. /\ enq' = [enq EXCEPT ![p] = n]
      /\ UNCHANGED <<block, count, frontBlock, tailBlock, deq, posted, result, failed>>
  BY <1>1, <1>2, ZenonT(60) DEF EnqueueNext, history
<1>4. E' = n
  BY <1>1, <1>3, ProducerStep, ZenonT(60)
<1>5. /\ E'.pc = IF tb.next # frontBlock THEN "advance" ELSE "alloc"
      /\ E'.task = E.task /\ E'.b = E.b
  BY <1>2, <1>4, ZenonT(60) DEF Enqueuer
<1>6. /\ BlocksInv' /\ RingInv' /\ DequeueInv'
      /\ \A b \in 1..count : Active(b)' <=> Active(b)
  BY <1>1, <1>3, <1>5, ProducerThinks, ZenonT(60)
<1>7. ASSUME NEW b \in 1..count, tb.next = b, b # frontBlock PROVE ~Active(b)
  <2> SUFFICES ASSUME Active(b) PROVE FALSE
    OBVIOUS
  <2>1. PICK a \in 1..count : Active(a) /\ a # tailBlock /\ block[a].next = b
    BY <1>1, <1>7, ZenonT(60) DEF RingInv
  <2>2. InRing(a) /\ InRing(tailBlock)
    BY <1>1, ZenonT(60) DEF InRing
  <2> QED BY <1>1, <1>2, <1>7, <2>1, <2>2 DEF RingInv
<1>8. EnqueueInv'
  <2>1. UNCHANGED <<block, tailBlock, posted, count>>
    BY <1>3, ZenonT(60)
  <2>2. ASSUME NEW b \in 1..count', E'.pc = "advance", block'[tailBlock'].next = b
        PROVE  ~Active(b)'
    BY <1>5, <1>6, <1>7, <2>1, <2>2, ZenonT(60)
  <2> QED BY <1>2, <1>5, <2>1, <2>2, ZenonT(60) DEF EnqueueInv
<1> QED BY <1>2, <1>3, <1>6, <1>8, ZenonT(60) DEF HistoryInv

\* What the end of a call does.
LEMMA ReturnIs ==
  ASSUME OneProducer, QueueInv, NEW p \in Producers, E.pc # "idle", EnqueueReturn(p)
  PROVE  /\ E'.pc = "idle" /\ E'.task = None
         /\ posted' = Append(posted, Len(posted) + 1) /\ Len(posted') = Len(posted) + 1
         /\ UNCHANGED <<count, frontBlock, deq, result>> /\ HistoryInv'
<1> DEFINE n == [E EXCEPT !.pc = "idle", !.task = None]
<1>1. /\ TypeInv /\ E \in Enqueuer /\ E.task = Len(posted) + 1 /\ E.task \in Tasks
      /\ posted \in Seq(Tasks) /\ Len(posted) \in Nat /\ HistoryInv
  BY InCall, ZenonT(60)
<1>2. enq[p] = E
  BY <1>1, ProducerStep, ZenonT(60)
<1>3. /\ enq' = [enq EXCEPT ![p] = n] /\ posted' = Append(posted, E.task)
      /\ UNCHANGED <<count, frontBlock, deq, result, failed>>
  BY <1>2, ZenonT(60) DEF EnqueueReturn
<1>4. E' = n
  BY <1>1, <1>3, ProducerStep, ZenonT(60)
<1>5. E'.pc = "idle" /\ E'.task = None
  BY <1>1, <1>4, ZenonT(60) DEF Enqueuer
<1>6. Len(posted') = Len(posted) + 1
  BY <1>1, <1>3
<1>7. ASSUME NEW i \in 1..Len(posted') PROVE posted'[i] = i
  <2>1. posted'[i] = IF i <= Len(posted) THEN posted[i] ELSE E.task
    BY <1>1, <1>3, <1>6
  <2> QED BY <1>1, <1>6, <2>1 DEF HistoryInv
<1> QED BY <1>1, <1>3, <1>5, <1>6, <1>7, ZenonT(60) DEF HistoryInv

\* Between calls EnqueueInv asks only that there is no task.
LEMMA IdleEnqueuer ==
  ASSUME E'.pc = "idle", E'.task = None
  PROVE  EnqueueInv'
BY ZenonT(60) DEF EnqueueInv

\* The task stored becomes visible, as the last one of tailBlock.
LEMMA PublishKept ==
  ASSUME OneProducer, QueueInv, NEW p \in Producers, EnqueuePublish(p)
  PROVE  BlocksInv' /\ RingInv' /\ EnqueueInv' /\ DequeueInv' /\ HistoryInv'
<1> DEFINE t == tailBlock
           tb == block[tailBlock]
           gb == block'[tailBlock]
           L == Len(posted)
<1>1. enq[p] = E /\ E.pc = "publish" /\ EnqueueReturn(p)
  BY ProducerStep, ZenonT(60) DEF EnqueuePublish, QueueInv
<1>2. /\ TypeInv /\ E.b = tailBlock /\ t \in 1..count /\ E.task = L + 1 /\ L \in Nat
      /\ block \in [1..count -> Block] /\ BlocksInv /\ RingInv /\ DequeueInv
  BY <1>1, InCall, ZenonT(60) DEF QueueInv
<1>3. /\ E.slot = tb.tail /\ After(tb.tail, tb.size) # tb.localFront
      /\ tb.data[tb.tail] = L + 1
  BY <1>1, <1>2, ZenonT(60) DEF QueueInv, EnqueueInv
<1>4. /\ E'.pc = "idle" /\ E'.task = None /\ Len(posted') = L + 1
      /\ UNCHANGED <<count, frontBlock, deq, result>> /\ HistoryInv'
  BY <1>1, ReturnIs, ZenonT(60)
<1>5. /\ block' = [block EXCEPT ![t].tail = After(tb.tail, tb.size)]
      /\ tailBlock' = tailBlock
  BY <1>1, <1>2, <1>3, ZenonT(60) DEF EnqueuePublish
<1>6. \A b \in 1..count : b # t => block'[b] = block[b]
  BY <1>2, <1>5, ZenonT(60)
<1>7. /\ tb.size \in Nat /\ tb.size >= 2 /\ tb \in Block
      /\ tb.front \in 0..(tb.size - 1) /\ tb.tail \in 0..(tb.size - 1)
      /\ tb.localTail \in 0..(tb.size - 1) /\ tb.localFront \in 0..(tb.size - 1)
  BY <1>2, BlockTypes, ZenonT(60)
<1>8. /\ gb.tail = After(tb.tail, tb.size) /\ gb.front = tb.front /\ gb.size = tb.size
      /\ gb.localTail = tb.localTail /\ gb.localFront = tb.localFront
      /\ gb.next = tb.next /\ gb.data = tb.data
  <2>1. gb = [tb EXCEPT !.tail = After(tb.tail, tb.size)]
    BY <1>2, <1>5, ZenonT(60)
  <2> HIDE DEF tb, gb
  <2> QED BY <1>7, <2>1, ZenonT(60) DEF Block
<1>9. ShadowsLag(tb)
  BY <1>2, ZenonT(60) DEF BlocksInv
<1> HIDE DEF tb, gb
<1>10. ShadowsLag(gb) /\ Used(gb) = Used(tb) + 1 /\ Used(tb) \in Nat
  BY <1>3, <1>7, <1>8, <1>9, PublishShadows, ZenonT(60)
<1>11. ASSUME NEW b \in 1..count
       PROVE  /\ Active(b)' <=> Active(b)
              /\ InRing(b)' <=> InRing(b)
              /\ First(b)' = First(b) /\ Skip(b)' = Skip(b)
              /\ block'[b].next = block[b].next /\ block'[b].front = block[b].front
              /\ block'[b].localTail = block[b].localTail
              /\ b # t => End(b)' = End(b) /\ Used(block'[b]) = Used(block[b])
  <2>1. /\ block'[b].next = block[b].next /\ block'[b].front = block[b].front
        /\ block'[b].data = block[b].data /\ block'[b].localTail = block[b].localTail
        /\ b # t => Used(block'[b]) = Used(block[b])
    BY <1>6, <1>8, ZenonT(60) DEF tb, gb
  <2>2. First(b)' = First(b) /\ Skip(b)' = Skip(b)
    BY <1>4, <2>1, ZenonT(60) DEF First, Skip
  <2>3. Active(b)' <=> Active(b)
    BY <1>1, <1>4, <1>5, <2>1, ZenonT(60) DEF Active, Pending
  <2>4. InRing(b)' <=> InRing(b)
    BY <1>1, <1>4, ZenonT(60) DEF InRing
  <2> QED BY <2>1, <2>2, <2>3, <2>4, ZenonT(60) DEF End
<1>12. /\ Active(t) /\ First(t) \in Nat /\ Numbered(tb, First(t), Skip(t))
       /\ First(t) + Used(tb) = L + 1
       /\ t # frontBlock => Used(tb) # 0
  <2>1. Active(t)
    BY ZenonT(60) DEF Active
  <2> QED BY <1>2, <2>1, ZenonT(60) DEF BlocksInv, RingInv, End, tb
<1>13. Numbered(gb, First(t), Skip(t))
  <2>1. ASSUME NEW i \in 0..(tb.size - 1), Skip(t) <= Dist(tb.front, i, tb.size),
               Dist(tb.front, i, tb.size) < Used(gb)
        PROVE  tb.data[i] = First(t) + Dist(tb.front, i, tb.size)
    <3>1. CASE i = tb.tail
      BY <1>3, <1>12, <3>1, ZenonT(60) DEF Used
    <3>2. CASE i # tb.tail
      <4>1. /\ Dist(tb.front, i, tb.size) # Used(tb)
            /\ Dist(tb.front, i, tb.size) \in Nat
        BY <1>7, <3>2 DEF Used, Dist
      <4>2. Dist(tb.front, i, tb.size) < Used(tb)
        BY <1>10, <2>1, <4>1
      <4> QED BY <1>12, <2>1, <4>2, ZenonT(60) DEF Numbered
    <3> QED BY <3>1, <3>2, ZenonT(60)
  <2> QED BY <1>8, <2>1, ZenonT(60) DEF Numbered
<1>14. \A b \in 1..count : b = t => End(b)' = L + 2
  <2>1. ASSUME NEW b \in 1..count, b = t PROVE End(b)' = L + 2
    <3>1. End(b)' = First(b)' + Used(block'[b])
      BY ZenonT(60) DEF End
    <3>2. block'[b] = gb /\ First(b)' = First(t)
      BY <1>11, <2>1, ZenonT(60) DEF gb
    <3> QED BY <1>2, <1>10, <1>12, <3>1, <3>2
  <2> QED BY <2>1, ZenonT(60)
<1>15. BlocksInv'
  <2>1. ASSUME NEW b \in 1..count
        PROVE  /\ ShadowsLag(block'[b])
               /\ Active(b)' => /\ First(b)' \in Nat
                                /\ Numbered(block'[b], First(b)', Skip(b)')
                                /\ b # frontBlock => Used(block'[b]) # 0
                                /\ End(b)' <= L + 1 + 1
    <3>1. CASE b = t
      <4>1. block'[b] = gb /\ First(b)' = First(t) /\ Skip(b)' = Skip(t)
        BY <1>11, <3>1, ZenonT(60) DEF gb
      <4>2. Used(gb) # 0
        BY <1>10
      <4>3. End(b)' <= L + 1 + 1
        BY <1>2, <1>14, <3>1
      <4> QED BY <1>10, <1>12, <1>13, <4>1, <4>2, <4>3, ZenonT(60)
    <3>2. CASE b # t
      <4>1. block'[b] = block[b] /\ First(b)' = First(b) /\ Skip(b)' = Skip(b)
            /\ End(b)' = End(b) /\ (Active(b)' <=> Active(b))
        BY <1>6, <1>11, <3>2, ZenonT(60)
      <4>2. ShadowsLag(block[b])
        BY <1>2, ZenonT(60) DEF BlocksInv
      <4>3. ASSUME Active(b)
            PROVE  /\ First(b) \in Nat /\ Numbered(block[b], First(b), Skip(b))
                   /\ b # frontBlock => Used(block[b]) # 0
                   /\ End(b) <= L + 1 + 1
        <5>1. End(b) <= L + 1 /\ First(b) \in Nat /\ Used(block[b]) \in Nat
          BY <1>2, <4>3, UsedIs, ZenonT(60) DEF BlocksInv
        <5>2. End(b) \in Nat
          BY <5>1 DEF End
        <5>3. End(b) <= L + 1 + 1
          BY <1>2, <5>1, <5>2
        <5> QED BY <1>2, <4>3, <5>3, ZenonT(60) DEF BlocksInv
      <4> QED BY <4>1, <4>2, <4>3, ZenonT(60)
    <3> QED BY <3>1, <3>2, ZenonT(60)
  <2>2. count' = count /\ frontBlock' = frontBlock
    BY <1>4, ZenonT(60)
  <2> QED BY <1>4, <2>1, <2>2, ZenonT(60) DEF BlocksInv
<1>16. RingInv'
  <2>1. ASSUME NEW a \in 1..count, NEW b \in 1..count, block'[a].next = b
        PROVE  /\ InRing(a)' => InRing(b)'
               /\ Active(a)' /\ a # t => Active(b)' /\ b # frontBlock /\ First(b)' = End(a)'
    <3>1. block[a].next = b
      BY <1>11, <2>1, ZenonT(60)
    <3> QED BY <1>2, <1>11, <3>1 DEF RingInv
  <2>2. ASSUME NEW b \in 1..count, Active(b)', b # frontBlock
        PROVE  \E a \in 1..count : Active(a)' /\ a # t /\ block'[a].next = b
    <3>1. PICK a \in 1..count : Active(a) /\ a # t /\ block[a].next = b
      BY <1>2, <1>11, <2>2, ZenonT(60) DEF RingInv
    <3> QED BY <1>11, <3>1, ZenonT(60)
  <2>3. ASSUME NEW a \in 1..count, NEW b \in 1..count,
               InRing(a)', InRing(b)', block'[a].next = block'[b].next
        PROVE  a = b
    BY <1>2, <1>11, <2>3, ZenonT(60) DEF RingInv
  <2>4. ASSUME NEW b \in 1..count, b = t PROVE End(b)' = Len(posted') + 1
    BY <1>2, <1>4, <1>14, <2>4
  <2>5. count' = count /\ frontBlock' = frontBlock /\ tailBlock' = tailBlock
    BY <1>4, <1>5, ZenonT(60)
  <2> QED BY <2>1, <2>2, <2>3, <2>4, <2>5, ZenonT(60) DEF RingInv
<1>17. EnqueueInv'
  BY <1>4, IdleEnqueuer, ZenonT(60)
<1>18. DequeueInv'
  <2>1. frontBlock # tailBlock => block'[frontBlock] = block[frontBlock]
    BY <1>2, <1>6, ZenonT(60) DEF TypeInv, RestFits
  <2> QED BY <1>2, <1>4, <1>5, <1>11, <2>1, ConsumerUndisturbed, ZenonT(60)
<1> QED BY <1>4, <1>15, <1>16, <1>17, <1>18, ZenonT(60)

\* The next block, empty and out of the consumer's sight, gets the task.
LEMMA FillKept ==
  ASSUME OneProducer, QueueInv, NEW p \in Producers, EnqueueAdvance(p)
  PROVE  BlocksInv' /\ RingInv' /\ EnqueueInv' /\ DequeueInv' /\ HistoryInv'
<1> DEFINE x == block[tailBlock].next
           r == block[x]
           g == block'[x]
           n == [E EXCEPT !.pc = "move", !.nb = x]
<1>1. enq[p] = E /\ E.pc = "advance" /\ TypeInv
  BY ProducerStep, ZenonT(60) DEF EnqueueAdvance, QueueInv
<1>2. /\ E \in Enqueuer /\ E.b = tailBlock /\ tailBlock \in 1..count /\ E.task \in Tasks
      /\ E.task = Len(posted) + 1 /\ block \in [1..count -> Block] /\ HistoryInv
      /\ BlocksInv /\ RingInv /\ DequeueInv /\ EnqueueInv
  BY <1>1, InCall, ZenonT(60) DEF QueueInv
<1>3. x \in 1..count
  BY <1>1, <1>2, BlockTypes, ZenonT(60)
<1>4. /\ failed' = IF r.front = r.tail THEN failed ELSE failed \cup {"next_is_empty"}
      /\ block' = [block EXCEPT ![x] = [[[r EXCEPT !.localFront = r.front]
                                           EXCEPT !.data[r.tail] = E.task]
                                           EXCEPT !.tail = After(r.tail, r.size)]]
      /\ enq' = [enq EXCEPT ![p] = n]
      /\ UNCHANGED <<count, frontBlock, tailBlock, deq, posted, result>>
  BY <1>1, <1>2, ZenonT(60) DEF EnqueueAdvance
<1>5. E' = n
  BY <1>1, <1>4, ProducerStep, ZenonT(60)
<1>6. E'.pc = "move" /\ E'.nb = x /\ E'.task = E.task /\ E'.b = E.b
  BY <1>2, <1>5, ZenonT(60) DEF Enqueuer
<1> HIDE DEF n
<1>7. /\ r.size \in Nat /\ r.size >= 2 /\ r \in Block
      /\ r.front \in 0..(r.size - 1) /\ r.tail \in 0..(r.size - 1)
      /\ r.localTail \in 0..(r.size - 1)
      /\ r.data \in [Slots -> Tasks \cup {None}] /\ r.tail \in Slots
  BY <1>1, <1>3, BlockTypes, ZenonT(60)
<1>8. \A b \in 1..count : b # x => block'[b] = block[b]
  BY <1>2, <1>3, <1>4, ZenonT(60)
<1>9. ~Active(x)
  BY <1>1, <1>2, <1>3, ZenonT(60) DEF EnqueueInv
<1> HIDE DEF x
<1>10. x \notin {frontBlock, tailBlock} /\ Used(r) = 0 /\ r.front = r.tail
  <2>1. x \notin {frontBlock, tailBlock} /\ Used(r) = 0
    BY <1>1, <1>9, ZenonT(60) DEF Active, Pending
  <2> QED BY <1>1, <1>3, <2>1, UsedIs, ZenonT(60)
<1>11. ShadowsLag(r)
  BY <1>2, <1>3, ZenonT(60) DEF BlocksInv
<1>12. /\ g.front = r.front /\ g.tail = After(r.tail, r.size) /\ g.size = r.size
       /\ g.next = r.next /\ g.localTail = r.localTail /\ g.localFront = r.front
       /\ g.data = [r.data EXCEPT ![r.tail] = E.task]
  <2>1. g = [[[r EXCEPT !.localFront = r.front] EXCEPT !.data[r.tail] = E.task]
                 EXCEPT !.tail = After(r.tail, r.size)]
    BY <1>2, <1>3, <1>4, ZenonT(60)
  <2> HIDE DEF r, g
  <2> QED BY <1>7, <2>1, ZenonT(60) DEF Block
<1>13. ShadowsLag(g) /\ Used(g) = 1
  <2> HIDE DEF r, g
  <2>1. Dist(r.front, r.localTail, r.size) <= 0 /\ Dist(r.front, r.tail, r.size) = 0
    BY <1>10, <1>11, ZenonT(60) DEF ShadowsLag, Used
  <2>2. g.tail = IF r.tail + 1 = r.size THEN 0 ELSE r.tail + 1
    BY <1>7, <1>12, AfterIs, ZenonT(60)
  <2>3. Dist(r.front, g.tail, r.size) = 1
    BY <1>7, <1>10, <2>2 DEF Dist
  <2>4. Dist(r.front, r.localTail, r.size) <= 1
    BY <1>7, <2>1 DEF Dist
  <2> QED BY <1>12, <2>3, <2>4 DEF ShadowsLag, Used
<1>14. ASSUME NEW b \in 1..count
       PROVE  /\ block'[b].next = block[b].next
              /\ block'[b].front = block[b].front /\ block'[b].localTail = block[b].localTail
              /\ ShadowsLag(block'[b])
              /\ Active(b)' <=> Active(b)
              /\ InRing(b)' <=> InRing(b)
              /\ Skip(b) <= Skip(b)'
              /\ Active(b) => Unmoved(b)
  <2>1. InRing(b)' /\ InRing(b) /\ Skip(b) <= Skip(b)'
    BY <1>1, <1>4, <1>6 DEF InRing, Skip
  <2>2. CASE b = x
    <3>1. ~Active(b)'
      BY <1>4, <1>6, <1>10, <2>2, ZenonT(60) DEF Active, Pending
    <3> QED BY <1>9, <1>12, <1>13, <2>1, <2>2, <3>1, ZenonT(60)
  <2>3. CASE b # x
    <3>1. block'[b] = block[b]
      BY <1>8, <2>3, ZenonT(60)
    <3>2. Active(b)' <=> Active(b)
      BY <1>1, <1>4, <1>6, <2>3, <3>1, ZenonT(60) DEF Active, Pending
    <3>3. ShadowsLag(block'[b])
      BY <1>2, <3>1, ZenonT(60) DEF BlocksInv
    <3> QED BY <2>1, <3>1, <3>2, <3>3, ZenonT(60) DEF Unmoved
  <2> QED BY <2>2, <2>3, ZenonT(60)
<1>15. BlocksInv' /\ RingInv'
  BY <1>1, <1>2, <1>4, <1>14, FrameKept, ZenonT(60)
<1>16. EnqueueInv'
  <2>1. block'[tailBlock] = block[tailBlock]
    BY <1>2, <1>8, <1>10, ZenonT(60)
  <2>2. g.data[g.front] = E.task
    BY <1>7, <1>10, <1>12
  <2>3. tailBlock' = tailBlock /\ frontBlock' = frontBlock /\ posted' = posted
    BY <1>4, ZenonT(60)
  <2>4. block[tailBlock].next = x
    BY ZenonT(60) DEF x
  <2> HIDE DEF r
  <2> QED BY <1>2, <1>6, <1>10, <1>13, <2>1, <2>2, <2>3, <2>4, ZenonT(60) DEF EnqueueInv
<1>17. DequeueInv'
  <2>1. block'[frontBlock] = block[frontBlock]
    BY <1>1, <1>8, <1>10, ZenonT(60) DEF TypeInv, RestFits
  <2> QED BY <1>1, <1>2, <1>4, <1>14, <2>1, ConsumerUndisturbed, ZenonT(60)
<1> QED BY <1>2, <1>4, <1>10, <1>15, <1>16, <1>17, ZenonT(60) DEF HistoryInv

\* A new block is made and filled, or malloc fails.
LEMMA AllocKept ==
  ASSUME OneProducer, QueueInv, NEW p \in Producers, EnqueueAlloc(p)
  PROVE  BlocksInv' /\ RingInv' /\ EnqueueInv' /\ DequeueInv' /\ HistoryInv'
<1>1. enq[p] = E /\ E.pc = "alloc" /\ TypeInv
  BY ProducerStep, ZenonT(60) DEF EnqueueAlloc, QueueInv
<1>2. /\ E \in Enqueuer /\ E.b = tailBlock /\ tailBlock \in 1..count /\ E.task \in Tasks
      /\ E.task = Len(posted) + 1 /\ HistoryInv
      /\ BlocksInv /\ RingInv /\ DequeueInv /\ EnqueueInv
  BY <1>1, InCall, ZenonT(60) DEF QueueInv
<1>0. count + 1 # count
  BY <1>1 DEF TypeInv, BlocksFit, Blocks
<1>3. CASE count' = count
  <2> DEFINE n == [E EXCEPT !.pc = "idle", !.task = None]
  <2>1. /\ enq' = [enq EXCEPT ![p] = n]
        /\ UNCHANGED <<block, count, frontBlock, tailBlock, deq, posted, result, failed>>
    BY <1>0, <1>1, <1>3, ZenonT(60) DEF EnqueueAlloc, history
  <2>2. E' = n
    BY <1>1, <2>1, ProducerStep, ZenonT(60)
  <2>3. E'.pc = "idle" /\ E'.task = None
    BY <1>2, <2>2, ZenonT(60) DEF Enqueuer
  <2>4. BlocksInv' /\ RingInv' /\ DequeueInv'
    BY <1>1, <2>1, <2>3, ProducerThinks, ZenonT(60)
  <2> QED BY <1>2, <2>1, <2>3, <2>4, IdleEnqueuer, ZenonT(60) DEF HistoryInv
<1>4. CASE count' # count
  <2> DEFINE x == block[tailBlock].next
             g == NewBlock(x, E.task)
             n == [E EXCEPT !.pc = "link", !.nb = count + 1]
  <2>1. /\ count < MaxBlocks /\ count' = count + 1
        /\ block' = [b \in 1..(count + 1) |-> IF b <= count THEN block[b] ELSE g]
        /\ enq' = [enq EXCEPT ![p] = n]
        /\ UNCHANGED <<frontBlock, tailBlock, deq, posted, result, failed>>
    BY <1>1, <1>2, <1>4, ZenonT(60) DEF EnqueueAlloc, NewBlock, history
  <2>2. E' = n
    BY <1>1, <2>1, ProducerStep, ZenonT(60)
  <2>3. E'.pc = "link" /\ E'.nb = count + 1 /\ E'.task = E.task /\ E'.b = E.b
    BY <1>2, <2>2, ZenonT(60) DEF Enqueuer
  <2> HIDE DEF n
  <2>4. x \in 1..count /\ count \in Nat /\ frontBlock \in 1..count
    BY <1>1, <1>2, BlockTypes DEF TypeInv, BlocksFit, RestFits, Blocks
  <2>5. /\ g.size \in Nat /\ g.size >= 2 /\ g.front = 0 /\ g.localFront = 0
        /\ g.tail = 1 /\ g.localTail = 1 /\ g.next = x /\ g.data[0] = E.task
    BY <1>1, <1>2, <2>4, NewBlockIs, ZenonT(60)
  <2> HIDE DEF g
  <2>6. block'[count + 1] = g /\ \A b \in 1..count : block'[b] = block[b]
    BY <2>1, <2>4
  <2>7. ShadowsLag(g) /\ Used(g) = 1
    BY <2>5, NewShadows, ZenonT(60)
  <2>8. ASSUME NEW b \in 1..count
        PROVE  /\ b \in 1..(count + 1) /\ b # count + 1
               /\ Active(b)' <=> Active(b)
               /\ InRing(b)' /\ InRing(b)
               /\ First(b)' = First(b) /\ End(b)' = End(b) /\ Skip(b)' = Skip(b)
    <3>1. b \in 1..(count + 1) /\ b # count + 1 /\ block'[b] = block[b]
      BY <2>4, <2>6
    <3>2. Active(b)' <=> Active(b)
      BY <1>1, <2>1, <2>3, <3>1, ZenonT(60) DEF Active, Pending
    <3>3. InRing(b)' /\ InRing(b)
      BY <1>1, <2>3, <3>1, ZenonT(60) DEF InRing
    <3>4. frontBlock' = frontBlock /\ result' = result /\ deq' = deq
      BY <2>1, ZenonT(60)
    <3>5. First(b)' = First(b) /\ Skip(b)' = Skip(b)
      BY <3>1, <3>4, ZenonT(60) DEF First, Skip
    <3> QED BY <3>1, <3>2, <3>3, <3>5, ZenonT(60) DEF End
  <2>9. ASSUME NEW b, b = count + 1
        PROVE  ~Active(b)' /\ ~InRing(b)'
    <3>1. b \notin {frontBlock, tailBlock}
      BY <1>2, <2>4, <2>9
    <3> QED BY <2>1, <2>3, <2>9, <3>1, ZenonT(60) DEF Active, Pending, InRing
  <2>10. ASSUME NEW b \in 1..count' PROVE b \in 1..count \/ b = count + 1
    BY <2>1, <2>4
  <2>11. BlocksInv'
    <3>1. ASSUME NEW b \in 1..count'
          PROVE  /\ ShadowsLag(block'[b])
                 /\ Active(b)' => /\ First(b)' \in Nat
                                  /\ Numbered(block'[b], First(b)', Skip(b)')
                                  /\ b # frontBlock' => Used(block'[b]) # 0
                                  /\ End(b)' <= Len(posted') + 1
      <4>1. CASE b = count + 1
        BY <2>6, <2>7, <2>9, <4>1, ZenonT(60)
      <4>2. CASE b \in 1..count
        BY <1>2, <2>1, <2>6, <2>8, <4>2, ZenonT(60) DEF BlocksInv
      <4> QED BY <2>10, <4>1, <4>2, ZenonT(60)
    <3> QED BY <3>1, ZenonT(60) DEF BlocksInv
  <2>12. RingInv'
    <3>1. ASSUME NEW a \in 1..count', NEW b \in 1..count', block'[a].next = b
          PROVE  /\ InRing(a)' => InRing(b)'
                 /\ Active(a)' /\ a # tailBlock =>
                      Active(b)' /\ b # frontBlock /\ First(b)' = End(a)'
      <4>1. CASE a = count + 1
        BY <2>9, <4>1, ZenonT(60)
      <4>2. CASE a \in 1..count
        <5>1. block[a].next = b /\ b \in 1..count
          BY <1>1, <2>6, <3>1, <4>2, BlockTypes, ZenonT(60)
        <5>2. Active(a) /\ a # tailBlock => Active(b) /\ b # frontBlock /\ First(b) = End(a)
          BY <1>2, <4>2, <5>1 DEF RingInv
        <5> QED BY <2>8, <4>2, <5>1, <5>2, ZenonT(60)
      <4> QED BY <2>10, <4>1, <4>2, ZenonT(60)
    <3>2. ASSUME NEW b \in 1..count', Active(b)', b # frontBlock
          PROVE  \E a \in 1..count' : Active(a)' /\ a # tailBlock /\ block'[a].next = b
      <4>1. b \in 1..count
        BY <2>9, <2>10, <3>2, ZenonT(60)
      <4>2. PICK a \in 1..count : Active(a) /\ a # tailBlock /\ block[a].next = b
        BY <1>2, <2>8, <3>2, <4>1, ZenonT(60) DEF RingInv
      <4>3. a \in 1..count' /\ Active(a)' /\ block'[a].next = b
        BY <2>1, <2>6, <2>8, <4>2, ZenonT(60)
      <4> QED BY <4>2, <4>3, ZenonT(60)
    <3>3. ASSUME NEW a \in 1..count', NEW b \in 1..count',
                 InRing(a)', InRing(b)', block'[a].next = block'[b].next
          PROVE  a = b
      <4>1. a \in 1..count /\ b \in 1..count
        BY <2>9, <2>10, <3>3, ZenonT(60)
      <4> QED BY <1>2, <2>6, <2>8, <3>3, <4>1 DEF RingInv
    <3>4. ASSUME NEW b \in 1..count', b = tailBlock PROVE End(b)' = Len(posted) + 1
      BY <1>2, <2>8, <3>4, ZenonT(60) DEF RingInv
    <3>5. frontBlock' = frontBlock /\ tailBlock' = tailBlock /\ posted' = posted
      BY <2>1, ZenonT(60)
    <3> QED BY <3>1, <3>2, <3>3, <3>4, <3>5, ZenonT(60) DEF RingInv
  <2>13. EnqueueInv'
    <3>1. block'[tailBlock] = block[tailBlock] /\ count + 1 \notin {frontBlock, tailBlock}
      <4>1. \A b \in 1..count : b # count + 1
        BY <2>4
      <4> QED BY <1>2, <2>4, <2>6, <4>1, ZenonT(60)
    <3>2. block[tailBlock].next = x
      OBVIOUS
    <3>3. frontBlock' = frontBlock /\ tailBlock' = tailBlock /\ posted' = posted
      BY <2>1, ZenonT(60)
    <3> HIDE DEF x
    <3> QED BY <1>2, <2>3, <2>5, <2>6, <2>7, <3>1, <3>2, <3>3, ZenonT(60) DEF EnqueueInv
  <2>14. DequeueInv'
    BY <1>1, <1>2, <2>1, <2>4, <2>6, ConsumerUndisturbed, ZenonT(60)
  <2> QED BY <1>2, <2>1, <2>11, <2>12, <2>13, <2>14, ZenonT(60) DEF HistoryInv
<1> QED BY <1>3, <1>4, ZenonT(60)

\* The new block is linked in between tailBlock and frontBlock.
LEMMA LinkKept ==
  ASSUME OneProducer, QueueInv, NEW p \in Producers, EnqueueLink(p)
  PROVE  BlocksInv' /\ RingInv' /\ EnqueueInv' /\ DequeueInv' /\ HistoryInv'
<1> DEFINE t == tailBlock
           m == E.nb
           n == [E EXCEPT !.pc = "move"]
<1>1. enq[p] = E /\ E.pc = "link" /\ TypeInv
  BY ProducerStep, ZenonT(60) DEF EnqueueLink, QueueInv
<1>2. /\ E \in Enqueuer /\ E.b = tailBlock /\ t \in 1..count /\ m \in 1..count
      /\ E.task = Len(posted) + 1 /\ HistoryInv /\ block \in [1..count -> Block]
      /\ BlocksInv /\ RingInv /\ DequeueInv /\ EnqueueInv
  BY <1>1, InCall, ZenonT(60) DEF QueueInv
<1>3. /\ m \notin {frontBlock, tailBlock} /\ block[m].next = block[t].next
      /\ Used(block[m]) = 1 /\ block[m].data[block[m].front] = E.task
  BY <1>1, <1>2, ZenonT(60) DEF EnqueueInv
<1>4. /\ block' = [block EXCEPT ![t].next = m]
      /\ enq' = [enq EXCEPT ![p] = n]
      /\ UNCHANGED <<count, frontBlock, tailBlock, deq, posted, result, failed>>
  BY <1>1, <1>2, ZenonT(60) DEF EnqueueLink, history
<1>5. E' = n
  BY <1>1, <1>4, ProducerStep, ZenonT(60)
<1>6. E'.pc = "move" /\ E'.nb = m /\ E'.task = E.task /\ E'.b = E.b
  BY <1>2, <1>5, ZenonT(60) DEF Enqueuer
<1> HIDE DEF n
<1>7. ASSUME NEW b \in 1..count
      PROVE  /\ block'[b].front = block[b].front /\ block'[b].tail = block[b].tail
             /\ block'[b].size = block[b].size /\ block'[b].data = block[b].data
             /\ block'[b].localFront = block[b].localFront
             /\ block'[b].localTail = block[b].localTail
             /\ block'[b].next = IF b = t THEN m ELSE block[b].next
  <2>1. block[b] \in Block
    BY <1>2, ZenonT(60)
  <2> QED BY <1>2, <1>4, <2>1, ZenonT(60) DEF Block
<1>8. ASSUME NEW b \in 1..count
      PROVE  /\ Active(b)' <=> Active(b)
             /\ InRing(b)' /\ (InRing(b) <=> b # m)
             /\ First(b)' = First(b) /\ End(b)' = End(b) /\ Skip(b)' = Skip(b)
             /\ Used(block'[b]) = Used(block[b])
             /\ ShadowsLag(block'[b]) <=> ShadowsLag(block[b])
             /\ \A s : Numbered(block'[b], First(b), s) <=> Numbered(block[b], First(b), s)
  <2>1. Used(block'[b]) = Used(block[b])
    BY <1>7, ZenonT(60) DEF Used
  <2>2. Active(b)' <=> Active(b)
    BY <1>1, <1>4, <1>6, <2>1, ZenonT(60) DEF Active, Pending
  <2>3. InRing(b)' /\ (InRing(b) <=> b # m)
    BY <1>1, <1>6, ZenonT(60) DEF InRing
  <2>4. frontBlock' = frontBlock /\ result' = result /\ deq' = deq
    BY <1>4, ZenonT(60)
  <2>5. First(b)' = First(b) /\ Skip(b)' = Skip(b)
    BY <1>7, <2>4, ZenonT(60) DEF First, Skip
  <2>6. End(b)' = End(b)
    BY <2>1, <2>5, ZenonT(60) DEF End
  <2>7. ShadowsLag(block'[b]) <=> ShadowsLag(block[b])
    BY <1>7, <2>1, ZenonT(60) DEF ShadowsLag
  <2>8. \A s : Numbered(block'[b], First(b), s) <=> Numbered(block[b], First(b), s)
    BY <1>7, <2>1, ZenonT(60) DEF Numbered
  <2> QED BY <2>1, <2>2, <2>3, <2>5, <2>6, <2>7, <2>8, ZenonT(60)
<1> HIDE DEF m
<1>9. BlocksInv'
  <2>1. ASSUME NEW b \in 1..count
        PROVE  /\ ShadowsLag(block'[b])
               /\ Active(b)' => /\ First(b)' \in Nat
                                /\ Numbered(block'[b], First(b)', Skip(b)')
                                /\ b # frontBlock => Used(block'[b]) # 0
                                /\ End(b)' <= Len(posted) + 1
    BY <1>2, <1>8, ZenonT(60) DEF BlocksInv
  <2>2. count' = count /\ frontBlock' = frontBlock /\ posted' = posted
    BY <1>4, ZenonT(60)
  <2> QED BY <2>1, <2>2, ZenonT(60) DEF BlocksInv
<1>10. RingInv'
  <2>1. ASSUME NEW a \in 1..count, NEW b \in 1..count, block'[a].next = b
        PROVE  Active(a)' /\ a # t => Active(b)' /\ b # frontBlock /\ First(b)' = End(a)'
    <3>1. ASSUME Active(a)', a # t
          PROVE  Active(b)' /\ b # frontBlock /\ First(b)' = End(a)'
      <4>1. block[a].next = b /\ Active(a)
        BY <1>7, <1>8, <2>1, <3>1, ZenonT(60)
      <4>2. Active(b) /\ b # frontBlock /\ First(b) = End(a)
        BY <1>2, <3>1, <4>1 DEF RingInv
      <4> QED BY <1>8, <4>2, ZenonT(60)
    <3> QED BY <3>1, ZenonT(60)
  <2>2. ASSUME NEW b \in 1..count, Active(b)', b # frontBlock
        PROVE  \E a \in 1..count : Active(a)' /\ a # t /\ block'[a].next = b
    <3>1. PICK a \in 1..count : Active(a) /\ a # t /\ block[a].next = b
      BY <1>2, <1>8, <2>2, ZenonT(60) DEF RingInv
    <3> QED BY <1>7, <1>8, <3>1, ZenonT(60)
  <2>3. ASSUME NEW a \in 1..count, NEW b \in 1..count, block'[a].next = block'[b].next
        PROVE  a = b
    <3>1. ASSUME NEW y \in 1..count, y # m PROVE block[y].next # m
      <4>1. InRing(y) /\ ~InRing(m)
        BY <1>2, <1>8, <3>1, ZenonT(60)
      <4> QED BY <1>2, <4>1, ZenonT(60) DEF RingInv
    <3>2. t # m /\ block[t].next # m
      BY <1>2, <1>3, <3>1, ZenonT(60)
    <3>3. ASSUME NEW y \in 1..count PROVE block[y].next # m
      BY <1>3, <3>1, <3>2, ZenonT(60)
    <3>4. ASSUME NEW y \in 1..count, NEW z \in 1..count, y # m, z # m,
                 block[y].next = block[z].next
          PROVE  y = z
      <4>1. InRing(y) /\ InRing(z)
        BY <1>8, <3>4, ZenonT(60)
      <4> QED BY <1>2, <3>4, <4>1, ZenonT(60) DEF RingInv
    <3>5. ASSUME NEW y \in 1..count, y # t, y # m PROVE block[y].next # block[m].next
      BY <1>2, <1>3, <3>2, <3>4, <3>5, ZenonT(60)
    <3> QED BY <1>7, <2>3, <3>3, <3>4, <3>5
  <2>4. ASSUME NEW b \in 1..count, b = t PROVE End(b)' = Len(posted) + 1
    BY <1>2, <1>8, <2>4, ZenonT(60) DEF RingInv
  <2>5. /\ count' = count /\ frontBlock' = frontBlock /\ tailBlock' = tailBlock
        /\ posted' = posted
    BY <1>4, ZenonT(60)
  <2>6. \A b \in 1..count : InRing(b)'
    BY <1>8, ZenonT(60)
  <2> QED BY <2>1, <2>2, <2>3, <2>4, <2>5, <2>6, ZenonT(60) DEF RingInv
<1>11. EnqueueInv'
  <2>1. block'[t].next = m
    BY <1>2, <1>7, ZenonT(60)
  <2>2. /\ Used(block'[m]) = 1 /\ block'[m].data[block'[m].front] = E.task
    BY <1>2, <1>3, <1>7, <1>8, ZenonT(60) DEF m
  <2>3. frontBlock' = frontBlock /\ tailBlock' = tailBlock /\ posted' = posted
    BY <1>4, ZenonT(60)
  <2> QED BY <1>2, <1>3, <1>6, <2>1, <2>2, <2>3, ZenonT(60) DEF EnqueueInv
<1>12. DequeueInv'
  <2>1. frontBlock \in 1..count
    BY <1>1, ZenonT(60) DEF TypeInv, RestFits
  <2> QED BY <1>1, <1>2, <1>4, <1>7, <2>1, ConsumerUndisturbed, ZenonT(60)
<1> QED BY <1>2, <1>4, <1>9, <1>10, <1>11, <1>12, ZenonT(60) DEF HistoryInv

\* The block that was filled becomes tailBlock, and the end of the chain.
LEMMA ShowKept ==
  ASSUME OneProducer, QueueInv, NEW p \in Producers, EnqueueMove(p)
  PROVE  BlocksInv' /\ RingInv' /\ EnqueueInv' /\ DequeueInv' /\ HistoryInv'
<1> DEFINE t == tailBlock
           m == E.nb
           L == Len(posted)
<1>1. enq[p] = E /\ E.pc = "move" /\ TypeInv /\ EnqueueReturn(p)
  BY ProducerStep, ZenonT(60) DEF EnqueueMove, QueueInv
<1>2. /\ t \in 1..count /\ m \in 1..count /\ frontBlock \in 1..count
      /\ E.task = L + 1 /\ L \in Nat
      /\ BlocksInv /\ RingInv /\ DequeueInv /\ EnqueueInv
  BY <1>1, InCall, ZenonT(60) DEF QueueInv, TypeInv, RestFits
<1>3. /\ m \notin {frontBlock, tailBlock} /\ block[t].next = m
      /\ Used(block[m]) = 1 /\ block[m].data[block[m].front] = L + 1
  BY <1>1, <1>2, ZenonT(60) DEF EnqueueInv
<1>4. /\ E'.pc = "idle" /\ E'.task = None /\ Len(posted') = L + 1
      /\ UNCHANGED <<count, frontBlock, deq, result>> /\ HistoryInv'
  BY <1>1, ReturnIs, ZenonT(60)
<1>5. tailBlock' = m /\ block' = block
  BY <1>1, ZenonT(60) DEF EnqueueMove
<1>6. ~Active(m)
  BY <1>1, <1>3, ZenonT(60) DEF Active, Pending
<1>7. ASSUME NEW b \in 1..count
      PROVE  /\ Active(b)' <=> Active(b) \/ b = m
             /\ InRing(b)' /\ InRing(b)
             /\ First(b)' = First(b) /\ End(b)' = End(b) /\ Skip(b)' = Skip(b)
  <2>1. Active(b)' <=> b \in {frontBlock, m} \/ Used(block[b]) # 0
    BY <1>4, <1>5, ZenonT(60) DEF Active, Pending
  <2>2. Active(b) <=> b \in {frontBlock, t} \/ (Used(block[b]) # 0 /\ b # m)
    BY <1>1, ZenonT(60) DEF Active, Pending
  <2>3. t = frontBlock \/ Used(block[t]) # 0
    <3>1. Active(t)
      BY ZenonT(60) DEF Active
    <3> QED BY <1>2, <3>1, ZenonT(60) DEF BlocksInv
  <2>4. InRing(b)' /\ InRing(b)
    BY <1>1, <1>4, ZenonT(60) DEF InRing
  <2>5. First(b)' = First(b) /\ Skip(b)' = Skip(b)
    BY <1>4, <1>5, ZenonT(60) DEF First, Skip
  <2> QED BY <1>3, <1>5, <2>1, <2>2, <2>3, <2>4, <2>5, ZenonT(60) DEF End
<1> HIDE DEF m
<1>8. First(m) = L + 1 /\ End(m) = L + 2 /\ Skip(m) = 0
  BY <1>2, <1>3 DEF First, End, Skip
<1>9. Numbered(block[m], L + 1, 0)
  <2>1. /\ block[m].size \in Nat /\ block[m].size >= 2
        /\ block[m].front \in 0..(block[m].size - 1)
    BY <1>1, <1>2, BlockTypes, ZenonT(60)
  <2>2. ASSUME NEW i \in 0..(block[m].size - 1),
               Dist(block[m].front, i, block[m].size) < 1
        PROVE  block[m].data[i] = L + 1 + Dist(block[m].front, i, block[m].size)
    <3>1. i = block[m].front /\ Dist(block[m].front, i, block[m].size) = 0
      BY <2>1, <2>2 DEF Dist
    <3> QED BY <1>2, <1>3, <3>1
  <2> QED BY <1>3, <2>2, ZenonT(60) DEF Numbered
<1>10. BlocksInv'
  <2>1. ASSUME NEW b \in 1..count
        PROVE  /\ ShadowsLag(block[b])
               /\ Active(b)' => /\ First(b) \in Nat
                                /\ Numbered(block[b], First(b), Skip(b))
                                /\ b # frontBlock => Used(block[b]) # 0
                                /\ End(b) <= L + 1 + 1
    <3>1. ShadowsLag(block[b])
      BY <1>2, ZenonT(60) DEF BlocksInv
    <3>2. CASE b = m
      <4>1. L \in Nat /\ Used(block[m]) = 1
        BY <1>2, <1>3, ZenonT(60)
      <4>2. /\ First(b) = L + 1 /\ End(b) = L + 2 /\ Used(block[b]) = 1
            /\ Numbered(block[b], First(b), Skip(b))
        BY <1>8, <1>9, <3>2, <4>1, ZenonT(60)
      <4>3. First(b) \in Nat /\ Used(block[b]) # 0 /\ End(b) <= L + 1 + 1
        BY <4>1, <4>2
      <4> QED BY <3>1, <4>2, <4>3, ZenonT(60)
    <3>3. CASE b # m
      <4>1. ASSUME Active(b)
            PROVE  /\ First(b) \in Nat /\ Numbered(block[b], First(b), Skip(b))
                   /\ b # frontBlock => Used(block[b]) # 0
                   /\ End(b) <= L + 1 + 1
        <5>1. End(b) <= L + 1 /\ First(b) \in Nat /\ Used(block[b]) \in Nat
          BY <1>1, <1>2, <4>1, UsedIs, ZenonT(60) DEF BlocksInv
        <5>2. End(b) \in Nat
          BY <5>1 DEF End
        <5>3. End(b) <= L + 1 + 1
          BY <1>2, <5>1, <5>2
        <5> QED BY <1>2, <4>1, <5>3, ZenonT(60) DEF BlocksInv
      <4> QED BY <1>7, <3>1, <3>3, <4>1, ZenonT(60)
    <3> QED BY <3>2, <3>3, ZenonT(60)
  <2>2. count' = count /\ frontBlock' = frontBlock
    BY <1>4, ZenonT(60)
  <2> QED BY <1>4, <1>5, <1>7, <2>1, <2>2, ZenonT(60) DEF BlocksInv
<1>11. RingInv'
  <2>1. ASSUME NEW a \in 1..count, NEW b \in 1..count, block[a].next = b,
               Active(a)', a # m
        PROVE  Active(b)' /\ b # frontBlock /\ First(b)' = End(a)'
    <3>1. CASE a = t
      <4>1. b = m /\ End(a) = L + 1
        BY <1>2, <1>3, <2>1, <3>1, ZenonT(60) DEF RingInv
      <4> QED BY <1>3, <1>7, <1>8, <4>1, ZenonT(60)
    <3>2. CASE a # t
      <4>1. Active(a)
        BY <1>7, <2>1, ZenonT(60)
      <4>2. Active(b) /\ b # frontBlock /\ First(b) = End(a)
        BY <1>2, <2>1, <3>2, <4>1 DEF RingInv
      <4> QED BY <1>7, <4>2, ZenonT(60)
    <3> QED BY <3>1, <3>2, ZenonT(60)
  <2>2. ASSUME NEW b \in 1..count, Active(b)', b # frontBlock
        PROVE  \E a \in 1..count : Active(a)' /\ a # m /\ block[a].next = b
    <3>1. CASE b = m
      <4>1. Active(t)
        BY ZenonT(60) DEF Active
      <4> QED BY <1>2, <1>3, <1>7, <3>1, <4>1, ZenonT(60)
    <3>2. CASE b # m
      <4>1. PICK a \in 1..count : Active(a) /\ a # t /\ block[a].next = b
        BY <1>2, <1>7, <2>2, <3>2, ZenonT(60) DEF RingInv
      <4> QED BY <1>6, <1>7, <4>1, ZenonT(60)
    <3> QED BY <3>1, <3>2, ZenonT(60)
  <2>3. ASSUME NEW a \in 1..count, NEW b \in 1..count, block[a].next = block[b].next
        PROVE  a = b
    BY <1>2, <1>7, <2>3, ZenonT(60) DEF RingInv
  <2>4. ASSUME NEW b \in 1..count, b = m PROVE End(b)' = Len(posted') + 1
    BY <1>2, <1>4, <1>7, <1>8, <2>4
  <2>5. count' = count /\ frontBlock' = frontBlock
    BY <1>4, ZenonT(60)
  <2>6. \A b \in 1..count : InRing(b)'
    BY <1>7, ZenonT(60)
  <2> QED BY <1>5, <2>1, <2>2, <2>3, <2>4, <2>5, <2>6, ZenonT(60) DEF RingInv
<1>12. EnqueueInv'
  BY <1>4, IdleEnqueuer, ZenonT(60)
<1>13. DequeueInv'
  BY <1>1, <1>2, <1>3, <1>4, <1>5, ConsumerUndisturbed, ZenonT(60)
<1> QED BY <1>4, <1>10, <1>11, <1>12, <1>13, ZenonT(60)

-----------------------------------------------------------------------------
(* One producer: the queue.                                                 *)

\* Every step of the two threads keeps the queue in order.
LEMMA NextQueue == ASSUME OneProducer, QueueInv, [Next]_vars PROVE QueueInv'
<1>1. TypeInv'
  BY NextTypes, ZenonT(60) DEF QueueInv
<1>2. ASSUME NEW p \in Producers, NEW t \in Tasks, EnqueueStart(p, t)
      PROVE  BlocksInv' /\ RingInv' /\ EnqueueInv' /\ DequeueInv' /\ HistoryInv'
  BY <1>2, StartKept, ZenonT(60)
<1>3. ASSUME NEW p \in Producers, inner_enqueue(p)
      PROVE  BlocksInv' /\ RingInv' /\ EnqueueInv' /\ DequeueInv' /\ HistoryInv'
  BY <1>3, FullKept, StoreKept, PublishKept, NextKept, FillKept, AllocKept, LinkKept, ZenonT(60),
     ShowKept DEF inner_enqueue
<1>4. CASE try_dequeue
  BY <1>1, <1>4, LooksKept, AdvanceKept, MoveKept, TakeKept, ReleaseKept, ZenonT(60)
     DEF try_dequeue, QueueInv
<1>5. CASE UNCHANGED vars
  <2>1. UNCHANGED <<block, count, frontBlock, tailBlock, enq, deq, posted, result, failed>>
    BY <1>5, ZenonT(60) DEF vars
  <2>2. E' = E
    BY <2>1, ZenonT(60) DEF E
  <2>3. \A b : /\ Active(b)' <=> Active(b)
               /\ InRing(b)' <=> InRing(b)
               /\ First(b)' = First(b) /\ End(b)' = End(b) /\ Skip(b)' = Skip(b)
    BY <2>1, <2>2, ZenonT(60) DEF Active, Pending, InRing, First, End, Skip
  <2>4. BlocksInv' /\ RingInv'
    BY <2>1, <2>3, ZenonT(60) DEF QueueInv, BlocksInv, RingInv
  <2>5. EnqueueInv' /\ DequeueInv' /\ HistoryInv'
    BY <2>1, <2>2, <2>3, ZenonT(60) DEF QueueInv, EnqueueInv, DequeueInv, HistoryInv
  <2> QED BY <1>1, <2>4, <2>5, ZenonT(60) DEF QueueInv
<1> QED BY <1>1, <1>2, <1>3, <1>4, <1>5, ZenonT(60) DEF Next, QueueInv

\* A step that returns a task returns the next one that was posted; a step
\* that ends a call of enqueue posts a new one; the others change neither.
LEMMA FifoStep ==
  ASSUME OneProducer, QueueInv, [Next]_vars
  PROVE  [Fifo!Next]_(Fifo!vars)
<1> USE DEF Fifo!vars
<1>1. ASSUME NEW p \in Producers, E.pc # "idle", EnqueueReturn(p)
      PROVE  Fifo!Next
  <2>1. /\ posted' = Append(posted, Len(posted) + 1) /\ result' = result
    BY <1>1, ReturnIs, ZenonT(60)
  <2>2. /\ Len(posted) + 1 \in Tasks /\ Len(posted) \in Nat
        /\ \A i \in 1..Len(posted) : posted[i] = i
    BY <1>1, InCall, ZenonT(60) DEF HistoryInv
  <2>3. \A i \in 1..Len(posted) : posted[i] # Len(posted) + 1
    BY <2>2
  <2>4. Fifo!Enqueue(Len(posted) + 1)
    BY <2>1, <2>3, ZenonT(60) DEF Fifo!Enqueue
  <2> QED BY <2>2, <2>4, ZenonT(60) DEF Fifo!Next
<1>2. CASE DequeueRelease
  <2> DEFINE f == frontBlock
             fb == block[frontBlock]
  <2>1. /\ TypeInv /\ BlocksInv /\ HistoryInv /\ f \in 1..count
        /\ Len(result) \in Nat /\ Len(posted) \in Nat
    BY DEF QueueInv, TypeInv, RestFits
  <2>2. /\ deq.pc = "release" /\ result' = Append(result, deq.task) /\ posted' = posted
    BY <1>2, ZenonT(60) DEF DequeueRelease, DequeueStep
  <2>3. deq.task = Len(result) + 1 /\ fb.front # fb.localTail
    BY <2>2, ZenonT(60) DEF QueueInv, DequeueInv
  <2>4. /\ ShadowsLag(fb) /\ Len(result) + 1 + Used(fb) <= Len(posted) + 1
    <3>1. Active(f) /\ End(f) = Len(result) + 1 + Used(fb)
      BY ZenonT(60) DEF Active, End, First
    <3> QED BY <2>1, <3>1, ZenonT(60) DEF BlocksInv
  <2>5. Used(fb) \in Nat /\ Used(fb) # 0
    <3>1. /\ fb.size \in Nat /\ fb.size >= 2
          /\ fb.front \in 0..(fb.size - 1) /\ fb.tail \in 0..(fb.size - 1)
          /\ fb.localTail \in 0..(fb.size - 1)
      BY <2>1, BlockTypes, ZenonT(60)
    <3> HIDE DEF fb
    <3> QED BY <2>3, <2>4, <3>1, TakenShadows, ZenonT(60)
  <2> HIDE DEF fb
  <2>6. Len(result) < Len(posted)
    BY <2>1, <2>4, <2>5
  <2>7. posted[Len(result) + 1] = Len(result) + 1
    BY <2>1, <2>6 DEF HistoryInv
  <2> QED BY <2>2, <2>3, <2>6, <2>7, ZenonT(60) DEF Fifo!Next, Fifo!Dequeue
<1>3. ASSUME NEW p \in Producers, inner_enqueue(p)
      PROVE  Fifo!Next \/ UNCHANGED <<posted, result>>
  <2>1. enq[p] = E
    BY ProducerStep, ZenonT(60) DEF QueueInv
  <2>2. CASE EnqueuePublish(p) \/ EnqueueMove(p)
    BY <1>1, <2>1, <2>2, ZenonT(60) DEF EnqueuePublish, EnqueueMove
  <2>3. CASE EnqueueFull(p) \/ EnqueueStore(p) \/ EnqueueNext(p) \/ EnqueueAdvance(p)
             \/ EnqueueAlloc(p) \/ EnqueueLink(p)
    BY <2>3, ZenonT(60) DEF EnqueueFull, EnqueueStore, EnqueueNext, EnqueueAdvance, EnqueueAlloc,
                EnqueueLink, history
  <2> QED BY <1>3, <2>2, <2>3, ZenonT(60) DEF inner_enqueue
<1>4. ASSUME NEW p \in Producers, NEW t \in Tasks, EnqueueStart(p, t)
      PROVE  UNCHANGED <<posted, result>>
  BY <1>4, ZenonT(60) DEF EnqueueStart
<1>5. CASE try_dequeue
  <2>1. CASE DequeueStart \/ DequeueTailBlock \/ DequeueAdvance \/ DequeueMove \/ DequeueTake
             \/ DequeueTail("tail", "tailBlock") \/ DequeueTail("again", "advance")
    BY <2>1, ZenonT(60) DEF DequeueStart, DequeueTailBlock, DequeueAdvance, DequeueMove, DequeueTake,
                DequeueTail, DequeueStep
  <2> QED BY <1>2, <1>5, <2>1, ZenonT(60) DEF try_dequeue
<1>6. CASE UNCHANGED vars
  BY <1>6, ZenonT(60) DEF vars
<1> QED BY <1>3, <1>4, <1>5, <1>6, ZenonT(60) DEF Next

\* With one producer the assertions of readerwriterqueue.h hold: calls of
\* enqueue do not overlap, the block the producer enters is empty, and the
\* block the consumer enters is not.
THEOREM QueueAssertsCorrect ==
  ASSUME OneProducer
  PROVE  Spec => []AssertsHold
<1>1. Init => QueueInv
  BY InitQueue
<1>2. QueueInv /\ [Next]_vars => QueueInv'
  BY NextQueue
<1>3. QueueInv => AssertsHold
  BY DEF QueueInv, HistoryInv, AssertsHold
<1> QED BY <1>1, <1>2, <1>3, PTL DEF Spec

\* With one producer the ring of blocks is a first-in-first-out queue: what
\* try_dequeue returns is what enqueue took, each task once and in order, for
\* any number of tasks, any block sizes, and however often blocks are reused
\* or memory runs out.
THEOREM QueueFifoCorrect ==
  ASSUME OneProducer
  PROVE  Spec => IsFifo
<1>1. Init => QueueInv
  BY InitQueue
<1>2. QueueInv /\ [Next]_vars => QueueInv'
  BY NextQueue
<1>3. Init => Fifo!Init
  BY DEF Init, Fifo!Init
<1>4. QueueInv /\ [Next]_vars => [Fifo!Next]_(Fifo!vars)
  BY FifoStep
<1> QED BY <1>1, <1>2, <1>3, <1>4, PTL DEF Spec, IsFifo, Fifo!Spec

-----------------------------------------------------------------------------
(* One producer: no task is lost.                                           *)

\* A task that was posted and not returned yet is in a slot in use of a block
\* that the consumer will go through (RingInv: those are the blocks on the way
\* from frontBlock to tailBlock).
UnrunIsHeld ==
  \A n \in (Len(result) + 1)..Len(posted) :
    \E b \in 1..count : Active(b) /\ posted[n] \in Range(BlockTasks(b))

\* The numbers of the tasks of an active block, and where the next ones are.
LEMMA ActiveSpan ==
  ASSUME QueueInv, NEW b \in 1..count, Active(b)
  PROVE  /\ First(b) \in Nat /\ Used(block[b]) \in Nat
         /\ End(b) = First(b) + Used(block[b]) /\ End(b) \in Nat
         /\ b # frontBlock => First(b) < End(b)
         /\ b = frontBlock => First(b) = Len(result) + 1
         /\ b = tailBlock => End(b) = Len(posted) + 1
         /\ b # tailBlock => \E a \in 1..count :
              Active(a) /\ a # frontBlock /\ First(a) = End(b)
<1>1. First(b) \in Nat /\ (b # frontBlock => Used(block[b]) # 0)
  BY ZenonT(60) DEF QueueInv, BlocksInv
<1>2. Used(block[b]) \in Nat
  BY UsedIs, ZenonT(60) DEF QueueInv
<1>3. End(b) = First(b) + Used(block[b])
  BY ZenonT(60) DEF End
<1>4. End(b) \in Nat /\ (b # frontBlock => First(b) < End(b))
  BY <1>1, <1>2, <1>3
<1>5. b = frontBlock => First(b) = Len(result) + 1
  BY ZenonT(60) DEF First
<1>6. b = tailBlock => End(b) = Len(posted) + 1
  BY ZenonT(60) DEF QueueInv, RingInv
<1>7. block[b].next \in 1..count
  BY BlockTypes, ZenonT(60) DEF QueueInv
<1>8. ASSUME b # tailBlock
      PROVE  \E a \in 1..count : Active(a) /\ a # frontBlock /\ First(a) = End(b)
  BY <1>7, <1>8, ZenonT(60) DEF QueueInv, RingInv
<1> QED BY <1>1, <1>2, <1>3, <1>4, <1>5, <1>6, <1>8, ZenonT(60)

\* The active blocks leave no gap: each number from the next task to be
\* returned to the last one posted is in the span of one of them.
LEMMA NoGap ==
  ASSUME QueueInv, NEW k \in (Len(result) + 1)..Len(posted)
  PROVE  \E b \in 1..count : Active(b) /\ First(b) <= k /\ k < End(b)
<1> DEFINE L == Len(posted)
           R == Len(result)
           In(n) == \E b \in 1..count : Active(b) /\ First(b) <= n /\ n < End(b)
           T == {n \in Nat : R < n /\ n <= L /\ ~In(n)}
<1>1. L \in Nat /\ R \in Nat /\ frontBlock \in 1..count /\ Active(frontBlock)
  BY DEF QueueInv, TypeInv, RestFits, Active
<1>2. k \in Nat /\ R < k /\ k <= L
  BY <1>1
<1> HIDE DEF L, R
<1>3. ASSUME NEW b \in 1..count, Active(b), NEW n \in Nat, n <= L, End(b) = n
      PROVE  In(n)
  <2>1. b # tailBlock
    <3>1. b = tailBlock => End(b) = L + 1
      BY <1>3, ActiveSpan, ZenonT(60) DEF L
    <3>2. L + 1 # n
      BY <1>1, <1>3
    <3> QED BY <1>3, <3>1, <3>2, ZenonT(60)
  <2>2. PICK a \in 1..count : Active(a) /\ a # frontBlock /\ First(a) = End(b)
    BY <1>3, <2>1, ActiveSpan, ZenonT(60)
  <2>3. First(a) < End(a) /\ First(a) = n
    BY <1>3, <2>2, ActiveSpan, ZenonT(60)
  <2>4. First(a) <= n /\ n < End(a)
    BY <1>3, <2>3
  <2> QED BY <2>2, <2>4, ZenonT(60)
<1>4. ASSUME T # {} PROVE FALSE
  <2>1. PICK m \in T : \A n \in T : m <= n
    BY <1>4, Least, ZenonT(60)
  <2>2. m \in Nat /\ R < m /\ m <= L /\ ~In(m)
    BY <2>1, ZenonT(60)
  <2> HIDE DEF In
  <2>3. CASE m = R + 1
    <3>1. First(frontBlock) = m /\ End(frontBlock) \in Nat /\ End(frontBlock) >= m
      <4>1. /\ First(frontBlock) = R + 1 /\ Used(block[frontBlock]) \in Nat
            /\ End(frontBlock) = First(frontBlock) + Used(block[frontBlock])
        BY <1>1, ActiveSpan, ZenonT(60) DEF R
      <4> QED BY <2>2, <2>3, <4>1
    <3>2. CASE End(frontBlock) = m
      BY <1>1, <1>3, <2>2, <3>2, ZenonT(60)
    <3>3. CASE End(frontBlock) # m
      <4>1. First(frontBlock) <= m /\ m < End(frontBlock)
        BY <2>2, <3>1, <3>3
      <4> QED BY <1>1, <2>2, <4>1, ZenonT(60) DEF In
    <3> QED BY <3>2, <3>3
  <2>4. CASE m # R + 1
    <3>1. m - 1 \in Nat /\ R < m - 1 /\ m - 1 <= L /\ ~(m <= m - 1)
      BY <1>1, <2>2, <2>4
    <3>2. In(m - 1)
      BY <2>1, <3>1, ZenonT(60)
    <3>3. PICK a \in 1..count : Active(a) /\ First(a) <= m - 1 /\ m - 1 < End(a)
      BY <3>2, ZenonT(60) DEF In
    <3>4. First(a) \in Nat /\ End(a) \in Nat
      BY <3>3, ActiveSpan, ZenonT(60)
    <3>5. CASE End(a) = m
      BY <1>3, <2>2, <3>3, <3>5, ZenonT(60)
    <3>6. CASE End(a) # m
      <4>1. First(a) <= m /\ m < End(a)
        BY <2>2, <3>3, <3>4, <3>6
      <4> QED BY <2>2, <3>3, <4>1, ZenonT(60) DEF In
    <3> QED BY <3>5, <3>6
  <2> QED BY <2>3, <2>4
<1> QED BY <1>2, <1>4, ZenonT(60)

\* A block in whose span a number is holds the task of that number, also while
\* the consumer is moving it out.
LEMMA SpanHolds ==
  ASSUME QueueInv, NEW b \in 1..count, Active(b), NEW k \in Nat,
         First(b) <= k, k < End(b)
  PROVE  k \in Range(BlockTasks(b))
<1> DEFINE bl == block[b]
           d == k - First(b)
           i == (bl.front + d) % bl.size
           len == (bl.tail + bl.size - bl.front) % bl.size
           At(j) == IF deq.pc = "release" /\ deq.b = b /\ deq.slot = j
                    THEN deq.task ELSE bl.data[j]
           s == [j \in 1..len |-> At((bl.front + j - 1) % bl.size)]
<1>1. /\ bl.size \in Nat /\ bl.size >= 2
      /\ bl.front \in 0..(bl.size - 1) /\ bl.tail \in 0..(bl.size - 1)
  BY BlockTypes, ZenonT(60) DEF QueueInv
<1>2. First(b) \in Nat /\ Used(bl) \in Nat /\ End(b) = First(b) + Used(bl)
  BY ActiveSpan, ZenonT(60)
<1>3. Numbered(bl, First(b), Skip(b))
  BY ZenonT(60) DEF QueueInv, BlocksInv
<1>4. BlockTasks(b) = s
  BY ZenonT(60) DEF BlockTasks
<1> HIDE DEF bl
<1>5. d \in Nat /\ d < Used(bl) /\ First(b) + d = k
  BY <1>2
<1> HIDE DEF d
<1>6. /\ len = Used(bl) /\ d + 1 \in 1..len /\ (bl.front + (d + 1) - 1) % bl.size = i
      /\ i \in 0..(bl.size - 1) /\ Dist(bl.front, i, bl.size) = d
      /\ i = bl.front <=> d = 0
  <2> DEFINE f == bl.front
             t == bl.tail
             size == bl.size
  <2>1. /\ size \in Nat /\ size >= 2 /\ f \in 0..(size - 1) /\ t \in 0..(size - 1)
        /\ d \in Nat /\ d < Dist(f, t, size) /\ Used(bl) = Dist(f, t, size)
    BY <1>1, <1>5, ZenonT(60) DEF Used
  <2> HIDE DEF f, t, size
  <2>2. /\ (t + size - f) % size = Dist(f, t, size)
        /\ d + 1 \in 1..Dist(f, t, size) /\ f + (d + 1) - 1 = f + d
        /\ (f + d) % size \in 0..(size - 1)
        /\ Dist(f, (f + d) % size, size) = d
        /\ (f + d) % size = f <=> d = 0
    BY <2>1, SlotAt
  <2> QED BY <2>1, <2>2, ZenonT(60) DEF f, t, size
<1> HIDE DEF i, len
<1>7. deq.pc = "release" => /\ deq.b = frontBlock /\ deq.slot = block[frontBlock].front
                            /\ deq.task = Len(result) + 1
  <2>1. DequeueInv
    BY ZenonT(60) DEF QueueInv
  <2> QED BY <2>1 DEF DequeueInv
<1>8. At(i) = k
  <2>1. CASE deq.pc = "release" /\ b = frontBlock /\ d = 0
    <3>1. deq.b = b /\ deq.slot = i /\ deq.task = Len(result) + 1
      BY <1>6, <1>7, <2>1, ZenonT(60) DEF bl
    <3>2. First(b) = Len(result) + 1
      BY <2>1, ZenonT(60) DEF First
    <3>3. First(b) = k
      BY <1>2, <1>5, <2>1
    <3> QED BY <2>1, <3>1, <3>2, <3>3, ZenonT(60)
  <2>2. CASE ~(deq.pc = "release" /\ b = frontBlock /\ d = 0)
    <3>1. Skip(b) <= d
      BY <1>5, <2>2 DEF Skip
    <3>2. bl.data[i] = k
      BY <1>3, <1>5, <1>6, <3>1, ZenonT(60) DEF Numbered
    <3>3. ~(deq.pc = "release" /\ deq.b = b /\ deq.slot = i)
      BY <1>6, <1>7, <2>2, ZenonT(60) DEF bl
    <3> QED BY <3>2, <3>3, ZenonT(60)
  <2> QED BY <2>1, <2>2
<1>9. s[d + 1] = k /\ d + 1 \in DOMAIN s
  BY <1>6, <1>8, ZenonT(60)
<1> QED BY <1>4, <1>9, ZenonT(60) DEF Range

\* With one producer no task is lost: whatever enqueue has taken and
\* try_dequeue has not returned is in the ring, at every step of either side,
\* the overwriting, reuse and linking of blocks included.  (With several
\* producers it is not so: NoTaskLost.)
THEOREM QueueHoldsUnrun ==
  ASSUME OneProducer
  PROVE  Spec => []UnrunIsHeld
<1>1. Init => QueueInv
  BY InitQueue
<1>2. QueueInv /\ [Next]_vars => QueueInv'
  BY NextQueue
<1>3. ASSUME QueueInv PROVE UnrunIsHeld
  <2> SUFFICES ASSUME NEW n \in (Len(result) + 1)..Len(posted)
               PROVE  \E b \in 1..count : Active(b) /\ posted[n] \in Range(BlockTasks(b))
    BY ZenonT(60) DEF UnrunIsHeld
  <2>1. PICK b \in 1..count : Active(b) /\ First(b) <= n /\ n < End(b)
    BY <1>3, NoGap, ZenonT(60)
  <2>2. n \in Nat /\ n \in 1..Len(posted)
    BY <1>3 DEF QueueInv, TypeInv, RestFits
  <2>3. n \in Range(BlockTasks(b))
    BY <1>3, <2>1, <2>2, SpanHolds, ZenonT(60)
  <2>4. posted[n] = n
    BY <1>3, <2>2, ZenonT(60) DEF QueueInv, HistoryInv
  <2> QED BY <2>1, <2>3, <2>4, ZenonT(60)
<1> QED BY <1>1, <1>2, <1>3, PTL DEF Spec
=============================================================================
