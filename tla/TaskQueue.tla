----------------------------- MODULE TaskQueue -----------------------------
(***************************************************************************)
(* moodycamel::ReaderWriterQueue<Functor>, the queue behind                 *)
(* EventLoop::QueueInLoop (enqueue) and RunTaskFuncs (try_dequeue): a ring   *)
(* of blocks, each a circular buffer that leaves one slot unused.           *)
(*                                                                         *)
(* A step is one access to a variable that another thread writes, together  *)
(* with the private computation around it.  The fences of the code pair     *)
(* every such store with the load that depends on it, so the interleaving   *)
(* of these steps is taken to be sequentially consistent.                   *)
(***************************************************************************)
EXTENDS Naturals, Sequences, Functions

CONSTANTS
  Producers,    \* threads that call QueueInLoop
  MaxTasks,     \* bound: tasks queued
  InitSize,     \* slots of the first block or blocks
  InitBlocks,   \* blocks the constructor links into a ring
  MAX_BLOCK_SIZE,
  MaxBlocks,    \* bound: blocks malloc provides
  None          \* no task

\* The sizes are powers of two: doubling InitSize arrives at MAX_BLOCK_SIZE.
ASSUME QueueAssumption ==
  /\ MAX_BLOCK_SIZE \in Nat
  /\ \E sizes \in SUBSET (2..MAX_BLOCK_SIZE) :
       InitSize \in sizes /\ \A n \in sizes : n = MAX_BLOCK_SIZE \/ 2 * n \in sizes
  /\ MaxBlocks \in Nat /\ InitBlocks \in 1..MaxBlocks
  /\ MaxTasks \in Nat /\ None \notin 1..MaxTasks

VARIABLES
  block,        \* the blocks: front, tail, their shadows, next, size, data
  count,        \* blocks made so far
  frontBlock, tailBlock,
  enq,          \* a producer's locals and place in inner_enqueue
  deq,          \* the consumer's in try_dequeue
  posted,       \* history: tasks in the order in which enqueue returned true
  result,       \* history: tasks try_dequeue has returned
  failed        \* assertions that have failed

vars == <<block, count, frontBlock, tailBlock, enq, deq, posted, result, failed>>
history == <<posted, result, failed>>

Tasks == 1..MaxTasks
Slots == 0..(MAX_BLOCK_SIZE - 1)
Blocks == 1..MaxBlocks

\* (i + 1) & sizeMask, in a block of some size
After_NoMask(i, size) == i + 1
After(i, size) == (i + 1) % size

Block == [front : Slots, localTail : Slots, tail : Slots, localFront : Slots,
          next : Blocks, size : 2..MAX_BLOCK_SIZE,
          data : [Slots -> Tasks \cup {None}]]

make_block(next, size) ==
  [front |-> 0, localTail |-> 0, tail |-> 0, localFront |-> 0,
   next |-> next, size |-> size, data |-> [i \in Slots |-> None]]

\* The locals of inner_enqueue and of try_dequeue, and the place in them.
Enqueuer == [pc : {"idle", "full", "store", "publish", "next", "advance", "alloc",
                   "link", "move"},
             task : Tasks \cup {None}, b : Blocks, nb : Blocks, slot : Slots]
Dequeuer == [pc : {"idle", "tail", "tailBlock", "again", "advance", "move",
                   "take", "release"},
             b : Blocks, slot : Slots, task : Tasks \cup {None}]

TypeOK ==
  /\ block \in [1..count -> Block]
  /\ count \in Blocks
  /\ {frontBlock, tailBlock} \subseteq 1..count
  /\ enq \in [Producers -> Enqueuer]
  /\ deq \in Dequeuer
  /\ posted \in Seq(Tasks)
  /\ result \in Seq(Tasks \cup {None})
  /\ failed \subseteq {"enqueuing", "next_is_empty", "next_has_element"}

\* The constructor's ring of InitBlocks blocks.
Init ==
  /\ block = [b \in 1..InitBlocks |-> make_block((b % InitBlocks) + 1, InitSize)]
  /\ count = InitBlocks
  /\ frontBlock = 1 /\ tailBlock = 1
  /\ enq = [p \in Producers |->
              [pc |-> "idle", task |-> None, b |-> 1, nb |-> 1, slot |-> 0]]
  /\ deq = [pc |-> "idle", b |-> 1, slot |-> 0, task |-> None]
  /\ posted = <<>> /\ result = <<>> /\ failed = {}

-----------------------------------------------------------------------------
(* inner_enqueue<CanAlloc> in producer p.                                   *)

\* The next task that nobody has queued or is queueing.  The queue treats
\* all tasks alike, so their order is no loss.
Fresh(t) ==
  LET used == Range(posted) \cup {enq[p].task : p \in Producers}
  IN  t \notin used /\ 1..(t - 1) \subseteq used

\* ReentrantGuard, and the check against the shadow of front.
EnqueueStart(p, t) ==
  /\ enq[p].pc = "idle" /\ Fresh(t)
  /\ failed' = IF \E q \in Producers \ {p} : enq[q].pc # "idle"
               THEN failed \cup {"enqueuing"} ELSE failed
  /\ LET tb == block[tailBlock] IN
     enq' = [enq EXCEPT ![p] =
               [pc |-> IF After(tb.tail, tb.size) # tb.localFront
                       THEN "store" ELSE "full",
                task |-> t, b |-> tailBlock, nb |-> tailBlock,
                slot |-> tb.tail]]
  /\ UNCHANGED <<block, count, frontBlock, tailBlock, deq, posted, result>>

\* The block looks full: read front.
EnqueueFull(p) ==
  /\ enq[p].pc = "full"
  /\ LET e == enq[p]
         front == block[e.b].front
     IN  /\ block' = [block EXCEPT ![e.b].localFront = front]
         /\ enq' = [enq EXCEPT ![p].pc =
                      IF After(e.slot, block[e.b].size) # front THEN "store" ELSE "next"]
  /\ UNCHANGED <<count, frontBlock, tailBlock, deq, history>>

EnqueueStore(p) ==
  /\ enq[p].pc = "store"
  /\ block' = [block EXCEPT ![enq[p].b].data[enq[p].slot] = enq[p].task]
  /\ enq' = [enq EXCEPT ![p].pc = "publish"]
  /\ UNCHANGED <<count, frontBlock, tailBlock, deq, history>>

EnqueueReturn(p) ==
  /\ enq' = [enq EXCEPT ![p].pc = "idle", ![p].task = None]
  /\ posted' = Append(posted, enq[p].task)
  /\ UNCHANGED <<count, frontBlock, deq, result, failed>>

EnqueuePublish(p) ==
  /\ enq[p].pc = "publish"
  /\ block' = [block EXCEPT ![enq[p].b].tail = After(enq[p].slot, block[enq[p].b].size)]
  /\ EnqueueReturn(p)
  /\ UNCHANGED tailBlock

\* The block is full: is the next one free?
EnqueueNext_Free(p) ==
  /\ enq[p].pc = "next"
  /\ enq' = [enq EXCEPT ![p].pc = "advance"]
  /\ UNCHANGED <<block, count, frontBlock, tailBlock, deq, history>>

EnqueueNext(p) ==
  /\ enq[p].pc = "next"
  /\ enq' = [enq EXCEPT ![p].pc =
               IF block[enq[p].b].next # frontBlock THEN "advance" ELSE "alloc"]
  /\ UNCHANGED <<block, count, frontBlock, tailBlock, deq, history>>

\* The next block is filled while nobody looks at it.
EnqueueAdvance(p) ==
  /\ enq[p].pc = "advance"
  /\ LET n == block[enq[p].b].next
         nb == block[n]
     IN  /\ failed' = IF nb.front = nb.tail
                      THEN failed ELSE failed \cup {"next_is_empty"}
         /\ block' = [block EXCEPT ![n].localFront = nb.front,
                                   ![n].data[nb.tail] = enq[p].task,
                                   ![n].tail = After(nb.tail, nb.size)]
         /\ enq' = [enq EXCEPT ![p].pc = "move", ![p].nb = n]
  /\ UNCHANGED <<count, frontBlock, tailBlock, deq, posted, result>>

\* Twice largestBlockSize, which is the size of the latest block.
NewBlockSize ==
  IF block[count].size >= MAX_BLOCK_SIZE THEN block[count].size ELSE 2 * block[count].size

\* A new block, or false when malloc fails, now and then or for good:
\* QueueInLoop ignores it.
EnqueueAlloc(p) ==
  /\ enq[p].pc = "alloc"
  /\ \/ /\ count < MaxBlocks
        /\ count' = count + 1
        /\ block' = [b \in 1..(count + 1) |->
             IF b <= count THEN block[b]
             ELSE [make_block(block[enq[p].b].next, NewBlockSize)
                     EXCEPT !.data[0] = enq[p].task,
                            !.tail = 1, !.localTail = 1]]
        /\ enq' = [enq EXCEPT ![p].pc = "link", ![p].nb = count + 1]
     \/ /\ enq' = [enq EXCEPT ![p].pc = "idle", ![p].task = None]
        /\ UNCHANGED <<count, block>>
  /\ UNCHANGED <<frontBlock, tailBlock, deq, history>>

EnqueueLink(p) ==
  /\ enq[p].pc = "link"
  /\ block' = [block EXCEPT ![enq[p].b].next = enq[p].nb]
  /\ enq' = [enq EXCEPT ![p].pc = "move"]
  /\ UNCHANGED <<count, frontBlock, tailBlock, deq, history>>

EnqueueMove(p) ==
  /\ enq[p].pc = "move"
  /\ tailBlock' = enq[p].nb
  /\ EnqueueReturn(p)
  /\ UNCHANGED block

-----------------------------------------------------------------------------
(* try_dequeue in the loop thread.                                          *)

DequeueStep(from, to) ==
  /\ deq.pc = from
  /\ deq' = to
  /\ UNCHANGED <<count, tailBlock, enq, posted>>

\* The check against the shadow of tail.
DequeueStart ==
  /\ LET fb == block[frontBlock] IN
     DequeueStep("idle", [pc |-> IF fb.front # fb.localTail
                                 THEN "take" ELSE "tail",
                          b |-> frontBlock, slot |-> fb.front, task |-> None])
  /\ UNCHANGED <<block, frontBlock, result, failed>>

\* Read tail, before the first and before the second look at tailBlock.
DequeueTail(pc, empty) ==
  /\ LET tail == block[deq.b].tail IN
     /\ DequeueStep(pc, [deq EXCEPT !.pc =
                           IF deq.slot # tail THEN "take" ELSE empty])
     /\ block' = [block EXCEPT ![deq.b].localTail = tail]
  /\ UNCHANGED <<frontBlock, result, failed>>

\* A slip the code comments on: advance without looking at tail again.
DequeueTailBlock_NoRecheck ==
  /\ DequeueStep("tailBlock", [deq EXCEPT !.pc =
                                 IF deq.b # tailBlock THEN "advance" ELSE "idle"])
  /\ UNCHANGED <<block, frontBlock, result, failed>>

\* A slip: the queue counts as empty once frontBlock is.
DequeueTailBlock_Stay ==
  /\ DequeueStep("tailBlock", [deq EXCEPT !.pc = "idle"])
  /\ UNCHANGED <<block, frontBlock, result, failed>>

DequeueTailBlock ==
  /\ DequeueStep("tailBlock", [deq EXCEPT !.pc =
                                 IF deq.b # tailBlock THEN "again" ELSE "idle"])
  /\ UNCHANGED <<block, frontBlock, result, failed>>

DequeueAdvance ==
  /\ LET n == block[deq.b].next IN
     /\ DequeueStep("advance", [deq EXCEPT !.pc = "move", !.b = n,
                                           !.slot = block[n].front])
     /\ block' = [block EXCEPT ![n].localTail = block[n].tail]
     /\ failed' = IF block[n].front # block[n].tail
                  THEN failed ELSE failed \cup {"next_has_element"}
  /\ UNCHANGED <<frontBlock, result>>

DequeueMove ==
  /\ DequeueStep("move", [deq EXCEPT !.pc = "take"])
  /\ frontBlock' = deq.b
  /\ UNCHANGED <<block, result, failed>>

\* The element is moved out and destroyed.
DequeueTake ==
  /\ DequeueStep("take", [deq EXCEPT !.pc = "release",
                                     !.task = block[deq.b].data[deq.slot]])
  /\ block' = [block EXCEPT ![deq.b].data[deq.slot] = None]
  /\ UNCHANGED <<frontBlock, result, failed>>

DequeueRelease ==
  /\ DequeueStep("release", [deq EXCEPT !.pc = "idle", !.task = None])
  /\ block' = [block EXCEPT ![deq.b].front = After(deq.slot, block[deq.b].size)]
  /\ result' = Append(result, deq.task)
  /\ UNCHANGED <<frontBlock, failed>>

-----------------------------------------------------------------------------
inner_enqueue(p) ==
  \/ EnqueueFull(p) \/ EnqueueStore(p) \/ EnqueuePublish(p)
  \/ EnqueueNext(p) \/ EnqueueAdvance(p)
  \/ EnqueueAlloc(p) \/ EnqueueLink(p) \/ EnqueueMove(p)

try_dequeue ==
  \/ DequeueStart
  \/ DequeueTail("tail", "tailBlock") \/ DequeueTail("again", "advance")
  \/ DequeueTailBlock \/ DequeueAdvance \/ DequeueMove
  \/ DequeueTake \/ DequeueRelease

Next ==
  \/ \E p \in Producers : (\E t \in Tasks : EnqueueStart(p, t)) \/ inner_enqueue(p)
  \/ try_dequeue

Spec == Init /\ [][Next]_vars

\* Loop() calls try_dequeue in every round, and a call that began goes on.
FairSpec == Spec /\ WF_vars(try_dequeue)

-----------------------------------------------------------------------------
\* With one producer the queue is the first-in-first-out queue that the loop
\* relies on: the blocks, shadow indices and the second look at tailBlock
\* neither lose, repeat nor reorder a task, at any interleaving with
\* try_dequeue and when blocks are reused or added.
Fifo == INSTANCE TaskFifo WITH taken <- posted, given <- result
IsFifo == Fifo!Spec

\* The assertions of readerwriterqueue.h hold: the next block the producer
\* enters is empty, the one the consumer enters is not, and no two enqueue
\* calls overlap.
AssertsHold == failed = {}

\* Every task queued is run.
PostedIsRun ==
  \A t \in Tasks : t \in Range(posted) ~> t \in Range(result)

\* What is in the queue: the blocks from frontBlock to tailBlock, and in each
\* the slots from front to tail.  An element that is being taken out counts
\* until front has moved past it.
BlockTasks(b) ==
  LET bl == block[b]
      len == (bl.tail + bl.size - bl.front) % bl.size
      At(i) == IF deq.pc = "release" /\ deq.b = b /\ deq.slot = i
               THEN deq.task ELSE bl.data[i]
  IN  [i \in 1..len |-> At((bl.front + i - 1) % bl.size)]

Nth[n \in 0..MaxBlocks] ==
  IF n = 0 THEN frontBlock ELSE block[Nth[n - 1]].next

Contents ==
  LET last == CHOOSE n \in 0..MaxBlocks :
                Nth[n] = tailBlock /\ \A m \in 0..(n - 1) : Nth[m] # tailBlock
  IN  UNION {Range(BlockTasks(Nth[n])) : n \in 0..last}

\* "all functions are thread safe for upper layer caller": a task whose
\* QueueInLoop has returned is in the queue or has been run.
NoTaskLost == Range(posted) \subseteq Range(result) \cup Contents
=============================================================================
