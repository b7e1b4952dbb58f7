---------------------------- MODULE ProducerBase ----------------------------
(***************************************************************************)
(* A sub-queue of moodycamel::ConcurrentQueue: one producer appends to it, *)
(* any number of consumers take from it, without locks.  This module has   *)
(* what both kinds of sub-queue share: the blocks, the counters of         *)
(* ProducerBase, the first half of a dequeue, which decides how many       *)
(* elements a consumer gets and which, and the end of an enqueue.  The     *)
(* other halves, which find the blocks, are in ExplicitProducer and        *)
(* ImplicitProducer.  One step is one access to a shared atomic, with the  *)
(* private work that follows it.                                           *)
(***************************************************************************)
EXTENDS Integers, Sequences, FiniteSets, FiniteSetsExt

CONSTANTS
  Consumer,
  Block,
  Nil,             \* nullptr
  BLOCK_SIZE,      \* a power of two above 1
  Modulus,         \* how many values an index_t has, a power of two
  INITIAL_INDEX_SIZE,
  Setups           \* what a sub-queue is created with, and the bounds

(* A setup: isExplicit; start, the index that the first element gets; the  *)
(* consumers; the numbers of elements that enqueue and dequeue ask for;    *)
(* and how much there is: the blocks, the size of the largest block index  *)
(* that can be allocated, and how many elements are enqueued at most.      *)
ASSUME ProducerBaseAssumption ==
  /\ Nil \notin Block \cup (0 .. Modulus - 1)
  /\ IsFiniteSet(Block) /\ IsFiniteSet(Consumer)
  /\ BLOCK_SIZE \in Nat \ {0, 1} /\ INITIAL_INDEX_SIZE \in Nat \ {0}
  /\ Modulus \in Nat /\ Modulus % (2 * BLOCK_SIZE) = 0
  /\ \A s \in Setups :
       /\ s.isExplicit \in BOOLEAN
       /\ s.start \in 0 .. Modulus - 1 /\ s.start % BLOCK_SIZE = 0
       /\ s.consumers \subseteq Consumer /\ s.blocks \subseteq Block
       /\ s.enqueue \cup s.dequeue \subseteq Nat \ {0}
       /\ s.indexSize \in Nat /\ s.indexSize >= INITIAL_INDEX_SIZE
       /\ s.indexSize * BLOCK_SIZE <= Modulus \div 2
       /\ s.elements \in 0 .. Modulus - BLOCK_SIZE

VARIABLES
  setup,
  tailIndex, headIndex, dequeueOptimisticCount, dequeueOvercommit,
  tailBlock,
  elements,    \* of each block: what its slots hold, Nil for no element
  next,        \* the link between the blocks
  dequeued,    \* emptyFlags (the set of slots) or elementsCompletelyDequeued
  pool,        \* the blocks that requisition_block can return
  index,       \* the headers of the block index, oldest first
  entry,       \* the entries that the headers share (implicit only)
  pr,          \* pr_blockIndexSlotsUsed and pr_blockIndexFront (explicit only)
  enq,         \* the call of the producer
  deq,         \* the calls of the consumers
  enqueued,    \* how many elements were enqueued
  alive        \* until the destructor

counters == <<tailIndex, headIndex, dequeueOptimisticCount, dequeueOvercommit>>
memory == <<elements, next, dequeued, pool>>
blockIndex == <<index, entry, pr>>
producer == <<tailBlock, enq, enqueued>>
vars == <<setup, counters, memory, blockIndex, producer, deq, alive>>

-----------------------------------------------------------------------------
isExplicit == setup.isExplicit

(* Arithmetic of index_t.                                                  *)
Index == 0 .. Modulus - 1
Slot == 0 .. BLOCK_SIZE - 1
Plus(a, b) == (a + b) % Modulus
Minus(a, b) == (a - b) % Modulus
circular_less_than(a, b) == Minus(a, b) > Modulus \div 2
BlockBase(i) == i - (i % BLOCK_SIZE)

(* The signed distance of two block bases, in blocks.                      *)
Offset(base, from) ==
  LET d == Minus(base, from)
  IN (IF d < Modulus \div 2 THEN d ELSE d - Modulus) \div BLOCK_SIZE

BlockOrNil == Block \cup {Nil}

(* The header in use, and the position of a block: so many blocks after    *)
(* the one whose position and base are known.                              *)
Header == index[Len(index)]
Position(size, at, base, i) == (at + Offset(BlockBase(i), base)) % size

(* Where a call that has come to i in a block stops: at the end of the     *)
(* block, or of the call.                                                  *)
StopIndex(i, end) ==
  LET next_block == Plus(BlockBase(i), BLOCK_SIZE)
  IN IF circular_less_than(end, next_block) THEN end ELSE next_block
Row(i, stop) == [j \in 1 .. Minus(stop, i) |-> Plus(i, j - 1)]
SlotsOf(i, stop) == {x % BLOCK_SIZE : x \in {Row(i, stop)[j] : j \in 1 .. Minus(stop, i)}}

NoCall == [pc |-> "idle"]
InitBase(s) ==
  /\ setup = s
  /\ tailIndex = s.start /\ headIndex = s.start
  /\ dequeueOptimisticCount = s.start /\ dequeueOvercommit = 0
  /\ elements = [b \in Block |-> [j \in Slot |-> Nil]]
  /\ enq = NoCall
  /\ deq = [c \in Consumer |-> NoCall]
  /\ enqueued = 0
  /\ alive = TRUE

-----------------------------------------------------------------------------
(* dequeue_bulk of at most max elements; dequeue is the same with max = 1. *)
At(c, l) == deq[c].pc = l
Go(c, call) == deq' = [deq EXCEPT ![c] = call]

Dequeue(c, max) ==
  /\ alive /\ At(c, "idle") /\ c \in setup.consumers
  /\ Go(c, [pc |-> "overcommit", max |-> max, tail |-> tailIndex])
  /\ UNCHANGED <<setup, counters, memory, blockIndex, producer, alive>>

LoadOvercommit(c) ==
  /\ At(c, "overcommit")
  /\ Go(c, [pc |-> "optimistic", max |-> deq[c].max, tail |-> deq[c].tail,
            over |-> dequeueOvercommit])
  /\ UNCHANGED <<setup, counters, memory, blockIndex, producer, alive>>

(* The first look, which spares the write when the queue appears empty.    *)
TestOptimistic(c) ==
  /\ At(c, "optimistic")
  /\ LET desired == Minus(deq[c].tail, Minus(dequeueOptimisticCount, deq[c].over))
     IN Go(c, IF circular_less_than(0, desired)
              THEN [pc |-> "reserve", over |-> deq[c].over,
                    want |-> IF desired < deq[c].max THEN desired ELSE deq[c].max]
              ELSE NoCall)
  /\ UNCHANGED <<setup, counters, memory, blockIndex, producer, alive>>

Reserve(c) ==
  /\ At(c, "reserve")
  /\ dequeueOptimisticCount' = Plus(dequeueOptimisticCount, deq[c].want)
  /\ Go(c, [pc |-> "recheck", want |-> deq[c].want,
            my |-> Minus(dequeueOptimisticCount, deq[c].over)])
  /\ UNCHANGED <<setup, tailIndex, headIndex, dequeueOvercommit, memory,
                 blockIndex, producer, alive>>

(* The second look, at a tail that is at least as new, decides how many    *)
(* elements there are for this call.                                       *)
Recheck(c) ==
  /\ At(c, "recheck")
  /\ LET want == deq[c].want
         found == Minus(tailIndex, deq[c].my)
         actual == IF ~circular_less_than(0, found) THEN 0
                   ELSE IF want < found THEN want ELSE found
     IN Go(c, IF actual < want
              THEN [pc |-> "return", count |-> actual, excess |-> want - actual]
              ELSE [pc |-> "claim", count |-> actual])
  /\ UNCHANGED <<setup, counters, memory, blockIndex, producer, alive>>

(* What was reserved and is not there is counted as overcommitted.         *)
Overcommit_Mutant(c) ==
  /\ At(c, "return")
  /\ dequeueOvercommit' = IF deq[c].count = 0 THEN Plus(dequeueOvercommit, deq[c].excess)
                          ELSE dequeueOvercommit
  /\ Go(c, IF deq[c].count = 0 THEN NoCall ELSE [pc |-> "claim", count |-> deq[c].count])
  /\ UNCHANGED <<setup, tailIndex, headIndex, dequeueOptimisticCount, memory,
                 blockIndex, producer, alive>>
Overcommit(c) ==
  /\ At(c, "return")
  /\ dequeueOvercommit' = Plus(dequeueOvercommit, deq[c].excess)
  /\ Go(c, IF deq[c].count = 0 THEN NoCall ELSE [pc |-> "claim", count |-> deq[c].count])
  /\ UNCHANGED <<setup, tailIndex, headIndex, dequeueOptimisticCount, memory,
                 blockIndex, producer, alive>>

Claim(c) ==
  /\ At(c, "claim")
  /\ headIndex' = Plus(headIndex, deq[c].count)
  /\ Go(c, [pc |-> "header", at |-> headIndex, end |-> Plus(headIndex, deq[c].count),
            got |-> <<>>])
  /\ UNCHANGED <<setup, tailIndex, dequeueOptimisticCount, dequeueOvercommit, memory,
                 blockIndex, producer, alive>>

Count(c) ==
  \/ LoadOvercommit(c) \/ TestOptimistic(c) \/ Reserve(c) \/ Recheck(c)
  \/ Overcommit(c) \/ Claim(c)

-----------------------------------------------------------------------------
(* The call then looks up the block index.  Each kind of sub-queue gives   *)
(* these steps the fields that it reads.  A header that was replaced does  *)
(* not change any more, so that its front can be read along with it.       *)
LoadHeader(c) ==
  /\ At(c, "header")
  /\ Go(c, [pc |-> "base", at |-> deq[c].at, end |-> deq[c].end, got |-> <<>>,
            header |-> Len(index), front |-> Header.front])
  /\ UNCHANGED <<setup, counters, memory, blockIndex, producer, alive>>

LoadBase(c, size, base) ==
  /\ At(c, "base")
  /\ Go(c, [pc |-> "block", at |-> deq[c].at, end |-> deq[c].end, got |-> <<>>,
            header |-> deq[c].header,
            pos |-> Position(size, deq[c].front, base, deq[c].at)])
  /\ UNCHANGED <<setup, counters, memory, blockIndex, producer, alive>>

LoadBlock(c, block) ==
  /\ At(c, "block")
  /\ Go(c, [pc |-> "read", at |-> deq[c].at, end |-> deq[c].end, got |-> deq[c].got,
            header |-> deq[c].header, pos |-> deq[c].pos, block |-> block])
  /\ UNCHANGED <<setup, counters, memory, blockIndex, producer, alive>>

(* The elements are moved out of the block and destroyed.                  *)
Stop(c) == StopIndex(deq[c].at, deq[c].end)
Expected(c) == Row(deq[c].at, Stop(c))
Contents(c) ==
  LET b == deq[c].block
  IN [j \in DOMAIN Expected(c) |->
        IF b \in Block THEN elements[b][Expected(c)[j] % BLOCK_SIZE] ELSE Nil]
MoveOut(c) ==
  elements' = [b \in Block |->
    IF b # deq[c].block THEN elements[b]
    ELSE [j \in Slot |-> IF j \in SlotsOf(deq[c].at, Stop(c)) THEN Nil ELSE elements[b][j]]]

(* The call goes on with the next block of its header, or returns.         *)
NextBlock(c, size, got) ==
  IF Stop(c) = deq[c].end THEN NoCall
  ELSE [pc |-> "block", at |-> Stop(c), end |-> deq[c].end, got |-> got,
        header |-> deq[c].header, pos |-> (deq[c].pos + 1) % size]

-----------------------------------------------------------------------------
(* The end of enqueue and enqueue_bulk: the elements are built, block by   *)
(* block up to the last one, and the new tail makes them visible.          *)
Calling(l) == enq.pc = l
LastBase == BlockBase(Plus(tailIndex, enq.n - 1))     \* the base of the last block
End == Plus(tailIndex, enq.n)
Base == Plus(enq.base, BLOCK_SIZE)                \* of the next block to find

Filling(first, start, end, n) ==
  /\ tailBlock' = IF tailIndex % BLOCK_SIZE = 0 /\ first # Nil THEN first ELSE start
  /\ enq' = [pc |-> "construct", n |-> n, at |-> tailIndex, last |-> end]

Construct ==
  /\ Calling("construct")
  /\ LET stop == StopIndex(enq.at, End)
     IN /\ elements' = [elements EXCEPT ![tailBlock] =
                          [j \in Slot |-> IF j \in SlotsOf(enq.at, stop)
                                          THEN BlockBase(enq.at) + j
                                          ELSE @[j]]]
        /\ IF tailBlock = enq.last
           THEN enq' = [pc |-> "publish", n |-> enq.n] /\ UNCHANGED tailBlock
           ELSE tailBlock' = next[tailBlock] /\ enq' = [enq EXCEPT !.at = stop]
  /\ UNCHANGED <<setup, counters, next, dequeued, pool, blockIndex, deq, enqueued, alive>>

Publish ==
  /\ Calling("publish")
  /\ tailIndex' = End
  /\ enq' = NoCall
  /\ enqueued' = enqueued + enq.n
  /\ UNCHANGED <<setup, headIndex, dequeueOptimisticCount, dequeueOvercommit, memory,
                 blockIndex, tailBlock, deq, alive>>

(* Is there room for the block at Base, with this head?                    *)
Full == ~circular_less_than(headIndex, Plus(Base, BLOCK_SIZE))
=============================================================================
