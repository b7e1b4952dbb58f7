-------------------------- MODULE ExplicitProducer --------------------------
(***************************************************************************)
(* The sub-queue of a producer token.  It keeps its blocks in a ring and   *)
(* uses a block again when it comes to it and finds it empty; only then    *)
(* does it take a new one.  The index is a ring of pairs (base, block); a  *)
(* larger one is a copy.                                                   *)
(***************************************************************************)
EXTENDS ProducerBase

Empty(b) == dequeued[b] = Slot      \* is_empty: every flag is set
Size(h) == Cardinality(DOMAIN h.slots)
Pair(base, block) == [base |-> base, block |-> block]

(* A sub-queue whose first k blocks are behind it has one block left, with *)
(* which it filled its index.                                              *)
Init ==
  \E s \in {x \in Setups : x.isExplicit} : \E b \in s.blocks :
    LET k == s.start \div BLOCK_SIZE
        behind(j) == {m \in 0 .. k - 1 : m % INITIAL_INDEX_SIZE = j}
    IN /\ InitBase(s)
       /\ dequeued = [x \in Block |-> Slot]
       /\ entry = <<>>
       /\ tailBlock = IF k = 0 THEN Nil ELSE b
       /\ next = [x \in Block |-> IF x = tailBlock THEN b ELSE Nil]
       /\ pool = s.blocks \ {tailBlock}
       /\ index = <<[front |-> IF k = 0 THEN -1 ELSE (k - 1) % INITIAL_INDEX_SIZE,
                     slots |-> [j \in 0 .. INITIAL_INDEX_SIZE - 1 |->
                                  IF behind(j) = {} THEN Pair(0, Nil)
                                  ELSE Pair(Max(behind(j)) * BLOCK_SIZE, b)]]>>
       /\ pr = [slots |-> IF k = 0 THEN 0 ELSE 1, front |-> k % INITIAL_INDEX_SIZE]

-----------------------------------------------------------------------------
(* enqueue and enqueue_bulk                                                *)
Single == enq.n = 1

Enqueue(n) ==
  /\ alive /\ Calling("idle") /\ enqueued + n <= setup.elements
  /\ LET base == BlockBase(Minus(tailIndex, 1))
     IN IF base = BlockBase(Plus(tailIndex, n - 1))
        THEN Filling(Nil, tailBlock, tailBlock, n)
        ELSE /\ enq' = [pc |-> "reuse", n |-> n, base |-> base, first |-> Nil,
                        start |-> tailBlock, pr |-> pr]
             /\ UNCHANGED tailBlock
  /\ UNCHANGED <<setup, counters, memory, blockIndex, deq, enqueued, alive>>

(* A block at the next base: its pair in the index, which no consumer is   *)
(* shown before front is stored.                                           *)
First(b) == IF enq.first = Nil THEN b ELSE enq.first
PutPair(b) == index' = [index EXCEPT ![Len(index)].slots[pr.front] = Pair(Base, b)]
NextFront == (pr.front + 1) % Size(Header)
Found(b, slots, more) ==
  /\ tailBlock' = b
  /\ PutPair(b)
  /\ pr' = [slots |-> slots, front |-> NextFront]
  /\ enq' = [enq EXCEPT !.pc = IF Base = LastBase THEN "store" ELSE more,
                        !.base = Base, !.first = First(b)]

Reusable_Mutant(b) == b # enq.first
Reusable(b) == b # enq.first /\ Empty(b)
Reuse ==
  /\ Calling("reuse")
  /\ IF tailBlock # Nil /\ Reusable(next[tailBlock])
     THEN /\ Found(next[tailBlock], pr.slots, "reuse")
          /\ dequeued' = IF Single THEN [dequeued EXCEPT ![next[tailBlock]] = {}] ELSE dequeued
     ELSE enq' = [enq EXCEPT !.pc = "room"] /\ UNCHANGED <<tailBlock, index, pr, dequeued>>
  /\ UNCHANGED <<setup, counters, elements, next, pool, entry, deq, enqueued, alive>>

(* A failed enqueue_bulk undoes its changes, but the ring keeps the blocks *)
(* that it got.                                                            *)
Fail ==
  /\ pr' = enq.pr
  /\ tailBlock' = IF enq.start = Nil THEN enq.first ELSE enq.start
  /\ enq' = NoCall

Room ==
  /\ Calling("room")
  /\ IF Full
     THEN Fail
     ELSE /\ enq' = [enq EXCEPT !.pc = IF pr.slots = Size(Header) THEN "grow" ELSE "take"]
          /\ UNCHANGED <<pr, tailBlock>>
  /\ UNCHANGED <<setup, counters, memory, index, entry, deq, enqueued, alive>>

(* new_block_index: the pairs in use, from the oldest on, are copied into  *)
(* an index of twice the size; a call that fails later keeps it.           *)
Grow ==
  /\ Calling("grow")
  /\ IF 2 * Size(Header) <= setup.indexSize
     THEN /\ index' = Append(index,
               [front |-> enq.pr.slots - 1,
                slots |-> [s \in 0 .. 2 * Size(Header) - 1 |->
                             IF s < pr.slots
                             THEN Header.slots[(pr.front - pr.slots + s) % Size(Header)]
                             ELSE Pair(0, Nil)]])
          /\ pr' = [pr EXCEPT !.front = pr.slots]
          /\ enq' = [enq EXCEPT !.pc = "take", !.pr.front = enq.pr.slots]
          /\ UNCHANGED tailBlock
     ELSE Fail /\ UNCHANGED index
  /\ UNCHANGED <<setup, counters, memory, entry, deq, enqueued, alive>>

(* requisition_block; the new block goes into the ring after the tail.     *)
TakeBlock ==
  /\ Calling("take")
  /\ \/ \E b \in pool :
          /\ pool' = pool \ {b}
          /\ dequeued' = [dequeued EXCEPT ![b] = IF Single THEN {} ELSE Slot]
          /\ next' = IF tailBlock = Nil THEN [next EXCEPT ![b] = b]
                     ELSE [next EXCEPT ![b] = next[tailBlock], ![tailBlock] = b]
          /\ Found(b, pr.slots + 1, "room")
     \/ pool = {} /\ Fail /\ UNCHANGED <<index, memory>>
  /\ UNCHANGED <<setup, counters, elements, entry, deq, enqueued, alive>>

(* The blocks of the call, first to tailBlock.                             *)
Fresh ==
  LET reach[n \in 0 .. Cardinality(Block)] ==
        IF n = 0 THEN {enq.first}
        ELSE reach[n - 1] \cup {next[x] : x \in reach[n - 1] \ {tailBlock}}
  IN reach[Cardinality(Block)]

(* All blocks are there: they are no longer empty, and front shows them.   *)
StoreFront ==
  /\ Calling("store")
  /\ dequeued' = [b \in Block |-> IF b \in Fresh THEN {} ELSE dequeued[b]]
  /\ index' = [index EXCEPT ![Len(index)].front = (pr.front - 1) % Size(Header)]
  /\ Filling(enq.first, enq.start, tailBlock, enq.n)
  /\ UNCHANGED <<setup, counters, elements, next, pool, entry, pr, deq, enqueued, alive>>

Produce == Reuse \/ Room \/ Grow \/ TakeBlock \/ StoreFront \/ Construct \/ Publish

-----------------------------------------------------------------------------
(* dequeue and dequeue_bulk, once the elements are claimed                 *)
Opened(c) == index[deq[c].header]

(* set_empty and set_many_empty set the flags of the elements.             *)
SetEmpty(c) ==
  /\ At(c, "read")
  /\ MoveOut(c)
  /\ dequeued' = [dequeued EXCEPT ![deq[c].block] = @ \cup SlotsOf(deq[c].at, Stop(c))]
  /\ Go(c, NextBlock(c, Size(Opened(c)), deq[c].got \o Contents(c)))
  /\ UNCHANGED <<setup, counters, next, pool, blockIndex, producer, alive>>

Consume(c) ==
  \/ Count(c)
  \/ LoadHeader(c)
  \/ At(c, "base") /\ LoadBase(c, Size(Opened(c)), Opened(c).slots[deq[c].front].base)
  \/ At(c, "block") /\ LoadBlock(c, Opened(c).slots[deq[c].pos].block)
  \/ SetEmpty(c)

-----------------------------------------------------------------------------
(* ~ExplicitProducer, when every call has returned: the whole ring.  The   *)
(* block that the head is inside of is found by the index.                 *)
Ring ==
  LET from[n \in 0 .. Cardinality(Block)] ==
        IF n = 0 THEN {tailBlock} \ {Nil}
        ELSE from[n - 1] \cup ({next[x] : x \in from[n - 1]} \ {Nil})
  IN from[Cardinality(Block)]

HalfDequeuedBlock ==
  IF headIndex % BLOCK_SIZE = 0 THEN Nil
  ELSE LET at(j) == Header.slots[(pr.front - pr.slots + j) % Size(Header)]
           later(j) == ~circular_less_than(Plus(at(j).base, BLOCK_SIZE), headIndex)
       IN at(Min({j \in 0 .. Size(Header) - 1 : later(j)})).block

Destroyed ==
  LET lastValid == IF tailIndex % BLOCK_SIZE = 0 THEN BLOCK_SIZE ELSE tailIndex % BLOCK_SIZE
  IN {p \in Ring \X Slot :
        /\ ~Empty(p[1])
        /\ p[1] = HalfDequeuedBlock => p[2] >= headIndex % BLOCK_SIZE
        /\ p[1] = tailBlock => p[2] < lastValid}
=============================================================================
