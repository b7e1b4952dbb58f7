-------------------------- MODULE ImplicitProducer --------------------------
(***************************************************************************)
(* The sub-queue of a thread that enqueues without a token.  Its blocks    *)
(* come from the pool and go back as soon as their last element is out.    *)
(* An index, from which the consumers read, tells where the blocks are: a  *)
(* ring of entries (key, value), which a larger header shares with the     *)
(* smaller one that it replaces.                                           *)
(***************************************************************************)
EXTENDS ProducerBase

INVALID_BLOCK_BASE == 1
Junk == "junk"        \* the value of an entry before the first store

capacity(h) == Cardinality(DOMAIN h.slots)

(* Header sizes double; the entries of the old header come first, from     *)
(* the oldest to the newest, then fresh ones.                              *)
new_block_index ==
  LET c == capacity(Header)
  IN /\ index' = Append(index,
          [front |-> c - 1,
           slots |-> [j \in 0 .. 2 * c - 1 |->
                        IF j < c THEN Header.slots[(Header.front + 1 + j) % c] ELSE j]])
     /\ entry' = [e \in 0 .. 2 * c - 1 |->
                    IF e \in DOMAIN entry THEN entry[e]
                    ELSE [key |-> INVALID_BLOCK_BASE, value |-> Junk]]

(* get_block_index_entry_for_index, for the producer and the destructor    *)
EntryFor(i) ==
  Header.slots[Position(capacity(Header), Header.front, entry[Header.slots[Header.front]].key, i)]

(* The index of a sub-queue whose first k blocks are behind it.            *)
Init ==
  \E s \in {x \in Setups : ~x.isExplicit} :
    LET k == s.start \div BLOCK_SIZE
        behind(j) == {m \in 0 .. k - 1 : m % INITIAL_INDEX_SIZE = j}
    IN /\ InitBase(s)
       /\ next = [b \in Block |-> Nil]
       /\ dequeued = [b \in Block |-> 0]
       /\ pool = s.blocks
       /\ tailBlock \in IF k = 0 THEN {Nil} ELSE s.blocks
       /\ index = <<[front |-> (k - 1) % INITIAL_INDEX_SIZE,
                     slots |-> [j \in 0 .. INITIAL_INDEX_SIZE - 1 |-> j]]>>
       /\ entry = [j \in 0 .. INITIAL_INDEX_SIZE - 1 |->
                     IF behind(j) = {} THEN [key |-> INVALID_BLOCK_BASE, value |-> Junk]
                     ELSE [key |-> Max(behind(j)) * BLOCK_SIZE, value |-> Nil]]
       /\ pr = [slots |-> 0, front |-> 0]

-----------------------------------------------------------------------------
(* reset_empty *)
Reset(b) == [dequeued EXCEPT ![b] = 0]

(* enqueue (one element) and enqueue_bulk: a block for each block base     *)
(* that the elements reach.                                                *)
Enqueue(n) ==
  /\ alive /\ Calling("idle") /\ enqueued + n <= setup.elements
  /\ LET base == BlockBase(Minus(tailIndex, 1))
     IN IF base = BlockBase(Plus(tailIndex, n - 1))
        THEN Filling(Nil, tailBlock, tailBlock, n)
        ELSE /\ enq' = [pc |-> "room", n |-> n, base |-> base, first |-> Nil,
                        start |-> tailBlock]
             /\ UNCHANGED tailBlock
  /\ UNCHANGED <<setup, counters, memory, blockIndex, deq, enqueued, alive>>

Room ==
  /\ Calling("room")
  /\ enq' = [enq EXCEPT !.pc = IF Full THEN "undo" ELSE "insert"]
  /\ UNCHANGED <<setup, counters, memory, blockIndex, tailBlock, deq, enqueued, alive>>

(* insert_block_index_entry: the entry after the tail, if it is free, or   *)
(* else the first fresh one of a larger index, if there is memory for it.  *)
newTail == (Header.front + 1) % capacity(Header)
idxEntry == Header.slots[newTail]
Insert_Mutant ==
  /\ Calling("insert")
  /\ entry' = [entry EXCEPT ![idxEntry].key = Base]
  /\ enq' = [enq EXCEPT !.pc = "tail"]
  /\ UNCHANGED <<setup, counters, memory, index, pr, tailBlock, deq, enqueued, alive>>
Insert ==
  /\ Calling("insert")
  /\ IF entry[idxEntry].key = INVALID_BLOCK_BASE \/ entry[idxEntry].value = Nil
     THEN entry' = [entry EXCEPT ![idxEntry].key = Base] /\ enq' = [enq EXCEPT !.pc = "tail"]
     ELSE enq' = [enq EXCEPT !.pc = "grow"] /\ UNCHANGED entry
  /\ UNCHANGED <<setup, counters, memory, index, pr, tailBlock, deq, enqueued, alive>>

Grow ==
  /\ Calling("grow")
  /\ IF 2 * capacity(Header) <= setup.indexSize
     THEN new_block_index /\ enq' = [enq EXCEPT !.pc = "insert"]
     ELSE enq' = [enq EXCEPT !.pc = "undo"] /\ UNCHANGED <<index, entry>>
  /\ UNCHANGED <<setup, counters, memory, pr, tailBlock, deq, enqueued, alive>>

StoreTail ==
  /\ Calling("tail")
  /\ index' = [index EXCEPT ![Len(index)].front = newTail]
  /\ enq' = [enq EXCEPT !.pc = "take"]
  /\ UNCHANGED <<setup, counters, memory, entry, pr, tailBlock, deq, enqueued, alive>>

(* requisition_block; without a block the entry is taken back.  The new    *)
(* block is stored in its entry and chained to the block before it.        *)
TakeBlock ==
  /\ Calling("take")
  /\ \/ \E b \in pool :
          /\ pool' = pool \ {b}
          /\ dequeued' = Reset(b)
          /\ entry' = [entry EXCEPT ![Header.slots[Header.front]].value = b]
          /\ next' = IF enq.n = 1 THEN next
                     ELSE [x \in Block |->
                             IF x = b THEN Nil
                             ELSE IF x = tailBlock
                                     /\ (tailIndex % BLOCK_SIZE # 0 \/ enq.first # Nil)
                                  THEN b ELSE next[x]]
          /\ LET first == IF enq.first = Nil THEN b ELSE enq.first
             IN IF Base = LastBase
                THEN Filling(first, enq.start, b, enq.n)
                ELSE /\ enq' = [enq EXCEPT !.pc = "room", !.base = Base, !.first = first]
                     /\ tailBlock' = b
          /\ UNCHANGED index
     \/ /\ pool = {}
        /\ index' = [index EXCEPT ![Len(index)].front = (@ - 1) % capacity(Header)]
        /\ entry' = [entry EXCEPT ![Header.slots[Header.front]].value = Nil]
        /\ enq' = [enq EXCEPT !.pc = "undo"]
        /\ UNCHANGED <<dequeued, next, pool, tailBlock>>
  /\ UNCHANGED <<setup, counters, elements, pr, deq, enqueued, alive>>

(* All or nothing: the entries of the blocks that the call has got are     *)
(* taken back one by one, then the blocks themselves.                      *)
UndoBase == BlockBase(Minus(tailIndex, 1))
Undo_Mutant ==
  /\ Calling("undo")
  /\ enq' = [pc |-> "free", n |-> enq.n, first |-> enq.first, start |-> enq.start, at |-> enq.first,
             base |-> UndoBase]
  /\ UNCHANGED <<setup, counters, memory, blockIndex, tailBlock, deq, enqueued, alive>>
Undo ==
  /\ Calling("undo")
  /\ enq' = [pc |-> IF enq.first = Nil THEN "free" ELSE "unindex", n |-> enq.n,
             first |-> enq.first, start |-> enq.start, at |-> enq.first, base |-> UndoBase]
  /\ UNCHANGED <<setup, counters, memory, blockIndex, tailBlock, deq, enqueued, alive>>

Unindex ==
  /\ Calling("unindex")
  /\ entry' = [entry EXCEPT ![EntryFor(Base)].value = Nil]
  /\ index' = [index EXCEPT ![Len(index)].front = (@ - 1) % capacity(Header)]
  /\ enq' = [enq EXCEPT !.pc = IF next[enq.at] = Nil THEN "free" ELSE "unindex",
                        !.at = next[enq.at], !.base = Base]
  /\ UNCHANGED <<setup, counters, memory, pr, tailBlock, deq, enqueued, alive>>

Chain(b) ==
  LET reach[n \in 0 .. Cardinality(Block)] ==
        IF n = 0 THEN {b} \ {Nil}
        ELSE reach[n - 1] \cup ({next[x] : x \in reach[n - 1]} \ {Nil})
  IN reach[Cardinality(Block)]

FreeChain ==
  /\ Calling("free")
  /\ pool' = pool \cup Chain(enq.first)
  /\ tailBlock' = enq.start
  /\ enq' = NoCall
  /\ UNCHANGED <<setup, counters, elements, next, dequeued, blockIndex, deq, enqueued,
                 alive>>

Produce ==
  \/ Room \/ Insert \/ Grow \/ StoreTail \/ TakeBlock \/ Undo \/ Unindex \/ FreeChain
  \/ Construct \/ Publish

-----------------------------------------------------------------------------
(* dequeue and dequeue_bulk, once the elements are claimed                 *)
Opened(c) == index[deq[c].header]
EntryAt(c, pos) == entry[Opened(c).slots[pos]]

(* set_empty and set_many_empty: the count of the elements that are out.   *)
SetEmpty_Mutant(c) ==
  /\ At(c, "read")
  /\ MoveOut(c)
  /\ LET got == deq[c].got \o Contents(c)
         count == dequeued[deq[c].block] + Len(Expected(c))
     IN /\ dequeued' = [dequeued EXCEPT ![deq[c].block] = count]
        /\ Go(c, IF Stop(c) % BLOCK_SIZE = 0
                 THEN [deq[c] EXCEPT !.pc = "unlink", !.got = got]
                 ELSE NextBlock(c, capacity(Opened(c)), got))
  /\ UNCHANGED <<setup, counters, next, pool, blockIndex, producer, alive>>
SetEmpty(c) ==
  /\ At(c, "read")
  /\ MoveOut(c)
  /\ LET got == deq[c].got \o Contents(c)
         count == dequeued[deq[c].block] + Len(Expected(c))
     IN /\ dequeued' = [dequeued EXCEPT ![deq[c].block] = count]
        /\ Go(c, IF count = BLOCK_SIZE
                 THEN [deq[c] EXCEPT !.pc = "unlink", !.got = got]
                 ELSE NextBlock(c, capacity(Opened(c)), got))
  /\ UNCHANGED <<setup, counters, next, pool, blockIndex, producer, alive>>

(* Whoever takes the last element of a block takes the block off the index *)
(* and gives it back.                                                      *)
Unlink(c) ==
  /\ At(c, "unlink")
  /\ entry' = [entry EXCEPT ![Opened(c).slots[deq[c].pos]].value = Nil]
  /\ Go(c, [deq[c] EXCEPT !.pc = "recycle"])
  /\ UNCHANGED <<setup, counters, memory, index, pr, producer, alive>>

Recycle(c) ==
  /\ At(c, "recycle")
  /\ pool' = pool \cup {deq[c].block}
  /\ Go(c, NextBlock(c, capacity(Opened(c)), deq[c].got))
  /\ UNCHANGED <<setup, counters, elements, next, dequeued, blockIndex, producer, alive>>

Consume(c) ==
  \/ Count(c)
  \/ LoadHeader(c)
  \/ At(c, "base") /\ LoadBase(c, capacity(Opened(c)), EntryAt(c, deq[c].front).key)
  \/ At(c, "block") /\ LoadBlock(c, EntryAt(c, deq[c].pos).value)
  \/ SetEmpty(c) \/ Unlink(c) \/ Recycle(c)

-----------------------------------------------------------------------------
(* ~ImplicitProducer, when every call has returned: the blocks from the    *)
(* head on are found by the index, and freed as the walk leaves them; the  *)
(* last one is the tail block, which is there also when the queue is empty *)
(* but the tail is inside a block.                                         *)
Walked == Row(headIndex, tailIndex)
BlockAt(j) == entry[EntryFor(Walked[j])].value
Left == {j \in DOMAIN Walked : j # 1 /\ Walked[j] % BLOCK_SIZE = 0}

Freed ==
  [j \in Left \cup (IF tailBlock # Nil /\ (headIndex # tailIndex \/ tailIndex % BLOCK_SIZE # 0)
                    THEN {0} ELSE {})
     |-> IF j = 0 THEN tailBlock ELSE BlockAt(j - 1)]

(* The slots whose elements it destroys.                                   *)
Destroyed ==
  {<<BlockAt(j), Walked[j] % BLOCK_SIZE>> : j \in DOMAIN Walked}
=============================================================================
