------------------------------ MODULE SubQueue ------------------------------
(***************************************************************************)
(* A sub-queue of either kind with its producer and its consumers, up to   *)
(* its destructor.                                                         *)
(***************************************************************************)
EXTENDS ProducerBase, Functions

Explicit == INSTANCE ExplicitProducer
Implicit == INSTANCE ImplicitProducer

Init == Explicit!Init \/ Implicit!Init

(* ProducerBase::dequeue and dequeue_bulk call the one of their kind.      *)
Call(n) == IF isExplicit THEN Explicit!Enqueue(n) ELSE Implicit!Enqueue(n)
Produce == IF isExplicit THEN Explicit!Produce ELSE Implicit!Produce
Consume(c) == IF isExplicit THEN Explicit!Consume(c) ELSE Implicit!Consume(c)

Idle == enq = NoCall /\ \A c \in Consumer : deq[c] = NoCall

Destroyed == IF isExplicit THEN Explicit!Destroyed ELSE Implicit!Destroyed
FreedBlocks == IF isExplicit THEN Explicit!Ring ELSE Range(Implicit!Freed)

(* The destructor runs when the queue is destroyed, and no call is under   *)
(* way.                                                                    *)
Destroy ==
  /\ alive /\ Idle
  /\ alive' = FALSE
  /\ elements' = [b \in Block |->
       [j \in Slot |-> IF <<b, j>> \in Destroyed THEN Nil ELSE elements[b][j]]]
  /\ pool' = pool \cup FreedBlocks
  /\ UNCHANGED <<setup, counters, next, dequeued, blockIndex, producer, deq>>

Next ==
  \/ \E n \in setup.enqueue : Call(n)
  \/ Produce
  \/ \E c \in Consumer, max \in setup.dequeue : Dequeue(c, max)
  \/ \E c \in Consumer : Consume(c)
  \/ Destroy

Spec == Init /\ [][Next]_vars

(* A thread inside a call goes on; nobody has to call.                     *)
FairSpec == Spec /\ WF_vars(Produce) /\ \A c \in Consumer : WF_vars(Consume(c))

-----------------------------------------------------------------------------
TypeOK ==
  /\ alive \in BOOLEAN
  /\ {tailIndex, headIndex, dequeueOptimisticCount, dequeueOvercommit} \subseteq Index
  /\ tailBlock \in BlockOrNil
  /\ elements \in [Block -> [Slot -> Index \cup {Nil}]]
  /\ next \in [Block -> BlockOrNil]
  /\ dequeued \in [Block -> IF isExplicit THEN SUBSET Slot ELSE 0 .. BLOCK_SIZE]
  /\ pool \subseteq Block
  /\ pr.slots \in 0 .. Cardinality(Block) /\ pr.front \in 0 .. setup.indexSize
  /\ \A h \in 1 .. Len(index) : index[h].front \in -1 .. setup.indexSize - 1
  /\ enqueued \in 0 .. setup.elements

(* The two counters of reservations, which no step updates together with   *)
(* headIndex, agree with it: their difference is the head plus what the    *)
(* calls have reserved and not yet claimed or given up.  When a count is   *)
(* lost consumers see the queue empty for ever, or read past its tail.     *)
Reserved(c) ==
  CASE At(c, "recheck") -> deq[c].want
    [] At(c, "return") -> deq[c].count + deq[c].excess
    [] At(c, "claim") -> deq[c].count
    [] OTHER -> 0
ReservationsAddUp ==
  Minus(dequeueOptimisticCount, dequeueOvercommit)
    = Plus(headIndex, MapThenSumSet(Reserved, Consumer))

(* The block that a consumer found for its elements is the one that holds  *)
(* them, whatever the producer and the other consumers did to the index    *)
(* and to the blocks meanwhile; and it stays so until they are moved out.  *)
FindsItsElements == \A c \in Consumer : At(c, "read") => Contents(c) = Expected(c)

(* The lookups hit the entry of their block (the assert at 2858).          *)
FindsItsEntry ==
  \A c \in Consumer :
    /\ ~isExplicit /\ At(c, "block")
    => Implicit!EntryAt(c, deq[c].pos).key = BlockBase(deq[c].at)

(* A block goes back once: when it does it is in nobody's hands, neither   *)
(* in the pool nor where elements can still be found.                      *)
RecycledOnce ==
  /\ \A c \in Consumer : At(c, "recycle") =>
       /\ deq[c].block \notin pool
       /\ elements[deq[c].block] = [j \in Slot |-> Nil]
  /\ \A b \in pool : elements[b] = [j \in Slot |-> Nil]

(* The counters, the block index and the blocks of a sub-queue fit         *)
(* together through any interleaving of its producer and its consumers.    *)
SubQueueInv ==
  /\ TypeOK
  /\ ReservationsAddUp
  /\ FindsItsEntry
  /\ RecycledOnce

(* No leak and no double free: the destructor, at whatever moment it may   *)
(* run, frees exactly the blocks that are not in the pool, each once, and  *)
(* destroys exactly the elements that nobody took.                         *)
DestructorIsExact ==
  alive /\ Idle =>
    /\ FreedBlocks = setup.blocks \ pool
    /\ ~isExplicit => IsInjective(Implicit!Freed)
    /\ Destroyed = {p \in Block \X Slot : elements[p[1]][p[2]] # Nil}

(* The sub-queue is a queue.                                               *)
Taken(c) ==
  IF "got" \in DOMAIN deq[c]
  THEN LET rest == IF At(c, "unlink") \/ At(c, "recycle") THEN Stop(c) ELSE deq[c].at
       IN deq[c].got \o Row(rest, deq[c].end)
  ELSE <<>>
Queue == INSTANCE ElementQueue
           WITH first <- headIndex, last <- tailIndex, hand <- [c \in Consumer |-> Taken(c)]
ImplementsQueue == Queue!Spec

(* What is enqueued comes out: overcommitted reservations do not hide it   *)
(* for ever from a consumer that calls again and again while the others do *)
(* not call.  (Two that both do can: each sees the other's reservation.)   *)
Polls(c) == []<><<\E max \in setup.dequeue : Dequeue(c, max)>>_vars
Drains ==
  \A c \in Consumer :
    Polls(c) /\ <>[](\A x \in Consumer \ {c} : deq[x] = NoCall)
      => []<>(~alive \/ headIndex = tailIndex)
=============================================================================
