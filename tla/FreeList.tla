------------------------------ MODULE FreeList ------------------------------
(***************************************************************************)
(* Where the blocks of moodycamel::ConcurrentQueue come from and go to:    *)
(* requisition_block takes one from the initial pool, then from the free   *)
(* list, then from the heap; add_block_to_free_list gives one back.  The   *)
(* free list is a lock-free stack whose nodes carry a reference count, so  *)
(* that a node cannot go away, and come back, under a thread that is about *)
(* to unlink it.  One step is one access to a shared atomic.               *)
(***************************************************************************)
EXTENDS Integers, FiniteSets, Functions

CONSTANTS
  Thread,
  Block,
  Nil,                    \* nullptr
  InitialPool,            \* the blocks of initialBlockPool, a sequence
  SHOULD_BE_ON_FREELIST   \* the top bit of freeListRefs

initialBlockPoolSize == Cardinality(DOMAIN InitialPool)

ASSUME FreeListAssumption ==
  /\ IsFiniteSet(Thread) /\ IsFiniteSet(Block)
  /\ Nil \notin Block
  /\ initialBlockPoolSize \in Nat
  /\ InitialPool \in [1 .. initialBlockPoolSize -> Block] /\ IsInjective(InitialPool)
  /\ SHOULD_BE_ON_FREELIST \in Nat
  /\ SHOULD_BE_ON_FREELIST > Cardinality(Thread) + 1

VARIABLES
  freeListHead,
  freeListRefs, freeListNext,    \* of each block
  initialBlockPoolIndex,
  heap,                          \* the blocks that were never created
  inUse,                         \* how many sub-queues hold each block
  pc,                            \* where each thread is
  node,                          \* the block it adds, or holds a reference to
  head, next, refs,              \* its locals in try_get
  top,                           \* head in add_knowing_refcount_is_zero
  getting                        \* is it in requisition_block?

links == <<freeListHead, freeListRefs, freeListNext>>
supply == <<initialBlockPoolIndex, heap>>
locals == <<node, head, next, refs, top, getting>>
vars == <<links, supply, inUse, pc, locals>>

BlockOrNil == Block \cup {Nil}
Word == 2 * SHOULD_BE_ON_FREELIST
REFS_MASK(r) == r % SHOULD_BE_ON_FREELIST          \* r & REFS_MASK
Flagged(r) == r >= SHOULD_BE_ON_FREELIST

TypeOK ==
  /\ freeListHead \in BlockOrNil
  /\ freeListRefs \in [Block -> 0 .. Word - 1]
  /\ freeListNext \in [Block -> BlockOrNil]
  /\ initialBlockPoolIndex \in 0 .. initialBlockPoolSize + Cardinality(Thread)
  /\ heap \subseteq Block
  /\ inUse \in [Block -> Nat]
  /\ pc \in [Thread -> {"idle", "pool", "bump", "load", "refs", "grab", "next", "pop",
                        "release", "unref", "create", "top", "link", "one", "push", "retry"}]
  /\ node \in [Thread -> BlockOrNil] /\ head \in [Thread -> BlockOrNil]
  /\ next \in [Thread -> BlockOrNil] /\ top \in [Thread -> BlockOrNil]
  /\ refs \in [Thread -> 0 .. Word - 1]
  /\ getting \in [Thread -> BOOLEAN]

Init ==
  /\ freeListHead = Nil
  /\ freeListRefs = [b \in Block |-> 0]
  /\ freeListNext = [b \in Block |-> Nil]
  /\ initialBlockPoolIndex = 0
  /\ heap = Block \ Range(InitialPool)
  /\ inUse = [b \in Block |-> 0]
  /\ pc = [t \in Thread |-> "idle"]
  /\ node = [t \in Thread |-> Nil] /\ head = [t \in Thread |-> Nil]
  /\ next = [t \in Thread |-> Nil] /\ top = [t \in Thread |-> Nil]
  /\ refs = [t \in Thread |-> 0]
  /\ getting = [t \in Thread |-> FALSE]

-----------------------------------------------------------------------------
Goto(t, l) == pc' = [pc EXCEPT ![t] = l]
Handed(b) == [inUse EXCEPT ![b] = @ + 1]

(* Locals that are dead are reset, to keep the instances small.            *)
Back(t) ==
  /\ Goto(t, "idle")
  /\ node' = [node EXCEPT ![t] = Nil] /\ head' = [head EXCEPT ![t] = Nil]
  /\ next' = [next EXCEPT ![t] = Nil] /\ top' = [top EXCEPT ![t] = Nil]
  /\ refs' = [refs EXCEPT ![t] = 0]
  /\ getting' = [getting EXCEPT ![t] = FALSE]

(* requisition_block: the initial pool.  Its index may pass its size, by   *)
(* the threads that saw it below at the same time.                         *)
Requisition(t) ==
  /\ pc[t] = "idle"
  /\ Goto(t, "pool")
  /\ getting' = [getting EXCEPT ![t] = TRUE]
  /\ UNCHANGED <<links, supply, inUse, node, head, next, refs, top>>

TestPool(t) ==
  /\ pc[t] = "pool"
  /\ Goto(t, IF initialBlockPoolIndex >= initialBlockPoolSize THEN "load" ELSE "bump")
  /\ UNCHANGED <<links, supply, inUse, locals>>

TakeFromPool(t) ==
  /\ pc[t] = "bump"
  /\ initialBlockPoolIndex' = initialBlockPoolIndex + 1
  /\ IF initialBlockPoolIndex < initialBlockPoolSize
     THEN inUse' = Handed(InitialPool[initialBlockPoolIndex + 1]) /\ Back(t)
     ELSE Goto(t, "load") /\ UNCHANGED <<inUse, locals>>
  /\ UNCHANGED <<links, heap>>

(* ... and, last, the heap, where an allocation may fail.                  *)
Create(t) ==
  /\ pc[t] = "create"
  /\ \/ \E b \in heap :
          /\ heap' = heap \ {b} /\ inUse' = Handed(b)
          /\ UNCHANGED <<links, initialBlockPoolIndex>>
     \/ UNCHANGED <<links, supply, inUse>>
  /\ Back(t)

-----------------------------------------------------------------------------
(* FreeList::try_get                                                       *)
TryHead(t, h) ==
  /\ head' = [head EXCEPT ![t] = h]
  /\ node' = [node EXCEPT ![t] = Nil]
  /\ Goto(t, IF h = Nil THEN "create" ELSE "refs")

LoadHead(t) ==
  /\ pc[t] = "load"
  /\ TryHead(t, freeListHead)
  /\ UNCHANGED <<links, supply, inUse, next, refs, top, getting>>

LoadRefs_Mutant(t) ==
  /\ pc[t] = "refs"
  /\ Goto(t, "grab") /\ refs' = [refs EXCEPT ![t] = freeListRefs[head[t]]]
  /\ UNCHANGED <<links, supply, inUse, node, head, next, top, getting>>
LoadRefs(t) ==
  /\ pc[t] = "refs"
  /\ LET r == freeListRefs[head[t]]
     IN IF REFS_MASK(r) = 0
        THEN Goto(t, "load") /\ head' = [head EXCEPT ![t] = Nil] /\ UNCHANGED refs
        ELSE Goto(t, "grab") /\ refs' = [refs EXCEPT ![t] = r] /\ UNCHANGED head
  /\ UNCHANGED <<links, supply, inUse, node, next, top, getting>>

(* The compare-and-swap that counts one reference more.                    *)
Grab_Mutant(t) ==
  /\ pc[t] = "grab"
  /\ freeListRefs' = [freeListRefs EXCEPT ![head[t]] = refs[t] + 1]
  /\ node' = [node EXCEPT ![t] = head[t]] /\ Goto(t, "next")
  /\ head' = [head EXCEPT ![t] = Nil] /\ refs' = [refs EXCEPT ![t] = 0]
  /\ UNCHANGED <<freeListHead, freeListNext, supply, inUse, next, top, getting>>
Grab(t) ==
  /\ pc[t] = "grab"
  /\ IF freeListRefs[head[t]] = refs[t]
     THEN /\ freeListRefs' = [freeListRefs EXCEPT ![head[t]] = @ + 1]
          /\ node' = [node EXCEPT ![t] = head[t]]
          /\ Goto(t, "next")
     ELSE Goto(t, "load") /\ UNCHANGED <<freeListRefs, node>>
  /\ head' = [head EXCEPT ![t] = Nil] /\ refs' = [refs EXCEPT ![t] = 0]
  /\ UNCHANGED <<freeListHead, freeListNext, supply, inUse, next, top, getting>>

ReadNext(t) ==
  /\ pc[t] = "next"
  /\ next' = [next EXCEPT ![t] = freeListNext[node[t]]]
  /\ Goto(t, "pop")
  /\ UNCHANGED <<links, supply, inUse, node, head, refs, top, getting>>

(* The compare-and-swap that unlinks the node; when it fails head has the  *)
(* new head of the list.                                                   *)
Pop(t) ==
  /\ pc[t] = "pop"
  /\ IF freeListHead = node[t]
     THEN freeListHead' = next[t] /\ Goto(t, "release") /\ UNCHANGED head
     ELSE /\ head' = [head EXCEPT ![t] = freeListHead]
          /\ Goto(t, "unref") /\ UNCHANGED freeListHead
  /\ next' = [next EXCEPT ![t] = Nil]
  /\ UNCHANGED <<freeListRefs, freeListNext, supply, inUse, node, refs, top, getting>>

(* The reference of this thread goes, and the one of the list.             *)
Release_Mutant(t) ==
  /\ pc[t] = "release"
  /\ freeListRefs' = [freeListRefs EXCEPT ![node[t]] = (@ - 1) % Word]
  /\ inUse' = Handed(node[t])
  /\ Back(t)
  /\ UNCHANGED <<freeListHead, freeListNext, supply>>
Release(t) ==
  /\ pc[t] = "release"
  /\ freeListRefs' = [freeListRefs EXCEPT ![node[t]] = (@ - 2) % Word]
  /\ inUse' = Handed(node[t])
  /\ Back(t)
  /\ UNCHANGED <<freeListHead, freeListNext, supply>>

(* Too late for this node: whoever drops its last reference puts it back   *)
(* if it has been given back meanwhile.                                    *)
Unref_Mutant(t) ==
  /\ pc[t] = "unref"
  /\ freeListRefs' = [freeListRefs EXCEPT ![node[t]] = (@ - 1) % Word]
  /\ TryHead(t, head[t])
  /\ UNCHANGED <<freeListHead, freeListNext, supply, inUse, next, refs, top, getting>>
Unref(t) ==
  /\ pc[t] = "unref"
  /\ freeListRefs' = [freeListRefs EXCEPT ![node[t]] = (@ - 1) % Word]
  /\ IF freeListRefs[node[t]] = SHOULD_BE_ON_FREELIST + 1
     THEN Goto(t, "top") /\ UNCHANGED <<node, head>>
     ELSE TryHead(t, head[t])
  /\ UNCHANGED <<freeListHead, freeListNext, supply, inUse, next, refs, top, getting>>

-----------------------------------------------------------------------------
(* FreeList::add, of a block that a sub-queue has done with                *)
Add(t, b) ==
  /\ pc[t] = "idle" /\ inUse[b] > 0
  /\ inUse' = [inUse EXCEPT ![b] = @ - 1]
  /\ freeListRefs' = [freeListRefs EXCEPT ![b] = (@ + SHOULD_BE_ON_FREELIST) % Word]
  /\ IF freeListRefs[b] = 0
     THEN Goto(t, "top") /\ node' = [node EXCEPT ![t] = b]
     ELSE UNCHANGED <<pc, node>>
  /\ UNCHANGED <<freeListHead, freeListNext, supply, head, next, refs, top, getting>>

(* add_knowing_refcount_is_zero, whose caller is add or try_get            *)
Added(t) ==
  IF getting[t]
  THEN /\ TryHead(t, head[t]) /\ top' = [top EXCEPT ![t] = Nil]
       /\ UNCHANGED <<next, refs, getting>>
  ELSE Back(t)

LoadTop(t) ==
  /\ pc[t] = "top"
  /\ top' = [top EXCEPT ![t] = freeListHead]
  /\ Goto(t, "link")
  /\ UNCHANGED <<links, supply, inUse, node, head, next, refs, getting>>

Link(t) ==
  /\ pc[t] = "link"
  /\ freeListNext' = [freeListNext EXCEPT ![node[t]] = top[t]]
  /\ Goto(t, "one")
  /\ UNCHANGED <<freeListHead, freeListRefs, supply, inUse, locals>>

StoreOne(t) ==
  /\ pc[t] = "one"
  /\ freeListRefs' = [freeListRefs EXCEPT ![node[t]] = 1]
  /\ Goto(t, "push")
  /\ UNCHANGED <<freeListHead, freeListNext, supply, inUse, locals>>

Push_Mutant(t) ==
  /\ pc[t] = "push"
  /\ IF freeListHead = top[t]
     THEN freeListHead' = node[t] /\ Added(t)
     ELSE Goto(t, "retry") /\ UNCHANGED <<freeListHead, node, head, next, top, refs, getting>>
  /\ UNCHANGED <<freeListRefs, freeListNext, supply, inUse>>
Push(t) ==
  /\ pc[t] = "push"
  /\ IF freeListHead = top[t]
     THEN freeListHead' = node[t] /\ Added(t)
     ELSE /\ top' = [top EXCEPT ![t] = freeListHead]
          /\ Goto(t, "retry")
          /\ UNCHANGED <<freeListHead, node, head, next, refs, getting>>
  /\ UNCHANGED <<freeListRefs, freeListNext, supply, inUse>>

(* The push failed: the node is linked again now, if no other thread holds *)
(* a reference, or by the thread that drops the last one.                  *)
Retry(t) ==
  /\ pc[t] = "retry"
  /\ freeListRefs' =
       [freeListRefs EXCEPT ![node[t]] = (@ + SHOULD_BE_ON_FREELIST - 1) % Word]
  /\ IF freeListRefs[node[t]] = 1
     THEN Goto(t, "link") /\ UNCHANGED locals
     ELSE Added(t)
  /\ UNCHANGED <<freeListHead, freeListNext, supply, inUse>>

-----------------------------------------------------------------------------
Call(t) == Requisition(t) \/ \E b \in Block : Add(t, b)

Step(t) ==
  \/ TestPool(t) \/ TakeFromPool(t) \/ Create(t)
  \/ LoadHead(t) \/ LoadRefs(t) \/ Grab(t) \/ ReadNext(t) \/ Pop(t)
  \/ Release(t) \/ Unref(t)
  \/ LoadTop(t) \/ Link(t) \/ StoreOne(t) \/ Push(t) \/ Retry(t)

Next == \E t \in Thread : Call(t) \/ Step(t)

Spec == Init /\ [][Next]_vars

(* Threads that are in a call go on; nobody has to call.                   *)
FairSpec == Spec /\ \A t \in Thread : WF_vars(Step(t))

-----------------------------------------------------------------------------
Idle == \A t \in Thread : pc[t] = "idle"

Held == {b \in Block : inUse[b] > 0}

(* The blocks that can be reached from the head: the smallest set that has *)
(* the head and, with a block, the next one.                               *)
Closed(S) ==
  /\ freeListHead \in S \cup {Nil}
  /\ \A b \in S : freeListNext[b] \in S \cup {Nil}
OnList == {b \in Block : \A S \in SUBSET Block : Closed(S) => b \in S}

(* The threads that have counted a reference to b in try_get.              *)
Holders(b) == {t \in Thread : pc[t] \in {"next", "pop", "release", "unref"} /\ node[t] = b}

(* The threads that push b: there is never more than one of them.          *)
Pushers(b) == {t \in Thread : pc[t] \in {"top", "link", "one", "push", "retry"} /\ node[t] = b}

(* What the count of a block stands for: the reference of each holder, and *)
(* one more from the moment it is about to be pushed until it was popped   *)
(* and released.                                                           *)
CountsReferences ==
  \A b \in Block :
    LET listed == \/ b \in OnList
                  \/ \E t \in Pushers(b) : pc[t] \in {"push", "retry"}
                  \/ \E t \in Holders(b) : pc[t] = "release"
    IN /\ REFS_MASK(freeListRefs[b]) = Cardinality(Holders(b)) + (IF listed THEN 1 ELSE 0)
       /\ Cardinality(Pushers(b)) <= 1

(* assert at 1396: a node that was just popped is not marked to be put     *)
(* back, and nobody else pops it or has it.                                *)
PoppedOnce ==
  \A t \in Thread : pc[t] = "release" =>
    /\ ~Flagged(freeListRefs[node[t]])
    /\ node[t] \notin Held \cup OnList
    /\ \A u \in Holders(node[t]) : u # t => pc[u] # "release"

(* The counts of try_get and add_knowing_refcount_is_zero are sound.       *)
FreeListInv ==
  /\ TypeOK
  /\ CountsReferences
  /\ PoppedOnce

(* The stack is free of ABA: as long as the head is the node whose next a  *)
(* thread has read, that next is the second node.                          *)
NoABA ==
  \A t \in Thread : pc[t] = "pop" /\ freeListHead = node[t] => next[t] = freeListNext[node[t]]

(* No block is lost: when no call is under way each block that was created *)
(* is in use, on the list, or still in the initial pool.                   *)
NothingLost ==
  Idle =>
    Block \ heap = Held \cup OnList \cup
      {InitialPool[j] : j \in {i \in DOMAIN InitialPool : i > initialBlockPoolIndex}}

(* The pool hands each block to one sub-queue at a time.                   *)
Pool == INSTANCE BlockPool
          WITH holders <- [b \in Block |->
            inUse[b] + Cardinality({t \in Holders(b) : pc[t] = "release"})]
ImplementsPool == Pool!Spec

(* Lock-freedom: threads that make no new calls all finish theirs; none    *)
(* goes round in circles over a node whose count stays at zero.            *)
CallsEnd == <>[][\A t \in Thread : ~Call(t)]_vars => []<>Idle

=============================================================================
