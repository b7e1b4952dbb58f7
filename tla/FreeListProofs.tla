--------------------------- MODULE FreeListProofs ---------------------------
(* Theorems about FreeList, for any number of threads and blocks and any   *)
(* initial pool.                                                           *)
EXTENDS FreeList, FiniteSetTheorems, TLAPS

(* A block is in one place at a time: never handed out ("fresh"), in use,  *)
(* given back while other threads still hold references ("waiting"), with  *)
(* the one thread that links it and may not be seen by others ("linking")  *)
(* or may ("pushing"), on the list, or with the thread that popped it.     *)
Places == {"fresh", "used", "waiting", "linking", "pushing", "listed", "popped"}

(* What the place of a block adds to the references in its count.          *)
Weight(p) ==
  CASE p \in {"fresh", "used"} -> 0
    [] p \in {"waiting", "linking"} -> SHOULD_BE_ON_FREELIST
    [] p \in {"pushing", "listed", "popped"} -> 1

Linking == {"top", "link", "one"}
Pushing == {"push", "retry"}
Holding == {"next", "pop", "release", "unref"}
Busy(t) == pc[t] \in Linking \cup Pushing \cup {"release"}
At(t) ==
  IF pc[t] \in Linking THEN "linking" ELSE IF pc[t] \in Pushing THEN "pushing" ELSE "popped"

Pooled == {InitialPool[j] : j \in {i \in DOMAIN InitialPool : i > initialBlockPoolIndex}}
Bumping == {t \in Thread : pc[t] = "bump"}

(* Block b is in place p, and its count is right for that.                 *)
Placed(p, b) ==
  /\ b \in heap \cup Pooled <=> p = "fresh"
  /\ inUse[b] = IF p = "used" THEN 1 ELSE 0
  /\ b \in OnList <=> p = "listed"
  /\ freeListRefs[b] = Cardinality(Holders(b)) + Weight(p)
  /\ p \in {"fresh", "linking"} => Holders(b) = {}
  /\ p = "waiting" => Holders(b) # {}
  /\ p \in {"linking", "pushing", "popped"} =>
       \E t \in Thread : Busy(t) /\ node[t] = b /\ At(t) = p

BlocksPlaced(place) ==
  /\ place \in [Block -> Places]
  /\ \A b \in Block : Placed(place[b], b)
  /\ \A t \in Thread : Busy(t) => node[t] \in Block /\ place[node[t]] = At(t)
  /\ \A t, u \in Thread : Busy(t) /\ Busy(u) /\ node[t] = node[u] => t = u

(* What a thread has in its locals.                                        *)
LocalsRight(t) ==
  /\ pc[t] \in Holding => node[t] \in Block
  /\ pc[t] \in {"refs", "grab"} => head[t] \in Block
  /\ pc[t] = "grab" => REFS_MASK(refs[t]) # 0
  /\ pc[t] = "pop" => next[t] = freeListNext[node[t]]
  /\ pc[t] \in {"one", "push"} => top[t] = freeListNext[node[t]]

(* No two blocks of the list have the same next, and none leads back to    *)
(* the head.                                                               *)
OneWay ==
  /\ \A b \in OnList : freeListNext[b] # freeListHead
  /\ \A b, c \in OnList : freeListNext[b] = freeListNext[c] /\ b # c => freeListNext[b] = Nil

(* The index of the initial pool passes its size only by the threads that  *)
(* saw it below.                                                           *)
PoolInv ==
  /\ heap \cap Range(InitialPool) = {}
  /\ initialBlockPoolIndex >= initialBlockPoolSize =>
       initialBlockPoolIndex + Cardinality(Bumping) <= initialBlockPoolSize + Cardinality(Thread)

IInv ==
  /\ TypeOK
  /\ PoolInv
  /\ OneWay
  /\ \A t \in Thread : LocalsRight(t)
  /\ \E place \in [Block -> Places] : BlocksPlaced(place)

-----------------------------------------------------------------------------
(* Numbers.                                                                *)
LEMMA Sizes ==
  /\ SHOULD_BE_ON_FREELIST \in Nat /\ Cardinality(Thread) \in Nat
  /\ SHOULD_BE_ON_FREELIST > Cardinality(Thread) + 1
  /\ initialBlockPoolSize \in Nat
  /\ Word = SHOULD_BE_ON_FREELIST + SHOULD_BE_ON_FREELIST
  BY FreeListAssumption, FS_CardinalityType DEF Word

LEMMA SmallMod ==
  ASSUME NEW k \in Nat, NEW m \in Nat, k < m
  PROVE  k % m = k
  OBVIOUS

LEMMA Masks ==
  ASSUME NEW k \in Nat, k < SHOULD_BE_ON_FREELIST
  PROVE  /\ REFS_MASK(k) = k
         /\ REFS_MASK(k + SHOULD_BE_ON_FREELIST) = k
<1>1. SHOULD_BE_ON_FREELIST \in Nat
  BY Sizes
<1>2. k % SHOULD_BE_ON_FREELIST = k
  BY <1>1, SmallMod
<1>3. (k + SHOULD_BE_ON_FREELIST) % SHOULD_BE_ON_FREELIST = k
  BY <1>1
<1> QED
  BY <1>2, <1>3 DEF REFS_MASK

LEMMA Weights ==
  /\ Weight("fresh") = 0 /\ Weight("used") = 0
  /\ Weight("waiting") = SHOULD_BE_ON_FREELIST
  /\ Weight("linking") = SHOULD_BE_ON_FREELIST
  /\ Weight("pushing") = 1 /\ Weight("listed") = 1 /\ Weight("popped") = 1
  BY DEF Weight

-----------------------------------------------------------------------------
(* The references of a block.                                              *)
LEMMA HoldersFinite ==
  ASSUME NEW b
  PROVE  /\ IsFiniteSet(Holders(b)) /\ Cardinality(Holders(b)) \in Nat
         /\ Cardinality(Holders(b)) <= Cardinality(Thread)
         /\ Cardinality(Holders(b)) = 0 <=> Holders(b) = {}
<1>1. Holders(b) \in SUBSET Thread
  BY DEF Holders
<1> QED
  BY <1>1, FreeListAssumption, FS_Subset, FS_CardinalityType, FS_EmptySet

OthersStay(t) ==
  \A u \in Thread \ {t} :
    /\ pc'[u] = pc[u] /\ node'[u] = node[u] /\ head'[u] = head[u]
    /\ next'[u] = next[u] /\ refs'[u] = refs[u] /\ top'[u] = top[u]

LEMMA HoldersKept ==
  ASSUME NEW t \in Thread, OthersStay(t), NEW b,
         t \in Holders(b)' <=> t \in Holders(b)
  PROVE  Holders(b)' = Holders(b)
  BY DEF OthersStay, Holders

LEMMA HoldersGrow ==
  ASSUME NEW t \in Thread, OthersStay(t), NEW b,
         t \notin Holders(b), t \in Holders(b)'
  PROVE  Cardinality(Holders(b)') = Cardinality(Holders(b)) + 1 /\ Holders(b)' # {}
<1>1. Holders(b)' = Holders(b) \cup {t}
  BY DEF OthersStay, Holders
<1> QED
  BY <1>1, HoldersFinite, FS_AddElement

LEMMA HoldersShrink ==
  ASSUME NEW t \in Thread, OthersStay(t), NEW b,
         t \in Holders(b), t \notin Holders(b)'
  PROVE  Cardinality(Holders(b)') = Cardinality(Holders(b)) - 1
<1>1. Holders(b)' = Holders(b) \ {t}
  BY DEF OthersStay, Holders
<1> QED
  BY <1>1, HoldersFinite, FS_RemoveElement

-----------------------------------------------------------------------------
(* The list.                                                               *)
LEMMA ListClosed ==
  ASSUME freeListHead \in BlockOrNil, freeListNext \in [Block -> BlockOrNil]
  PROVE  Closed(OnList) /\ OnList \subseteq Block
<1>1. freeListHead # Nil => freeListHead \in OnList
  BY DEF OnList, Closed, BlockOrNil
<1>2. ASSUME NEW b \in OnList, freeListNext[b] # Nil PROVE freeListNext[b] \in OnList
  <2>1. freeListNext[b] \in Block /\ b \in Block
    BY <1>2 DEF OnList, BlockOrNil
  <2>2. ASSUME NEW S \in SUBSET Block, Closed(S) PROVE freeListNext[b] \in S
    BY <1>2, <2>2 DEF OnList, Closed
  <2> QED
    BY <2>1, <2>2 DEF OnList
<1> QED
  BY <1>1, <1>2 DEF Closed, OnList

LEMMA ListLeast ==
  ASSUME NEW S \in SUBSET Block, Closed(S)
  PROVE  OnList \subseteq S
  BY DEF OnList

LEMMA ListSame ==
  ASSUME UNCHANGED <<freeListHead, freeListNext>>
  PROVE  OnList' = OnList
  BY DEF OnList, Closed

(* The next of a block that is not on the list may change.                 *)
LEMMA ListWithout ==
  ASSUME TypeOK, freeListNext' \in [Block -> BlockOrNil],
         NEW n \in Block \ OnList, freeListHead' = freeListHead,
         \A b \in Block \ {n} : freeListNext'[b] = freeListNext[b]
  PROVE  OnList' = OnList
<1>0. /\ freeListHead \in BlockOrNil /\ freeListNext \in [Block -> BlockOrNil]
      /\ Closed(OnList) /\ OnList \subseteq Block
  BY ListClosed DEF TypeOK
<1>1. ASSUME NEW b \in OnList' PROVE b \in OnList
  <2>1. \A S \in SUBSET Block : Closed(S)' => b \in S
    BY <1>1 DEF OnList
  <2>2. PICK S \in SUBSET Block : S = OnList
    BY <1>0
  <2>3. Closed(S)'
    BY <1>0, <2>2 DEF Closed
  <2> QED
    BY <2>1, <2>2, <2>3
<1>2. ASSUME NEW b \in OnList PROVE b \in OnList'
  <2>1. ASSUME NEW S \in SUBSET Block, Closed(S)' PROVE b \in S
    <3>1. S \cap OnList \in SUBSET Block
      OBVIOUS
    <3>2. Closed(S \cap OnList)
      BY <1>0, <2>1 DEF Closed
    <3> QED
      BY <1>2, <3>1, <3>2, ListLeast
  <2> QED
    BY <1>0, <1>2, <2>1 DEF OnList
<1> QED
  BY <1>1, <1>2

(* A block that is not on the list becomes its head.                       *)
LEMMA ListPush ==
  ASSUME TypeOK, NEW n \in Block \ OnList, freeListNext' = freeListNext,
         freeListNext[n] = freeListHead, freeListHead' = n
  PROVE  OnList' = OnList \cup {n}
<1>0. /\ freeListHead \in BlockOrNil /\ freeListNext \in [Block -> BlockOrNil]
      /\ Closed(OnList) /\ OnList \subseteq Block
  BY ListClosed DEF TypeOK
<1>1. ASSUME NEW b \in OnList', b # n PROVE b \in OnList
  <2>1. \A S \in SUBSET Block : Closed(S)' => b \in S
    BY <1>1 DEF OnList
  <2>2. PICK S \in SUBSET Block : S = OnList \cup {n}
    BY <1>0
  <2>3. Closed(S)'
    BY <1>0, <2>2 DEF Closed
  <2> QED
    BY <1>1, <2>1, <2>2, <2>3
<1>2. ASSUME NEW b \in OnList \cup {n} PROVE b \in OnList'
  <2>1. ASSUME NEW S \in SUBSET Block, Closed(S)' PROVE b \in S
    <3>1. n \in S
      BY <2>1, FreeListAssumption DEF Closed
    <3>2. Closed(S)
      BY <2>1, <3>1 DEF Closed
    <3> QED
      BY <1>2, <3>1, <3>2, ListLeast
  <2> QED
    BY <1>0, <1>2, <2>1 DEF OnList
<1> QED
  BY <1>0, <1>1, <1>2

(* The head goes, and no other block, as none leads back to it.            *)
LEMMA ListPop ==
  ASSUME TypeOK, OneWay, NEW n \in Block, freeListHead = n,
         freeListNext' = freeListNext, freeListHead' = freeListNext[n]
  PROVE  OnList' = OnList \ {n} /\ n \in OnList
<1>0. /\ freeListHead \in BlockOrNil /\ freeListNext \in [Block -> BlockOrNil]
      /\ Closed(OnList) /\ OnList \subseteq Block
  BY ListClosed DEF TypeOK
<1>1. n \in OnList
  BY <1>0, FreeListAssumption DEF Closed
<1>2. ASSUME NEW b \in OnList' PROVE b \in OnList \ {n}
  <2>1. \A S \in SUBSET Block : Closed(S)' => b \in S
    BY <1>2 DEF OnList
  <2>2. PICK S \in SUBSET Block : S = OnList \ {n}
    BY <1>0
  <2>3. Closed(S)'
    BY <1>0, <1>1, <2>2 DEF Closed, OneWay
  <2> QED
    BY <2>1, <2>2, <2>3
<1>3. ASSUME NEW b \in OnList \ {n} PROVE b \in OnList'
  <2>1. ASSUME NEW S \in SUBSET Block, Closed(S)' PROVE b \in S
    <3>1. S \cup {n} \in SUBSET Block
      OBVIOUS
    <3>2. Closed(S \cup {n})
      BY <2>1 DEF Closed
    <3> QED
      BY <1>3, <3>1, <3>2, ListLeast
  <2> QED
    BY <1>0, <1>3, <2>1 DEF OnList
<1> QED
  BY <1>1, <1>2, <1>3


-----------------------------------------------------------------------------
(* What a step of t leaves as it is.                                       *)
LEMMA LocalsKept ==
  ASSUME NEW t \in Thread, OthersStay(t), \A u \in Thread : LocalsRight(u),
         freeListNext' = freeListNext
  PROVE  \A u \in Thread \ {t} : LocalsRight(u)'
  BY DEF OthersStay, LocalsRight, REFS_MASK

LEMMA OneWayKept ==
  ASSUME OneWay, UNCHANGED <<freeListHead, freeListNext>>
  PROVE  OneWay' /\ OnList' = OnList
<1>1. OnList' = OnList
  BY ListSame
<1> QED
  BY <1>1 DEF OneWay

LEMMA PoolKept ==
  ASSUME PoolInv, NEW t \in Thread, OthersStay(t),
         pc[t] # "bump", pc'[t] # "bump",
         UNCHANGED <<heap, initialBlockPoolIndex>>
  PROVE  PoolInv' /\ Pooled' = Pooled
<1>1. Bumping' = Bumping
  BY DEF Bumping, OthersStay
<1> QED
  BY <1>1 DEF PoolInv, Pooled

(* A step that does not move t from one role to another.                   *)
SameRole(t) ==
  /\ Busy(t)' <=> Busy(t)
  /\ Busy(t) => At(t)' = At(t) /\ node'[t] = node[t]
  /\ pc'[t] \in Holding <=> pc[t] \in Holding
  /\ pc[t] \in Holding => node'[t] = node[t]

LEMMA PlacesKept ==
  ASSUME NEW place, BlocksPlaced(place), NEW t \in Thread, OthersStay(t), SameRole(t),
         UNCHANGED <<freeListRefs, heap, inUse>>, Pooled' = Pooled, OnList' = OnList
  PROVE  BlocksPlaced(place)'
<1>1. \A b : Holders(b)' = Holders(b)
  BY HoldersKept DEF SameRole, Holders, Holding
<1>2. \A u \in Thread :
        /\ Busy(u)' <=> Busy(u)
        /\ Busy(u) => At(u)' = At(u) /\ node'[u] = node[u]
  BY DEF SameRole, OthersStay, Busy, At
<1>3. ASSUME NEW b \in Block PROVE Placed(place[b], b)'
  <2>1. Placed(place[b], b)
    BY DEF BlocksPlaced
  <2>2. place[b] \in {"linking", "pushing", "popped"} =>
          \E u \in Thread : Busy(u)' /\ node'[u] = b /\ At(u)' = place[b]
    BY <1>2, <2>1 DEF Placed
  <2> QED
    BY <1>1, <2>1, <2>2 DEF Placed
<1>4. /\ \A u \in Thread : Busy(u)' => node'[u] \in Block /\ place[node'[u]] = At(u)'
      /\ \A u, v \in Thread : Busy(u)' /\ Busy(v)' /\ node'[u] = node'[v] => u = v
  BY <1>2 DEF BlocksPlaced
<1> QED
  BY <1>3, <1>4 DEF BlocksPlaced

(* A step of t in which only block n goes from one place to another.       *)
OnlyAt(t, n) == Busy(t) \/ pc[t] \in Holding => node[t] = n

LEMMA PlacesStep ==
  ASSUME NEW place, NEW q \in [Block -> Places], BlocksPlaced(place),
         NEW t \in Thread, NEW n \in Block,
         OthersStay(t), OnlyAt(t, n), OnlyAt(t, n)',
         \A b \in Block \ {n} :
           /\ q[b] = place[b] /\ freeListRefs'[b] = freeListRefs[b]
           /\ inUse'[b] = inUse[b]
           /\ b \in (heap \cup Pooled)' <=> b \in heap \cup Pooled
           /\ b \in OnList' <=> b \in OnList,
         Placed(q[n], n)',
         Busy(t)' => q[n] = At(t)',
         \A u \in Thread \ {t} : Busy(u) /\ node[u] = n => ~Busy(t)' /\ q[n] = place[n]
  PROVE  BlocksPlaced(q)'
<1>1. \A b \in Block \ {n} : Holders(b)' = Holders(b)
  BY HoldersKept DEF OnlyAt, Holders, Holding
<1>2. \A u \in Thread \ {t} :
        /\ Busy(u)' <=> Busy(u)
        /\ At(u)' = At(u) /\ node'[u] = node[u]
  BY DEF OthersStay, Busy, At
<1>3. ASSUME NEW b \in Block \ {n} PROVE Placed(q[b], b)'
  <2>1. Placed(place[b], b) /\ q[b] = place[b]
    BY DEF BlocksPlaced
  <2>2. \A u \in Thread : Busy(u) /\ node[u] = b => u # t
    BY DEF OnlyAt
  <2>3. q[b] \in {"linking", "pushing", "popped"} =>
          \E u \in Thread : Busy(u)' /\ node'[u] = b /\ At(u)' = q[b]
    BY <1>2, <2>1, <2>2 DEF Placed
  <2> QED
    BY <1>1, <2>1, <2>3 DEF Placed
<1>4. \A b \in Block : Placed(q[b], b)'
  BY <1>3
<1>5. ASSUME NEW u \in Thread, Busy(u)' PROVE node'[u] \in Block /\ q[node'[u]] = At(u)'
  <2>1. CASE u = t
    BY <1>5, <2>1 DEF OnlyAt
  <2>2. CASE u # t /\ node[u] = n
    BY <1>2, <1>5, <2>2 DEF BlocksPlaced
  <2>3. CASE u # t /\ node[u] # n
    <3>1. place[node[u]] = At(u)
      BY <1>2, <1>5, <2>3 DEF BlocksPlaced
    <3>2. node[u] \in Block => q[node[u]] = place[node[u]]
      BY <2>3
    <3>3. node[u] \in Block
      BY <1>2, <1>5, <2>3 DEF BlocksPlaced
    <3> QED
      BY <1>2, <2>3, <3>1, <3>2, <3>3
  <2> QED
    BY <2>1, <2>2, <2>3
<1>6. ASSUME NEW u \in Thread, NEW v \in Thread, Busy(u)', Busy(v)', node'[u] = node'[v]
      PROVE  u = v
  <2>1. CASE u # t /\ v # t
    BY <1>2, <1>6, <2>1 DEF BlocksPlaced
  <2>2. CASE u = t /\ v # t
    BY <1>2, <1>6, <2>2 DEF OnlyAt
  <2>3. CASE u # t /\ v = t
    BY <1>2, <1>6, <2>3 DEF OnlyAt
  <2> QED
    BY <2>1, <2>2, <2>3
<1> QED
  BY <1>4, <1>5, <1>6 DEF BlocksPlaced


-----------------------------------------------------------------------------
(* The steps that move no block, from a state where the invariant holds.   *)
LEMMA InvariantKept ==
  ASSUME IInv, NEW t \in Thread, OthersStay(t), SameRole(t), TypeOK', LocalsRight(t)',
         pc[t] # "bump", pc'[t] # "bump",
         UNCHANGED <<links, supply, inUse>>
  PROVE  IInv'
<1>1. UNCHANGED <<freeListHead, freeListRefs, freeListNext, initialBlockPoolIndex, heap, inUse>>
  BY DEF links, supply
<1>2. OneWay' /\ OnList' = OnList
  BY <1>1, OneWayKept DEF IInv
<1>3. PoolInv' /\ Pooled' = Pooled
  BY <1>1, PoolKept DEF IInv
<1>4. \A u \in Thread : LocalsRight(u)'
  BY <1>1, LocalsKept DEF IInv
<1>5. PICK place \in [Block -> Places] : BlocksPlaced(place)
  BY DEF IInv
<1>6. BlocksPlaced(place)'
  BY <1>1, <1>2, <1>3, <1>5, PlacesKept
<1> QED
  BY <1>2, <1>3, <1>4, <1>6 DEF IInv

LEMMA HeadTypes ==
  ASSUME TypeOK, NEW t \in Thread, NEW h \in BlockOrNil, TryHead(t, h)
  PROVE  /\ pc' \in [Thread -> {"idle", "pool", "bump", "load", "refs", "grab", "next", "pop",
                        "release", "unref", "create", "top", "link", "one", "push", "retry"}]
         /\ node' \in [Thread -> BlockOrNil] /\ head' \in [Thread -> BlockOrNil]
         /\ pc'[t] = (IF h = Nil THEN "create" ELSE "refs")
         /\ head'[t] = h /\ node'[t] = Nil
         /\ \A u \in Thread \ {t} :
              pc'[u] = pc[u] /\ node'[u] = node[u] /\ head'[u] = head[u]
<1>1. Nil \in BlockOrNil
  BY DEF BlockOrNil
<1> QED
  BY <1>1 DEF TypeOK, TryHead, Goto

LEMMA BackTypes ==
  ASSUME TypeOK, NEW t \in Thread, Back(t)
  PROVE  /\ pc' \in [Thread -> {"idle", "pool", "bump", "load", "refs", "grab", "next", "pop",
                        "release", "unref", "create", "top", "link", "one", "push", "retry"}]
         /\ node' \in [Thread -> BlockOrNil] /\ head' \in [Thread -> BlockOrNil]
         /\ next' \in [Thread -> BlockOrNil] /\ top' \in [Thread -> BlockOrNil]
         /\ refs' \in [Thread -> 0 .. Word - 1] /\ getting' \in [Thread -> BOOLEAN]
         /\ pc'[t] = "idle"
         /\ OthersStay(t)
<1>1. Nil \in BlockOrNil /\ 0 \in 0 .. Word - 1
  BY Sizes DEF BlockOrNil
<1> QED
  BY <1>1 DEF TypeOK, Back, Goto, OthersStay

LEMMA RequisitionKeeps ==
  ASSUME IInv, NEW t \in Thread, Requisition(t)
  PROVE  IInv'
<1>1. /\ pc[t] = "idle" /\ pc' = [pc EXCEPT ![t] = "pool"]
      /\ getting' = [getting EXCEPT ![t] = TRUE]
      /\ UNCHANGED <<links, supply, inUse, node, head, next, refs, top>>
  BY DEF Requisition, Goto
<1>2. TypeOK
  BY DEF IInv
<1>3. TypeOK'
  BY <1>1, <1>2 DEF TypeOK, links, supply
<1>4. pc'[t] = "pool" /\ OthersStay(t)
  BY <1>1, <1>2 DEF TypeOK, OthersStay
<1>5. SameRole(t) /\ LocalsRight(t)'
  BY <1>1, <1>4 DEF SameRole, LocalsRight, Busy, Linking, Pushing, Holding
<1> QED
  BY <1>1, <1>3, <1>4, <1>5, InvariantKept

LEMMA LoadHeadKeeps ==
  ASSUME IInv, NEW t \in Thread, LoadHead(t)
  PROVE  IInv'
<1>1. /\ pc[t] = "load" /\ TryHead(t, freeListHead)
      /\ UNCHANGED <<links, supply, inUse, next, refs, top, getting>>
  BY DEF LoadHead
<1>2. TypeOK /\ freeListHead \in BlockOrNil
  BY DEF IInv, TypeOK
<1>3. /\ pc'[t] = (IF freeListHead = Nil THEN "create" ELSE "refs")
      /\ head'[t] = freeListHead
  BY <1>1, <1>2, HeadTypes
<1>4. TypeOK' /\ OthersStay(t)
  BY <1>1, <1>2, HeadTypes DEF TypeOK, OthersStay, links, supply
<1>5. SameRole(t) /\ LocalsRight(t)'
  BY <1>1, <1>2, <1>3 DEF SameRole, LocalsRight, Busy, Linking, Pushing, Holding, BlockOrNil
<1>6. pc[t] # "bump" /\ pc'[t] # "bump"
  BY <1>1, <1>3
<1> QED
  BY <1>1, <1>4, <1>5, <1>6, InvariantKept

LEMMA LoadRefsKeeps ==
  ASSUME IInv, NEW t \in Thread, LoadRefs(t)
  PROVE  IInv'
<1> DEFINE r == freeListRefs[head[t]]
<1>1. /\ pc[t] = "refs"
      /\ \/ /\ REFS_MASK(r) = 0 /\ pc' = [pc EXCEPT ![t] = "load"]
            /\ head' = [head EXCEPT ![t] = Nil] /\ refs' = refs
         \/ /\ REFS_MASK(r) # 0 /\ pc' = [pc EXCEPT ![t] = "grab"]
            /\ refs' = [refs EXCEPT ![t] = r] /\ head' = head
      /\ UNCHANGED <<links, supply, inUse, node, next, top, getting>>
  BY DEF LoadRefs, Goto
<1>2. TypeOK /\ head[t] \in Block /\ Nil \in BlockOrNil
  BY <1>1 DEF IInv, LocalsRight, BlockOrNil
<1>3. r \in 0 .. Word - 1
  BY <1>2 DEF TypeOK
<1> HIDE DEF r
<1>4. TypeOK' /\ OthersStay(t)
  BY <1>1, <1>2, <1>3 DEF TypeOK, OthersStay, links, supply
<1>5. \/ pc'[t] = "load"
      \/ pc'[t] = "grab" /\ refs'[t] = r /\ REFS_MASK(r) # 0 /\ head'[t] = head[t]
  BY <1>1, <1>2 DEF TypeOK
<1>6. SameRole(t) /\ LocalsRight(t)'
  BY <1>1, <1>2, <1>5
     DEF SameRole, LocalsRight, Busy, Linking, Pushing, Holding, REFS_MASK
<1>7. pc[t] # "bump" /\ pc'[t] # "bump"
  BY <1>1, <1>5
<1> QED
  BY <1>1, <1>4, <1>6, <1>7, InvariantKept

LEMMA ReadNextKeeps ==
  ASSUME IInv, NEW t \in Thread, ReadNext(t)
  PROVE  IInv'
<1>1. /\ pc[t] = "next" /\ pc' = [pc EXCEPT ![t] = "pop"]
      /\ next' = [next EXCEPT ![t] = freeListNext[node[t]]]
      /\ UNCHANGED <<links, supply, inUse, node, head, refs, top, getting>>
  BY DEF ReadNext, Goto
<1>2. TypeOK /\ node[t] \in Block
  BY <1>1 DEF IInv, LocalsRight, Holding
<1>3. TypeOK' /\ OthersStay(t)
  BY <1>1, <1>2 DEF TypeOK, OthersStay, links, supply
<1>4. pc'[t] = "pop" /\ next'[t] = freeListNext[node[t]]
  BY <1>1, <1>2 DEF TypeOK
<1>5. SameRole(t) /\ LocalsRight(t)'
  BY <1>1, <1>2, <1>4 DEF SameRole, LocalsRight, Busy, Linking, Pushing, Holding, links
<1> QED
  BY <1>1, <1>3, <1>4, <1>5, InvariantKept

LEMMA LoadTopKeeps ==
  ASSUME IInv, NEW t \in Thread, LoadTop(t)
  PROVE  IInv'
<1>1. /\ pc[t] = "top" /\ pc' = [pc EXCEPT ![t] = "link"]
      /\ top' = [top EXCEPT ![t] = freeListHead]
      /\ UNCHANGED <<links, supply, inUse, node, head, next, refs, getting>>
  BY DEF LoadTop, Goto
<1>2. TypeOK
  BY DEF IInv
<1>3. TypeOK' /\ OthersStay(t)
  BY <1>1, <1>2 DEF TypeOK, OthersStay, links, supply
<1>4. pc'[t] = "link"
  BY <1>1, <1>2 DEF TypeOK
<1>5. SameRole(t) /\ LocalsRight(t)'
  BY <1>1, <1>4 DEF SameRole, LocalsRight, Busy, At, Linking, Pushing, Holding
<1> QED
  BY <1>1, <1>3, <1>4, <1>5, InvariantKept


-----------------------------------------------------------------------------
(* The initial pool and the heap.                                          *)
LEMMA BumpingFinite ==
  IsFiniteSet(Bumping) /\ Cardinality(Bumping) \in Nat
    /\ Cardinality(Bumping) <= Cardinality(Thread)
<1>1. Bumping \in SUBSET Thread
  BY DEF Bumping
<1> QED
  BY <1>1, FreeListAssumption, FS_Subset, FS_CardinalityType

LEMMA TestPoolKeeps ==
  ASSUME IInv, NEW t \in Thread, TestPool(t)
  PROVE  IInv'
<1> DEFINE l == IF initialBlockPoolIndex >= initialBlockPoolSize THEN "load" ELSE "bump"
<1>1. /\ pc[t] = "pool" /\ pc' = [pc EXCEPT ![t] = l]
      /\ UNCHANGED <<links, supply, inUse, locals>>
  BY DEF TestPool, Goto
<1>2. TypeOK /\ OneWay /\ PoolInv
  BY DEF IInv
<1>3. TypeOK'
  BY <1>1, <1>2 DEF TypeOK, links, supply, locals
<1>4. pc'[t] = l /\ OthersStay(t)
  BY <1>1, <1>2 DEF TypeOK, OthersStay, locals
<1>5. SameRole(t) /\ LocalsRight(t)'
  BY <1>1, <1>4 DEF SameRole, LocalsRight, Busy, Linking, Pushing, Holding
<1>6. OneWay' /\ OnList' = OnList
  BY <1>1, <1>2, OneWayKept DEF links
<1>7. \A u \in Thread : LocalsRight(u)'
  BY <1>1, <1>4, <1>5, LocalsKept DEF IInv, links
<1>8. Pooled' = Pooled
  BY <1>1 DEF Pooled, supply
<1>9. PoolInv'
  <2>1. initialBlockPoolIndex >= initialBlockPoolSize => Bumping' = Bumping
    BY <1>1, <1>4 DEF Bumping, OthersStay
  <2> QED
    BY <1>1, <1>2, <2>1 DEF PoolInv, supply
<1>10. PICK place \in [Block -> Places] : BlocksPlaced(place)
  BY DEF IInv
<1>11. BlocksPlaced(place)'
  BY <1>1, <1>4, <1>5, <1>6, <1>8, <1>10, PlacesKept DEF links, supply
<1> QED
  BY <1>3, <1>6, <1>7, <1>9, <1>11 DEF IInv

(* A fresh block is handed out; the thread that took it is idle then.      *)
LEMMA HandFresh ==
  ASSUME TypeOK, NEW place \in [Block -> Places], BlocksPlaced(place), NEW t \in Thread,
         NEW n \in heap \cup Pooled, n \in Block, OthersStay(t),
         ~Busy(t), pc[t] \notin Holding, pc'[t] = "idle",
         inUse' = Handed(n), UNCHANGED freeListRefs, OnList' = OnList,
         (heap \cup Pooled)' = (heap \cup Pooled) \ {n}
  PROVE  \E q \in [Block -> Places] : BlocksPlaced(q)'
<1> DEFINE q == [place EXCEPT ![n] = "used"]
<1>1. q \in [Block -> Places] /\ q[n] = "used" /\ \A b \in Block \ {n} : q[b] = place[b]
  BY DEF Places
<1>2. Placed(place[n], n) /\ place[n] = "fresh"
  BY DEF BlocksPlaced, Placed
<1>3. inUse'[n] = 1 /\ \A b \in Block \ {n} : inUse'[b] = inUse[b]
  BY <1>2 DEF TypeOK, Handed, Placed
<1>4. Holders(n)' = Holders(n)
  BY HoldersKept DEF Holders, Holding
<1>5. OnlyAt(t, n) /\ OnlyAt(t, n)' /\ ~Busy(t)'
  BY DEF OnlyAt, Busy, Linking, Pushing, Holding
<1>6. \A u \in Thread \ {t} : Busy(u) => node[u] # n
  <2>1. \A u \in Thread : At(u) # "fresh"
    BY DEF At
  <2> QED
    BY <1>2, <2>1 DEF BlocksPlaced
<1> HIDE DEF q
<1>7. Placed(q[n], n)'
  BY <1>1, <1>2, <1>3, <1>4, Weights DEF Placed
<1>8. BlocksPlaced(q)'
  BY <1>1, <1>3, <1>5, <1>6, <1>7, PlacesStep
<1> QED
  BY <1>1, <1>8

LEMMA TakeFromPoolKeeps ==
  ASSUME IInv, NEW t \in Thread, TakeFromPool(t)
  PROVE  IInv'
<1>1. /\ pc[t] = "bump"
      /\ initialBlockPoolIndex' = initialBlockPoolIndex + 1
      /\ \/ /\ initialBlockPoolIndex < initialBlockPoolSize
            /\ inUse' = Handed(InitialPool[initialBlockPoolIndex + 1]) /\ Back(t)
         \/ /\ ~(initialBlockPoolIndex < initialBlockPoolSize)
            /\ pc' = [pc EXCEPT ![t] = "load"] /\ UNCHANGED <<inUse, locals>>
      /\ UNCHANGED <<freeListHead, freeListRefs, freeListNext, heap>>
  BY DEF TakeFromPool, Goto, links
<1>2. TypeOK /\ OneWay /\ PoolInv
  BY DEF IInv
<1>3. /\ initialBlockPoolIndex \in Nat /\ initialBlockPoolSize \in Nat
      /\ DOMAIN InitialPool = 1 .. initialBlockPoolSize
      /\ \A j \in 1 .. initialBlockPoolSize : InitialPool[j] \in Block
  BY <1>2, Sizes, FreeListAssumption DEF TypeOK
<1>4. pc'[t] \in {"idle", "load"} /\ OthersStay(t)
  BY <1>1, <1>2, BackTypes DEF TypeOK, OthersStay, locals
<1>5. LocalsRight(t)'
  BY <1>4 DEF LocalsRight, Holding
<1>6. OneWay' /\ OnList' = OnList
  BY <1>1, <1>2, OneWayKept
<1>7. \A u \in Thread : LocalsRight(u)'
  BY <1>1, <1>4, <1>5, LocalsKept DEF IInv
<1>8. PoolInv'
  <2>1. Bumping' = Bumping \ {t} /\ t \in Bumping
    BY <1>1, <1>4 DEF Bumping, OthersStay
  <2>2. Cardinality(Bumping') = Cardinality(Bumping) - 1
    BY <2>1, BumpingFinite, FS_RemoveElement
  <2> QED
    BY <1>1, <1>2, <1>3, <2>2, BumpingFinite, Sizes DEF PoolInv
<1>9. initialBlockPoolIndex' \in 0 .. initialBlockPoolSize + Cardinality(Thread)
  <2>1. Cardinality(Bumping') \in Nat
    <3>1. Bumping' \in SUBSET Thread
      BY DEF Bumping
    <3> QED
      BY <3>1, FreeListAssumption, FS_Subset, FS_CardinalityType
  <2> QED
    BY <1>1, <1>3, <1>8, <2>1, Sizes DEF PoolInv
<1>10. PICK place \in [Block -> Places] : BlocksPlaced(place)
  BY DEF IInv
<1>11. ~Busy(t) /\ pc[t] \notin Holding
  BY <1>1 DEF Busy, Linking, Pushing, Holding
<1>12. CASE /\ initialBlockPoolIndex < initialBlockPoolSize
            /\ inUse' = Handed(InitialPool[initialBlockPoolIndex + 1]) /\ Back(t)
  <2> DEFINE n == InitialPool[initialBlockPoolIndex + 1]
  <2>1. n \in Block /\ n \in Pooled
    BY <1>3, <1>12 DEF Pooled
  <2>2. n \notin heap
    BY <1>2, <1>3, <1>12 DEF PoolInv, Range
  <2>3. Pooled' = Pooled \ {n}
    <3>1. \A j \in 1 .. initialBlockPoolSize : InitialPool[j] = n => j = initialBlockPoolIndex + 1
      BY <1>3, <1>12, FreeListAssumption DEF IsInjective
    <3>2. ASSUME NEW b \in Pooled' PROVE b \in Pooled \ {n}
      BY <1>1, <1>3, <3>1 DEF Pooled
    <3>3. ASSUME NEW b \in Pooled \ {n} PROVE b \in Pooled'
      <4>1. PICK j \in 1 .. initialBlockPoolSize : j > initialBlockPoolIndex /\ b = InitialPool[j]
        BY <1>3 DEF Pooled
      <4>2. j > initialBlockPoolIndex'
        BY <1>1, <1>3, <4>1
      <4> QED
        BY <1>3, <4>1, <4>2 DEF Pooled
    <3> QED
      BY <3>2, <3>3
  <2>4. (heap \cup Pooled)' = (heap \cup Pooled) \ {n}
    BY <1>1, <2>2, <2>3
  <2>5. pc'[t] = "idle" /\ inUse' = Handed(n)
    BY <1>2, <1>12, BackTypes
  <2> HIDE DEF n
  <2>6. \E q \in [Block -> Places] : BlocksPlaced(q)'
    BY <1>1, <1>2, <1>4, <1>6, <1>10, <1>11, <2>1, <2>4, <2>5, HandFresh
  <2>7. inUse' \in [Block -> Nat]
    BY <1>2, <2>1, <2>5 DEF TypeOK, Handed
  <2>8. TypeOK'
    BY <1>1, <1>2, <1>9, <1>12, <2>7, BackTypes DEF TypeOK
  <2> QED
    BY <1>6, <1>7, <1>8, <2>6, <2>8 DEF IInv
<1>13. CASE /\ ~(initialBlockPoolIndex < initialBlockPoolSize)
            /\ pc' = [pc EXCEPT ![t] = "load"] /\ UNCHANGED <<inUse, locals>>
  <2>1. Pooled' = Pooled
    BY <1>1, <1>3, <1>13 DEF Pooled
  <2>2. pc'[t] = "load"
    BY <1>2, <1>13 DEF TypeOK
  <2>3. SameRole(t)
    BY <1>1, <2>2 DEF SameRole, Busy, Linking, Pushing, Holding
  <2>4. BlocksPlaced(place)'
    BY <1>1, <1>4, <1>6, <1>10, <1>13, <2>1, <2>3, PlacesKept
  <2>5. TypeOK'
    BY <1>1, <1>2, <1>9, <1>13 DEF TypeOK, locals
  <2> QED
    BY <1>6, <1>7, <1>8, <2>4, <2>5 DEF IInv
<1> QED
  BY <1>1, <1>12, <1>13

LEMMA CreateKeeps ==
  ASSUME IInv, NEW t \in Thread, Create(t)
  PROVE  IInv'
<1>1. /\ pc[t] = "create" /\ Back(t)
      /\ UNCHANGED <<freeListHead, freeListRefs, freeListNext, initialBlockPoolIndex>>
      /\ \/ \E b \in heap : heap' = heap \ {b} /\ inUse' = Handed(b)
         \/ UNCHANGED <<heap, inUse>>
  BY DEF Create, links, supply
<1>2. TypeOK /\ OneWay /\ PoolInv
  BY DEF IInv
<1>3. pc'[t] = "idle" /\ OthersStay(t)
  BY <1>1, <1>2, BackTypes
<1>4. CASE UNCHANGED <<heap, inUse>>
  <2>1. SameRole(t) /\ LocalsRight(t)'
    BY <1>1, <1>3 DEF SameRole, LocalsRight, Busy, Linking, Pushing, Holding
  <2>2. TypeOK'
    BY <1>1, <1>2, <1>4, BackTypes DEF TypeOK
  <2> QED
    BY <1>1, <1>3, <1>4, <2>1, <2>2, InvariantKept DEF links, supply
<1>5. ASSUME NEW b \in heap, heap' = heap \ {b}, inUse' = Handed(b) PROVE IInv'
  <2>1. b \in Block
    BY <1>2 DEF TypeOK
  <2>2. LocalsRight(t)'
    BY <1>3 DEF LocalsRight, Holding
  <2>3. OneWay' /\ OnList' = OnList
    BY <1>1, <1>2, OneWayKept
  <2>4. \A u \in Thread : LocalsRight(u)'
    BY <1>1, <1>3, <2>2, LocalsKept DEF IInv
  <2>5. Bumping' = Bumping
    BY <1>1, <1>3 DEF Bumping, OthersStay
  <2>6. PoolInv'
    BY <1>1, <1>2, <1>5, <2>5 DEF PoolInv
  <2>7. Pooled' = Pooled /\ b \notin Pooled
    BY <1>1, <1>2 DEF Pooled, PoolInv, Range
  <2>8. (heap \cup Pooled)' = (heap \cup Pooled) \ {b}
    BY <1>5, <2>7
  <2>9. ~Busy(t) /\ pc[t] \notin Holding
    BY <1>1 DEF Busy, Linking, Pushing, Holding
  <2>10. \E q \in [Block -> Places] : BlocksPlaced(q)'
    BY <1>1, <1>2, <1>3, <1>5, <2>1, <2>3, <2>8, <2>9, HandFresh DEF IInv
  <2>11. inUse' \in [Block -> Nat] /\ heap' \subseteq Block
    BY <1>2, <1>5, <2>1 DEF TypeOK, Handed
  <2>12. TypeOK'
    BY <1>1, <1>2, <2>11, BackTypes DEF TypeOK
  <2> QED
    BY <2>3, <2>4, <2>6, <2>10, <2>12 DEF IInv
<1> QED
  BY <1>1, <1>4, <1>5


-----------------------------------------------------------------------------
(* A block that goes from one place to another, by a step of thread t that *)
(* has no other block.                                                     *)
LEMMA BlockMoves ==
  ASSUME NEW place \in [Block -> Places], BlocksPlaced(place),
         NEW t \in Thread, NEW n \in Block, NEW p \in Places,
         OthersStay(t), OnlyAt(t, n), OnlyAt(t, n)',
         \A b \in Block \ {n} :
           /\ freeListRefs'[b] = freeListRefs[b] /\ inUse'[b] = inUse[b]
           /\ b \in OnList' <=> b \in OnList,
         (heap \cup Pooled)' = heap \cup Pooled,
         Placed(p, n)',
         Busy(t)' => p = At(t)',
         \A u \in Thread \ {t} : Busy(u) /\ node[u] = n => ~Busy(t)' /\ p = place[n]
  PROVE  \E q \in [Block -> Places] : BlocksPlaced(q)'
<1> DEFINE q == [place EXCEPT ![n] = p]
<1>1. q \in [Block -> Places] /\ q[n] = p /\ \A b \in Block \ {n} : q[b] = place[b]
  OBVIOUS
<1> HIDE DEF q
<1>2. BlocksPlaced(q)'
  BY <1>1, PlacesStep
<1> QED
  BY <1>1, <1>2

(* A busy thread has its block for itself, in the place of its step.       *)
LEMMA BusyAlone ==
  ASSUME NEW place \in [Block -> Places], BlocksPlaced(place), NEW t \in Thread, Busy(t)
  PROVE  /\ node[t] \in Block /\ place[node[t]] = At(t) /\ Placed(At(t), node[t])
         /\ \A u \in Thread \ {t} : Busy(u) => node[u] # node[t]
  BY DEF BlocksPlaced

(* A block that no thread is busy with.                                    *)
LEMMA NobodyAt ==
  ASSUME NEW place \in [Block -> Places], BlocksPlaced(place), NEW n \in Block,
         place[n] \notin {"linking", "pushing", "popped"}
  PROVE  \A u \in Thread : Busy(u) => node[u] # n
  BY DEF BlocksPlaced, At

LEMMA AddedTypes ==
  ASSUME TypeOK, NEW t \in Thread, Added(t)
  PROVE  /\ pc' \in [Thread -> {"idle", "pool", "bump", "load", "refs", "grab", "next", "pop",
                        "release", "unref", "create", "top", "link", "one", "push", "retry"}]
         /\ node' \in [Thread -> BlockOrNil] /\ head' \in [Thread -> BlockOrNil]
         /\ next' \in [Thread -> BlockOrNil] /\ top' \in [Thread -> BlockOrNil]
         /\ refs' \in [Thread -> 0 .. Word - 1] /\ getting' \in [Thread -> BOOLEAN]
         /\ pc'[t] \in {"idle", "create", "refs"}
         /\ pc'[t] = "refs" => head'[t] \in Block
         /\ OthersStay(t)
<1>1. CASE ~getting[t]
  BY <1>1, BackTypes DEF Added
<1>2. CASE getting[t]
  <2>1. /\ TryHead(t, head[t]) /\ top' = [top EXCEPT ![t] = Nil]
        /\ UNCHANGED <<next, refs, getting>>
    BY <1>2 DEF Added
  <2>2. head[t] \in BlockOrNil /\ Nil \in BlockOrNil
    BY DEF TypeOK, BlockOrNil
  <2>3. /\ top' \in [Thread -> BlockOrNil]
        /\ \A u \in Thread \ {t} : top'[u] = top[u]
    BY <2>1, <2>2 DEF TypeOK
  <2> QED
    BY <2>1, <2>2, <2>3, HeadTypes DEF TypeOK, OthersStay, BlockOrNil
<1> QED
  BY <1>1, <1>2

-----------------------------------------------------------------------------
(* add_knowing_refcount_is_zero                                            *)
LEMMA LinkKeeps ==
  ASSUME IInv, NEW t \in Thread, Link(t)
  PROVE  IInv'
<1> DEFINE n == node[t]
<1>1. /\ pc[t] = "link" /\ pc' = [pc EXCEPT ![t] = "one"]
      /\ freeListNext' = [freeListNext EXCEPT ![n] = top[t]]
      /\ UNCHANGED <<freeListHead, freeListRefs, initialBlockPoolIndex, heap,
                     inUse, node, head, next, refs, top, getting>>
  BY DEF Link, Goto, supply, locals
<1>2. TypeOK /\ OneWay /\ PoolInv
  BY DEF IInv
<1>3. PICK place \in [Block -> Places] : BlocksPlaced(place)
  BY DEF IInv
<1>4. Busy(t) /\ At(t) = "linking"
  BY <1>1 DEF Busy, At, Linking
<1>5. /\ n \in Block /\ Placed("linking", n)
      /\ \A u \in Thread \ {t} : Busy(u) => node[u] # n
  BY <1>3, <1>4, BusyAlone
<1>6. n \notin OnList /\ Holders(n) = {}
  BY <1>5 DEF Placed
<1>7. /\ freeListNext' \in [Block -> BlockOrNil] /\ freeListNext'[n] = top[t]
      /\ \A b \in Block \ {n} : freeListNext'[b] = freeListNext[b]
  BY <1>1, <1>2, <1>5 DEF TypeOK
<1>8. TypeOK' /\ OthersStay(t) /\ pc'[t] = "one" /\ node'[t] = n
  BY <1>1, <1>2, <1>7 DEF TypeOK, OthersStay
<1>9. OnList' = OnList
  BY <1>1, <1>2, <1>5, <1>6, <1>7, ListWithout
<1>10. OneWay'
  BY <1>1, <1>2, <1>6, <1>7, <1>9, ListClosed DEF OneWay, TypeOK
<1>11. PoolInv' /\ Pooled' = Pooled
  BY <1>1, <1>2, <1>8, PoolKept
<1>12. SameRole(t)
  BY <1>1, <1>8 DEF SameRole, Busy, At, Linking, Pushing, Holding
<1>13. BlocksPlaced(place)'
  BY <1>1, <1>3, <1>8, <1>9, <1>11, <1>12, PlacesKept
<1>14. ASSUME NEW u \in Thread PROVE LocalsRight(u)'
  <2>1. CASE u = t
    BY <1>1, <1>7, <1>8, <2>1 DEF LocalsRight, Holding
  <2>2. CASE u # t
    <3>1. LocalsRight(u)
      BY DEF IInv
    <3>2. pc[u] = "pop" => node[u] # n /\ node[u] \in Block
      BY <1>6, <3>1 DEF Holders, LocalsRight, Holding
    <3>3. pc[u] \in {"one", "push"} => node[u] # n /\ node[u] \in Block
      BY <1>3, <1>5, <2>2 DEF Busy, Linking, Pushing, BlocksPlaced
    <3> QED
      BY <1>7, <1>8, <2>2, <3>1, <3>2, <3>3 DEF LocalsRight, OthersStay, REFS_MASK
  <2> QED
    BY <2>1, <2>2
<1> QED
  BY <1>8, <1>10, <1>11, <1>13, <1>14 DEF IInv

LEMMA StoreOneKeeps ==
  ASSUME IInv, NEW t \in Thread, StoreOne(t)
  PROVE  IInv'
<1>1. /\ pc[t] = "one" /\ pc' = [pc EXCEPT ![t] = "push"]
      /\ freeListRefs' = [freeListRefs EXCEPT ![node[t]] = 1]
      /\ UNCHANGED <<freeListHead, freeListNext, initialBlockPoolIndex, heap,
                     inUse, node, head, next, refs, top, getting>>
  BY DEF StoreOne, Goto, supply, locals
<1>2. TypeOK /\ OneWay /\ PoolInv
  BY DEF IInv
<1>3. PICK place \in [Block -> Places] : BlocksPlaced(place)
  BY DEF IInv
<1>4. Busy(t) /\ At(t) = "linking"
  BY <1>1 DEF Busy, At, Linking
<1>5. PICK n \in Block :
        /\ n = node[t] /\ Placed("linking", n)
        /\ \A u \in Thread \ {t} : Busy(u) => node[u] # n
  BY <1>3, <1>4, BusyAlone
<1>6. /\ freeListRefs'[n] = 1
      /\ \A b \in Block \ {n} : freeListRefs'[b] = freeListRefs[b]
  BY <1>1, <1>2, <1>5 DEF TypeOK
<1>7. TypeOK' /\ OthersStay(t) /\ pc'[t] = "push" /\ node'[t] = n
  <2>1. 1 \in 0 .. Word - 1
    BY Sizes
  <2>2. freeListRefs' \in [Block -> 0 .. Word - 1]
    BY <1>1, <1>2, <1>5, <2>1 DEF TypeOK
  <2> QED
    BY <1>1, <1>2, <1>5, <2>2 DEF TypeOK, OthersStay
<1>8. OneWay' /\ OnList' = OnList
  BY <1>1, <1>2, OneWayKept
<1>9. PoolInv' /\ Pooled' = Pooled
  BY <1>1, <1>2, <1>7, PoolKept
<1>10. Busy(t)' /\ At(t)' = "pushing"
  BY <1>7 DEF Busy, At, Linking, Pushing
<1>11. Holders(n)' = Holders(n)
  BY <1>1, <1>5, <1>7, HoldersKept DEF Holders
<1>12. Placed("pushing", n)'
  BY <1>1, <1>5, <1>6, <1>7, <1>8, <1>9, <1>10, <1>11, Weights, HoldersFinite DEF Placed
<1>13. OnlyAt(t, n) /\ OnlyAt(t, n)'
  BY <1>5, <1>7 DEF OnlyAt
<1>14. "pushing" \in Places
  BY DEF Places
<1>15. \E q \in [Block -> Places] : BlocksPlaced(q)'
  <2>1. \A b \in Block \ {n} :
          /\ freeListRefs'[b] = freeListRefs[b] /\ inUse'[b] = inUse[b]
          /\ b \in OnList' <=> b \in OnList
    BY <1>1, <1>6, <1>8
  <2>2. (heap \cup Pooled)' = heap \cup Pooled
    BY <1>1, <1>9
  <2> QED
    BY <1>3, <1>5, <1>7, <1>10, <1>12, <1>13, <1>14, <2>1, <2>2, BlockMoves
<1>16. LocalsRight(t)'
  BY <1>1, <1>7 DEF LocalsRight, Holding, IInv
<1>17. \A u \in Thread : LocalsRight(u)'
  BY <1>1, <1>7, <1>16, LocalsKept DEF IInv
<1> QED
  BY <1>7, <1>8, <1>9, <1>15, <1>17 DEF IInv


(* A busy thread's block, with what a proof needs of it.                   *)
LEMMA BusyBlock ==
  ASSUME IInv, NEW t \in Thread, Busy(t)
  PROVE  \E place \in [Block -> Places] : \E n \in Block :
           /\ BlocksPlaced(place) /\ n = node[t] /\ place[n] = At(t) /\ Placed(At(t), n)
           /\ \A u \in Thread \ {t} : Busy(u) => node[u] # n
<1>1. PICK place \in [Block -> Places] : BlocksPlaced(place)
  BY DEF IInv
<1> QED
  BY <1>1, BusyAlone

LEMMA CountRange ==
  ASSUME NEW b
  PROVE  /\ Cardinality(Holders(b)) + 1 < SHOULD_BE_ON_FREELIST
         /\ Cardinality(Holders(b)) \in Nat
         /\ \A k \in 0 .. Word - 1 : k % Word = k
         /\ SHOULD_BE_ON_FREELIST \in Nat /\ Word \in Nat
         /\ Word = SHOULD_BE_ON_FREELIST + SHOULD_BE_ON_FREELIST
  BY HoldersFinite, Sizes, SmallMod

LEMMA PushKeeps ==
  ASSUME IInv, NEW t \in Thread, Push(t)
  PROVE  IInv'
<1>1. /\ pc[t] = "push"
      /\ UNCHANGED <<freeListRefs, freeListNext, initialBlockPoolIndex, heap, inUse>>
      /\ \/ freeListHead = top[t] /\ freeListHead' = node[t] /\ Added(t)
         \/ /\ top' = [top EXCEPT ![t] = freeListHead] /\ pc' = [pc EXCEPT ![t] = "retry"]
            /\ UNCHANGED <<freeListHead, node, head, next, refs, getting>>
  BY DEF Push, Goto, supply
<1>2. TypeOK /\ OneWay /\ PoolInv
  BY DEF IInv
<1>3. Busy(t) /\ At(t) = "pushing"
  BY <1>1 DEF Busy, At, Linking, Pushing
<1>4. PICK place \in [Block -> Places] : \E m \in Block :
        /\ BlocksPlaced(place) /\ m = node[t] /\ place[m] = At(t) /\ Placed(At(t), m)
        /\ \A u \in Thread \ {t} : Busy(u) => node[u] # m
  BY <1>3, BusyBlock
<1>5. PICK n \in Block :
        /\ BlocksPlaced(place) /\ n = node[t] /\ Placed("pushing", n)
        /\ \A u \in Thread \ {t} : Busy(u) => node[u] # n
  BY <1>3, <1>4
<1>6. CASE freeListHead = top[t] /\ freeListHead' = node[t] /\ Added(t)
  <2>1. /\ OthersStay(t) /\ pc'[t] \in {"idle", "create", "refs"}
        /\ pc'[t] = "refs" => head'[t] \in Block
    BY <1>2, <1>6, AddedTypes
  <2>2. TypeOK'
    BY <1>1, <1>2, <1>5, <1>6, AddedTypes DEF TypeOK, BlockOrNil
  <2>3. n \in Block \ OnList /\ freeListNext[n] = freeListHead
    BY <1>1, <1>5, <1>6 DEF IInv, LocalsRight, Placed
  <2>4. OnList' = OnList \cup {n}
    BY <1>1, <1>2, <1>5, <1>6, <2>3, ListPush
  <2>5. OneWay'
    <3>0. /\ Closed(OnList) /\ OnList \subseteq Block
      BY <1>2, ListClosed DEF TypeOK
    <3>1. freeListHead' = n /\ freeListNext' = freeListNext
      BY <1>1, <1>5, <1>6
    <3>2. ASSUME NEW b \in OnList \cup {n} PROVE freeListNext[b] # n
      BY <2>3, <3>0, FreeListAssumption DEF Closed
    <3>3. ASSUME NEW b \in OnList \cup {n}, NEW c \in OnList \cup {n},
                 freeListNext[b] = freeListNext[c], b # c
          PROVE  freeListNext[b] = Nil
      BY <1>2, <2>3, <3>3 DEF OneWay
    <3> QED
      BY <2>4, <3>1, <3>2, <3>3 DEF OneWay
  <2>6. PoolInv' /\ Pooled' = Pooled
    BY <1>1, <1>2, <2>1, PoolKept
  <2>7. ~Busy(t)' /\ OnlyAt(t, n) /\ OnlyAt(t, n)'
    BY <1>5, <2>1 DEF Busy, Linking, Pushing, Holding, OnlyAt
  <2>8. Holders(n)' = Holders(n)
    BY <1>1, <2>1, HoldersKept DEF Holders
  <2>9. Placed("listed", n)'
    BY <1>1, <1>5, <2>4, <2>6, <2>8, Weights DEF Placed
  <2>10. "listed" \in Places
    BY DEF Places
  <2>11. \A b \in Block \ {n} :
           /\ freeListRefs'[b] = freeListRefs[b] /\ inUse'[b] = inUse[b]
           /\ b \in OnList' <=> b \in OnList
    BY <1>1, <2>4
  <2>12. (heap \cup Pooled)' = heap \cup Pooled
    BY <1>1, <2>6
  <2>13. \E q \in [Block -> Places] : BlocksPlaced(q)'
    BY <1>5, <2>1, <2>7, <2>9, <2>10, <2>11, <2>12, BlockMoves
  <2>14. LocalsRight(t)'
    BY <2>1 DEF LocalsRight, Holding
  <2>15. \A u \in Thread : LocalsRight(u)'
    BY <1>1, <2>1, <2>14, LocalsKept DEF IInv
  <2> QED
    BY <2>2, <2>5, <2>6, <2>13, <2>15 DEF IInv
<1>7. CASE /\ top' = [top EXCEPT ![t] = freeListHead] /\ pc' = [pc EXCEPT ![t] = "retry"]
           /\ UNCHANGED <<freeListHead, node, head, next, refs, getting>>
  <2>1. TypeOK' /\ OthersStay(t) /\ pc'[t] = "retry"
    BY <1>1, <1>2, <1>7 DEF TypeOK, OthersStay
  <2>2. SameRole(t) /\ LocalsRight(t)'
    BY <1>1, <1>7, <2>1 DEF SameRole, LocalsRight, Busy, At, Linking, Pushing, Holding
  <2> QED
    BY <1>1, <1>7, <2>1, <2>2, InvariantKept DEF links, supply
<1> QED
  BY <1>1, <1>6, <1>7

LEMMA RetryKeeps ==
  ASSUME IInv, NEW t \in Thread, Retry(t)
  PROVE  IInv'
<1>1. /\ pc[t] = "retry"
      /\ freeListRefs' =
           [freeListRefs EXCEPT ![node[t]] = (@ + SHOULD_BE_ON_FREELIST - 1) % Word]
      /\ UNCHANGED <<freeListHead, freeListNext, initialBlockPoolIndex, heap, inUse>>
      /\ \/ /\ freeListRefs[node[t]] = 1 /\ pc' = [pc EXCEPT ![t] = "link"]
            /\ UNCHANGED <<node, head, next, refs, top, getting>>
         \/ freeListRefs[node[t]] # 1 /\ Added(t)
  BY DEF Retry, Goto, supply, locals
<1>2. TypeOK /\ OneWay /\ PoolInv
  BY DEF IInv
<1>3. Busy(t) /\ At(t) = "pushing"
  BY <1>1 DEF Busy, At, Linking, Pushing
<1>4. PICK place \in [Block -> Places] : \E m \in Block :
        /\ BlocksPlaced(place) /\ m = node[t] /\ place[m] = At(t) /\ Placed(At(t), m)
        /\ \A u \in Thread \ {t} : Busy(u) => node[u] # m
  BY <1>3, BusyBlock
<1>5. PICK n \in Block :
        /\ BlocksPlaced(place) /\ n = node[t] /\ Placed("pushing", n)
        /\ \A u \in Thread \ {t} : Busy(u) => node[u] # n
  BY <1>3, <1>4
<1>6. freeListRefs[n] = Cardinality(Holders(n)) + 1
  BY <1>5, Weights DEF Placed
<1>7. /\ freeListRefs'[n] = Cardinality(Holders(n)) + SHOULD_BE_ON_FREELIST
      /\ freeListRefs'[n] \in 0 .. Word - 1
      /\ \A b \in Block \ {n} : freeListRefs'[b] = freeListRefs[b]
      /\ freeListRefs' \in [Block -> 0 .. Word - 1]
  <2> DEFINE r == (freeListRefs[n] + SHOULD_BE_ON_FREELIST - 1) % Word
  <2>1. r = Cardinality(Holders(n)) + SHOULD_BE_ON_FREELIST /\ r \in 0 .. Word - 1
    <3>1. freeListRefs[n] + SHOULD_BE_ON_FREELIST - 1
            = Cardinality(Holders(n)) + SHOULD_BE_ON_FREELIST
      BY <1>6, CountRange
    <3>2. Cardinality(Holders(n)) + SHOULD_BE_ON_FREELIST \in 0 .. Word - 1
      BY CountRange
    <3> QED
      BY <3>1, <3>2, CountRange
  <2>2. freeListRefs' = [freeListRefs EXCEPT ![n] = r]
    BY <1>1, <1>5
  <2> HIDE DEF r
  <2> QED
    BY <1>2, <2>1, <2>2 DEF TypeOK
<1>8. OneWay' /\ OnList' = OnList
  BY <1>1, <1>2, OneWayKept
<1>9. pc'[t] \in {"link", "idle", "create", "refs"} /\ OthersStay(t)
  BY <1>1, <1>2, AddedTypes DEF TypeOK, OthersStay
<1>10. PoolInv' /\ Pooled' = Pooled
  BY <1>1, <1>2, <1>9, PoolKept
<1>11. TypeOK'
  BY <1>1, <1>2, <1>7, AddedTypes DEF TypeOK
<1>12. LocalsRight(t)'
  <2>1. pc'[t] = "refs" => head'[t] \in Block
    BY <1>1, <1>2, AddedTypes DEF TypeOK
  <2> QED
    BY <1>9, <2>1 DEF LocalsRight, Holding
<1>13. \A u \in Thread : LocalsRight(u)'
  BY <1>1, <1>9, <1>12, LocalsKept DEF IInv
<1>14. Holders(n)' = Holders(n)
  BY <1>1, <1>9, HoldersKept DEF Holders
<1>15. \A b \in Block \ {n} :
         /\ freeListRefs'[b] = freeListRefs[b] /\ inUse'[b] = inUse[b]
         /\ b \in OnList' <=> b \in OnList
  BY <1>1, <1>7, <1>8
<1>16. (heap \cup Pooled)' = heap \cup Pooled
  BY <1>1, <1>10
<1>17. CASE freeListRefs[node[t]] = 1
  <2>1. pc'[t] = "link" /\ node'[t] = n
    BY <1>1, <1>2, <1>5, <1>17 DEF TypeOK
  <2>2. Busy(t)' /\ At(t)' = "linking" /\ OnlyAt(t, n) /\ OnlyAt(t, n)'
    BY <1>5, <2>1 DEF Busy, At, Linking, OnlyAt
  <2>3. Holders(n) = {}
    BY <1>5, <1>6, <1>17, HoldersFinite
  <2>4. Placed("linking", n)'
    BY <1>1, <1>5, <1>7, <1>8, <1>10, <1>14, <2>1, <2>2, <2>3, Weights DEF Placed
  <2>5. "linking" \in Places
    BY DEF Places
  <2>6. \E q \in [Block -> Places] : BlocksPlaced(q)'
    BY <1>5, <1>9, <1>15, <1>16, <2>2, <2>4, <2>5, BlockMoves
  <2> QED
    BY <1>8, <1>10, <1>11, <1>13, <2>6 DEF IInv
<1>18. CASE freeListRefs[node[t]] # 1
  <2>1. pc'[t] \in {"idle", "create", "refs"}
    BY <1>1, <1>2, <1>18, AddedTypes
  <2>2. ~Busy(t)' /\ OnlyAt(t, n) /\ OnlyAt(t, n)'
    BY <1>5, <2>1 DEF Busy, Linking, Pushing, Holding, OnlyAt
  <2>3. Holders(n) # {}
    BY <1>5, <1>6, <1>18, HoldersFinite
  <2>4. Placed("waiting", n)'
    BY <1>1, <1>5, <1>7, <1>8, <1>10, <1>14, <2>3, Weights DEF Placed
  <2>5. "waiting" \in Places
    BY DEF Places
  <2>6. \E q \in [Block -> Places] : BlocksPlaced(q)'
    BY <1>5, <1>9, <1>15, <1>16, <2>2, <2>4, <2>5, BlockMoves
  <2> QED
    BY <1>8, <1>10, <1>11, <1>13, <2>6 DEF IInv
<1> QED
  BY <1>17, <1>18


-----------------------------------------------------------------------------
(* add                                                                     *)
LEMMA AddKeeps ==
  ASSUME IInv, NEW t \in Thread, NEW n \in Block, Add(t, n)
  PROVE  IInv'
<1>1. /\ pc[t] = "idle" /\ inUse[n] > 0
      /\ inUse' = [inUse EXCEPT ![n] = @ - 1]
      /\ freeListRefs' = [freeListRefs EXCEPT ![n] = (@ + SHOULD_BE_ON_FREELIST) % Word]
      /\ \/ /\ freeListRefs[n] = 0 /\ pc' = [pc EXCEPT ![t] = "top"]
            /\ node' = [node EXCEPT ![t] = n]
         \/ freeListRefs[n] # 0 /\ UNCHANGED <<pc, node>>
      /\ UNCHANGED <<freeListHead, freeListNext, initialBlockPoolIndex, heap,
                     head, next, refs, top, getting>>
  BY DEF Add, Goto, supply
<1>2. TypeOK /\ OneWay /\ PoolInv
  BY DEF IInv
<1>3. PICK place \in [Block -> Places] : BlocksPlaced(place)
  BY DEF IInv
<1>4. place[n] = "used" /\ Placed("used", n) /\ inUse[n] = 1
  <2>1. Placed(place[n], n)
    BY <1>3 DEF BlocksPlaced
  <2> QED
    BY <1>1, <2>1 DEF Placed
<1>5. freeListRefs[n] = Cardinality(Holders(n))
  BY <1>4, Weights, CountRange DEF Placed
<1>6. /\ freeListRefs'[n] = Cardinality(Holders(n)) + SHOULD_BE_ON_FREELIST
      /\ \A b \in Block \ {n} : freeListRefs'[b] = freeListRefs[b]
      /\ freeListRefs' \in [Block -> 0 .. Word - 1]
  <2> DEFINE r == (freeListRefs[n] + SHOULD_BE_ON_FREELIST) % Word
  <2>1. r = Cardinality(Holders(n)) + SHOULD_BE_ON_FREELIST /\ r \in 0 .. Word - 1
    <3>1. Cardinality(Holders(n)) + SHOULD_BE_ON_FREELIST \in 0 .. Word - 1
      BY CountRange
    <3> QED
      BY <1>5, <3>1, CountRange
  <2>2. freeListRefs' = [freeListRefs EXCEPT ![n] = r]
    BY <1>1
  <2> HIDE DEF r
  <2> QED
    BY <1>2, <2>1, <2>2 DEF TypeOK
<1>7. /\ inUse' \in [Block -> Nat] /\ inUse'[n] = 0
      /\ \A b \in Block \ {n} : inUse'[b] = inUse[b]
  BY <1>1, <1>2, <1>4 DEF TypeOK
<1>8. OneWay' /\ OnList' = OnList
  BY <1>1, <1>2, OneWayKept
<1>9. /\ pc'[t] \in {"idle", "top"} /\ OthersStay(t)
      /\ pc'[t] = "top" => node'[t] = n /\ freeListRefs[n] = 0
      /\ pc'[t] = "idle" => freeListRefs[n] # 0
  BY <1>1, <1>2 DEF TypeOK, OthersStay
<1>10. PoolInv' /\ Pooled' = Pooled
  BY <1>1, <1>2, <1>9, PoolKept
<1>11. TypeOK'
  BY <1>1, <1>2, <1>6, <1>7 DEF TypeOK, BlockOrNil
<1>12. LocalsRight(t)'
  BY <1>9 DEF LocalsRight, Holding
<1>13. \A u \in Thread : LocalsRight(u)'
  BY <1>1, <1>9, <1>12, LocalsKept DEF IInv
<1>14. Holders(n)' = Holders(n)
  <2>1. t \notin Holders(n) /\ t \notin Holders(n)'
    BY <1>1, <1>9 DEF Holders
  <2> QED
    BY <1>9, <2>1, HoldersKept
<1>15. \A b \in Block \ {n} :
         /\ freeListRefs'[b] = freeListRefs[b] /\ inUse'[b] = inUse[b]
         /\ b \in OnList' <=> b \in OnList
  BY <1>6, <1>7, <1>8
<1>16. (heap \cup Pooled)' = heap \cup Pooled
  BY <1>1, <1>10
<1>17. \A u \in Thread : Busy(u) => node[u] # n
  BY <1>3, <1>4, NobodyAt
<1>18. OnlyAt(t, n) /\ OnlyAt(t, n)'
  BY <1>1, <1>9 DEF OnlyAt, Busy, Linking, Pushing, Holding
<1>19. {"linking", "waiting"} \subseteq Places
  BY DEF Places
<1>20. CASE pc'[t] = "top"
  <2>1. Busy(t)' /\ At(t)' = "linking" /\ node'[t] = n
    BY <1>9, <1>20 DEF Busy, At, Linking
  <2>2. Holders(n) = {}
    BY <1>5, <1>9, <1>20, HoldersFinite
  <2>3. Placed("linking", n)'
    BY <1>1, <1>4, <1>6, <1>7, <1>8, <1>10, <1>14, <2>1, <2>2, Weights DEF Placed
  <2>4. \E q \in [Block -> Places] : BlocksPlaced(q)'
    BY <1>3, <1>9, <1>15, <1>16, <1>17, <1>18, <1>19, <2>1, <2>3, BlockMoves
  <2> QED
    BY <1>8, <1>10, <1>11, <1>13, <2>4 DEF IInv
<1>21. CASE pc'[t] = "idle"
  <2>1. ~Busy(t)'
    BY <1>21 DEF Busy, Linking, Pushing
  <2>2. Holders(n) # {}
    BY <1>5, <1>9, <1>21, HoldersFinite
  <2>3. Placed("waiting", n)'
    BY <1>1, <1>4, <1>6, <1>7, <1>8, <1>10, <1>14, <2>2, Weights DEF Placed
  <2>4. \E q \in [Block -> Places] : BlocksPlaced(q)'
    BY <1>3, <1>9, <1>15, <1>16, <1>17, <1>18, <1>19, <2>1, <2>3, BlockMoves
  <2> QED
    BY <1>8, <1>10, <1>11, <1>13, <2>4 DEF IInv
<1> QED
  BY <1>9, <1>20, <1>21

-----------------------------------------------------------------------------
(* try_get                                                                 *)
LEMMA PopKeeps ==
  ASSUME IInv, NEW t \in Thread, Pop(t)
  PROVE  IInv'
<1>1. /\ pc[t] = "pop" /\ next' = [next EXCEPT ![t] = Nil]
      /\ UNCHANGED <<freeListRefs, freeListNext, initialBlockPoolIndex, heap, inUse,
                     node, refs, top, getting>>
      /\ \/ /\ freeListHead = node[t] /\ freeListHead' = next[t]
            /\ pc' = [pc EXCEPT ![t] = "release"] /\ head' = head
         \/ /\ head' = [head EXCEPT ![t] = freeListHead]
            /\ pc' = [pc EXCEPT ![t] = "unref"] /\ freeListHead' = freeListHead
  BY DEF Pop, Goto, supply
<1>2. TypeOK /\ OneWay /\ PoolInv
  BY DEF IInv
<1>3. PICK place \in [Block -> Places] : BlocksPlaced(place)
  BY DEF IInv
<1>4. PICK n \in Block : n = node[t] /\ next[t] = freeListNext[n]
  BY <1>1 DEF IInv, LocalsRight, Holding
<1>5. OthersStay(t) /\ pc'[t] \in {"release", "unref"} /\ node'[t] = n
  BY <1>1, <1>2, <1>4 DEF TypeOK, OthersStay
<1>6. TypeOK'
  BY <1>1, <1>2, <1>4 DEF TypeOK, BlockOrNil
<1>7. LocalsRight(t)'
  BY <1>5 DEF LocalsRight
<1>8. CASE /\ freeListHead = node[t] /\ freeListHead' = next[t]
           /\ pc' = [pc EXCEPT ![t] = "release"] /\ head' = head
  <2>1. OnList' = OnList \ {n} /\ n \in OnList
    BY <1>1, <1>2, <1>4, <1>8, ListPop
  <2>2. OneWay'
    <3>1. Closed({}) => OnList = {}
      BY ListLeast
    <3>2. freeListHead' = Nil => OnList' = {}
      <4>1. freeListHead' = Nil => Closed({})'
        BY DEF Closed
      <4> QED
        BY <4>1 DEF OnList
    <3>3. ASSUME NEW b \in OnList' PROVE freeListNext[b] # freeListHead'
      BY <1>2, <1>4, <1>8, <2>1, <3>2 DEF OneWay
    <3> QED
      BY <1>1, <1>2, <2>1, <3>3 DEF OneWay
  <2>3. PoolInv' /\ Pooled' = Pooled
    BY <1>1, <1>2, <1>5, PoolKept
  <2>4. \A u \in Thread : LocalsRight(u)'
    BY <1>1, <1>5, <1>7, LocalsKept DEF IInv
  <2>5. place[n] = "listed" /\ Placed("listed", n)
    BY <1>3, <2>1 DEF BlocksPlaced, Placed
  <2>6. pc'[t] = "release"
    BY <1>2, <1>8 DEF TypeOK
  <2>7. Busy(t)' /\ At(t)' = "popped" /\ OnlyAt(t, n) /\ OnlyAt(t, n)'
    BY <1>4, <1>5, <2>6 DEF Busy, At, Linking, Pushing, OnlyAt
  <2>8. Holders(n)' = Holders(n)
    BY <1>1, <1>4, <1>5, <2>6, HoldersKept DEF Holders
  <2>9. Placed("popped", n)'
    BY <1>1, <1>5, <2>1, <2>3, <2>5, <2>7, <2>8, Weights DEF Placed
  <2>10. \A b \in Block \ {n} :
           /\ freeListRefs'[b] = freeListRefs[b] /\ inUse'[b] = inUse[b]
           /\ b \in OnList' <=> b \in OnList
    BY <1>1, <2>1
  <2>11. (heap \cup Pooled)' = heap \cup Pooled /\ "popped" \in Places
    BY <1>1, <2>3 DEF Places
  <2>12. \A u \in Thread : Busy(u) => node[u] # n
    BY <1>3, <2>5, NobodyAt
  <2>13. \E q \in [Block -> Places] : BlocksPlaced(q)'
    BY <1>3, <1>5, <2>7, <2>9, <2>10, <2>11, <2>12, BlockMoves
  <2> QED
    BY <1>6, <2>2, <2>3, <2>4, <2>13 DEF IInv
<1>9. CASE /\ head' = [head EXCEPT ![t] = freeListHead]
           /\ pc' = [pc EXCEPT ![t] = "unref"] /\ freeListHead' = freeListHead
  <2>1. pc'[t] = "unref"
    BY <1>2, <1>9 DEF TypeOK
  <2>2. SameRole(t)
    BY <1>1, <2>1 DEF SameRole, Busy, Linking, Pushing, Holding
  <2> QED
    BY <1>1, <1>5, <1>6, <1>7, <1>9, <2>1, <2>2, InvariantKept DEF links, supply
<1> QED
  BY <1>1, <1>8, <1>9

LEMMA ReleaseKeeps ==
  ASSUME IInv, NEW t \in Thread, Release(t)
  PROVE  IInv'
<1>1. /\ pc[t] = "release" /\ Back(t)
      /\ freeListRefs' = [freeListRefs EXCEPT ![node[t]] = (@ - 2) % Word]
      /\ inUse' = Handed(node[t])
      /\ UNCHANGED <<freeListHead, freeListNext, initialBlockPoolIndex, heap>>
  BY DEF Release, supply
<1>2. TypeOK /\ OneWay /\ PoolInv
  BY DEF IInv
<1>3. Busy(t) /\ At(t) = "popped"
  BY <1>1 DEF Busy, At, Linking, Pushing
<1>4. PICK place \in [Block -> Places] : \E m \in Block :
        /\ BlocksPlaced(place) /\ m = node[t] /\ place[m] = At(t) /\ Placed(At(t), m)
        /\ \A u \in Thread \ {t} : Busy(u) => node[u] # m
  BY <1>3, BusyBlock
<1>5. PICK n \in Block :
        /\ BlocksPlaced(place) /\ n = node[t] /\ Placed("popped", n)
        /\ \A u \in Thread \ {t} : Busy(u) => node[u] # n
  BY <1>3, <1>4
<1>6. freeListRefs[n] = Cardinality(Holders(n)) + 1 /\ inUse[n] = 0
  BY <1>5, Weights DEF Placed
<1>7. pc'[t] = "idle" /\ OthersStay(t)
  BY <1>1, <1>2, BackTypes
<1>8. Cardinality(Holders(n)') = Cardinality(Holders(n)) - 1
  <2>1. t \in Holders(n) /\ t \notin Holders(n)'
    BY <1>1, <1>5, <1>7 DEF Holders
  <2> QED
    BY <1>7, <2>1, HoldersShrink
<1>9. Cardinality(Holders(n)') \in Nat
  <2>1. t \in Holders(n)
    BY <1>1, <1>5 DEF Holders
  <2>2. Cardinality(Holders(n)) # 0
    BY <2>1, HoldersFinite
  <2> QED
    BY <1>8, <2>2, CountRange
<1>10. /\ freeListRefs'[n] = Cardinality(Holders(n)')
       /\ \A b \in Block \ {n} : freeListRefs'[b] = freeListRefs[b]
       /\ freeListRefs' \in [Block -> 0 .. Word - 1]
  <2> DEFINE r == (freeListRefs[n] - 2) % Word
  <2>1. r = Cardinality(Holders(n)') /\ r \in 0 .. Word - 1
    <3>1. freeListRefs[n] - 2 = Cardinality(Holders(n)')
      BY <1>6, <1>8, CountRange
    <3>2. Cardinality(Holders(n)') \in 0 .. Word - 1
      BY <1>8, <1>9, CountRange
    <3> QED
      BY <3>1, <3>2, CountRange
  <2>2. freeListRefs' = [freeListRefs EXCEPT ![n] = r]
    BY <1>1, <1>5
  <2> HIDE DEF r
  <2> QED
    BY <1>2, <2>1, <2>2 DEF TypeOK
<1>11. /\ inUse' \in [Block -> Nat] /\ inUse'[n] = 1
       /\ \A b \in Block \ {n} : inUse'[b] = inUse[b]
  BY <1>1, <1>2, <1>5, <1>6 DEF TypeOK, Handed
<1>12. OneWay' /\ OnList' = OnList
  BY <1>1, <1>2, OneWayKept
<1>13. PoolInv' /\ Pooled' = Pooled
  BY <1>1, <1>2, <1>7, PoolKept
<1>14. TypeOK'
  BY <1>1, <1>2, <1>10, <1>11, BackTypes DEF TypeOK
<1>15. LocalsRight(t)'
  BY <1>7 DEF LocalsRight, Holding
<1>16. \A u \in Thread : LocalsRight(u)'
  BY <1>1, <1>7, <1>15, LocalsKept DEF IInv
<1>17. Placed("used", n)'
  BY <1>1, <1>5, <1>9, <1>10, <1>11, <1>12, <1>13, Weights DEF Placed
<1>18. ~Busy(t)' /\ OnlyAt(t, n) /\ OnlyAt(t, n)' /\ "used" \in Places
  BY <1>5, <1>7 DEF Busy, Linking, Pushing, Holding, OnlyAt, Places
<1>19. \A b \in Block \ {n} :
         /\ freeListRefs'[b] = freeListRefs[b] /\ inUse'[b] = inUse[b]
         /\ b \in OnList' <=> b \in OnList
  BY <1>10, <1>11, <1>12
<1>20. (heap \cup Pooled)' = heap \cup Pooled
  BY <1>1, <1>13
<1>21. \E q \in [Block -> Places] : BlocksPlaced(q)'
  BY <1>5, <1>7, <1>17, <1>18, <1>19, <1>20, BlockMoves
<1> QED
  BY <1>12, <1>13, <1>14, <1>16, <1>21 DEF IInv


LEMMA GrabKeeps ==
  ASSUME IInv, NEW t \in Thread, Grab(t)
  PROVE  IInv'
<1>1. /\ pc[t] = "grab"
      /\ head' = [head EXCEPT ![t] = Nil] /\ refs' = [refs EXCEPT ![t] = 0]
      /\ UNCHANGED <<freeListHead, freeListNext, initialBlockPoolIndex, heap, inUse,
                     next, top, getting>>
      /\ \/ /\ freeListRefs[head[t]] = refs[t]
            /\ freeListRefs' = [freeListRefs EXCEPT ![head[t]] = @ + 1]
            /\ node' = [node EXCEPT ![t] = head[t]] /\ pc' = [pc EXCEPT ![t] = "next"]
         \/ pc' = [pc EXCEPT ![t] = "load"] /\ UNCHANGED <<freeListRefs, node>>
  BY DEF Grab, Goto, supply
<1>2. TypeOK /\ OneWay /\ PoolInv
  BY DEF IInv
<1>3. PICK place \in [Block -> Places] : BlocksPlaced(place)
  BY DEF IInv
<1>4. PICK n \in Block : n = head[t] /\ REFS_MASK(refs[t]) # 0
  BY <1>1 DEF IInv, LocalsRight
<1>5. /\ head' \in [Thread -> BlockOrNil] /\ refs' \in [Thread -> 0 .. Word - 1]
  BY <1>1, <1>2, Sizes DEF TypeOK, BlockOrNil
<1>6. CASE pc' = [pc EXCEPT ![t] = "load"] /\ UNCHANGED <<freeListRefs, node>>
  <2>1. TypeOK' /\ OthersStay(t) /\ pc'[t] = "load"
    BY <1>1, <1>2, <1>5, <1>6 DEF TypeOK, OthersStay
  <2>2. SameRole(t) /\ LocalsRight(t)'
    BY <1>1, <2>1 DEF SameRole, LocalsRight, Busy, Linking, Pushing, Holding
  <2> QED
    BY <1>1, <1>6, <2>1, <2>2, InvariantKept DEF links, supply
<1>7. CASE /\ freeListRefs[head[t]] = refs[t]
           /\ freeListRefs' = [freeListRefs EXCEPT ![head[t]] = @ + 1]
           /\ node' = [node EXCEPT ![t] = head[t]] /\ pc' = [pc EXCEPT ![t] = "next"]
  <2>1. OthersStay(t) /\ pc'[t] = "next" /\ node'[t] = n
    BY <1>1, <1>2, <1>4, <1>7 DEF TypeOK, OthersStay
  <2>2. Placed(place[n], n) /\ place[n] \in Places
    BY <1>3 DEF BlocksPlaced
  <2>3. freeListRefs[n] = Cardinality(Holders(n)) + Weight(place[n])
    BY <2>2 DEF Placed
  <2>4. place[n] \notin {"fresh", "linking"}
    <3>1. ASSUME place[n] \in {"fresh", "linking"} PROVE FALSE
      <4>1. Cardinality(Holders(n)) = 0
        BY <2>2, <3>1, HoldersFinite DEF Placed
      <4>2. freeListRefs[n] \in {0, SHOULD_BE_ON_FREELIST}
        BY <2>3, <3>1, <4>1, Weights, Sizes
      <4>3. REFS_MASK(0) = 0 /\ REFS_MASK(0 + SHOULD_BE_ON_FREELIST) = 0
        BY Masks, Sizes
      <4>4. REFS_MASK(freeListRefs[n]) = 0
        BY <4>2, <4>3, Sizes
      <4> QED
        BY <1>4, <1>7, <4>4
    <3> QED
      BY <3>1
  <2>5. Cardinality(Holders(n)') = Cardinality(Holders(n)) + 1 /\ Holders(n)' # {}
    <3>1. t \notin Holders(n) /\ t \in Holders(n)'
      BY <1>1, <2>1 DEF Holders
    <3> QED
      BY <2>1, <3>1, HoldersGrow
  <2>6. /\ freeListRefs'[n] = freeListRefs[n] + 1
        /\ freeListRefs[n] + 1 \in 0 .. Word - 1
        /\ \A b \in Block \ {n} : freeListRefs'[b] = freeListRefs[b]
    <3>1. Weight(place[n]) \in {0, 1, SHOULD_BE_ON_FREELIST}
      BY <2>2, Weights DEF Places
    <3>2. freeListRefs[n] + 1 \in 0 .. Word - 1
      BY <2>3, <3>1, CountRange
    <3> QED
      BY <1>2, <1>4, <1>7, <3>2 DEF TypeOK
  <2>7. freeListRefs' \in [Block -> 0 .. Word - 1]
    BY <1>2, <1>4, <1>7, <2>6 DEF TypeOK
  <2>8. TypeOK'
    BY <1>1, <1>2, <1>4, <1>5, <1>7, <2>7 DEF TypeOK, BlockOrNil
  <2>9. OneWay' /\ OnList' = OnList
    BY <1>1, <1>2, OneWayKept
  <2>10. PoolInv' /\ Pooled' = Pooled
    BY <1>1, <1>2, <2>1, PoolKept
  <2>11. LocalsRight(t)'
    BY <2>1 DEF LocalsRight
  <2>12. \A u \in Thread : LocalsRight(u)'
    BY <1>1, <2>1, <2>11, LocalsKept DEF IInv
  <2>13. ~Busy(t) /\ ~Busy(t)' /\ OnlyAt(t, n) /\ OnlyAt(t, n)'
    BY <1>1, <2>1 DEF Busy, Linking, Pushing, Holding, OnlyAt
  <2>14. place[n] \in {"linking", "pushing", "popped"} =>
           \E u \in Thread : Busy(u)' /\ node'[u] = n /\ At(u)' = place[n]
    <3>1. \A u \in Thread \ {t} :
            (Busy(u)' <=> Busy(u)) /\ node'[u] = node[u] /\ At(u)' = At(u)
      BY <2>1 DEF OthersStay, Busy, At
    <3> QED
      BY <2>2, <2>13, <3>1 DEF Placed
  <2>15. freeListRefs'[n] = Cardinality(Holders(n)') + Weight(place[n])
    <3>1. Weight(place[n]) \in Nat
      BY <2>2, Weights, Sizes DEF Places
    <3> QED
      BY <2>3, <2>5, <2>6, <3>1, CountRange
  <2>16. Placed(place[n], n)'
    BY <1>1, <2>2, <2>4, <2>5, <2>9, <2>10, <2>14, <2>15 DEF Placed
  <2>17. \A b \in Block \ {n} :
           /\ freeListRefs'[b] = freeListRefs[b] /\ inUse'[b] = inUse[b]
           /\ b \in OnList' <=> b \in OnList
    BY <1>1, <2>6, <2>9
  <2>18. (heap \cup Pooled)' = heap \cup Pooled
    BY <1>1, <2>10
  <2>19. \E q \in [Block -> Places] : BlocksPlaced(q)'
    <3>1. PICK p \in Places : p = place[n]
      BY <2>2
    <3>2. Placed(p, n)'
      BY <2>16, <3>1
    <3> QED
      BY <1>3, <2>1, <2>13, <2>17, <2>18, <3>1, <3>2, BlockMoves
  <2> QED
    BY <2>8, <2>9, <2>10, <2>12, <2>19 DEF IInv
<1> QED
  BY <1>1, <1>6, <1>7

LEMMA UnrefKeeps ==
  ASSUME IInv, NEW t \in Thread, Unref(t)
  PROVE  IInv'
<1>1. /\ pc[t] = "unref"
      /\ freeListRefs' = [freeListRefs EXCEPT ![node[t]] = (@ - 1) % Word]
      /\ UNCHANGED <<freeListHead, freeListNext, initialBlockPoolIndex, heap, inUse,
                     next, refs, top, getting>>
      /\ \/ /\ freeListRefs[node[t]] = SHOULD_BE_ON_FREELIST + 1
            /\ pc' = [pc EXCEPT ![t] = "top"] /\ UNCHANGED <<node, head>>
         \/ freeListRefs[node[t]] # SHOULD_BE_ON_FREELIST + 1 /\ TryHead(t, head[t])
  BY DEF Unref, Goto, supply
<1>2. TypeOK /\ OneWay /\ PoolInv
  BY DEF IInv
<1>3. PICK place \in [Block -> Places] : BlocksPlaced(place)
  BY DEF IInv
<1>4. PICK n \in Block : n = node[t]
  BY <1>1 DEF IInv, LocalsRight, Holding
<1>5. Placed(place[n], n) /\ place[n] \in Places
  BY <1>3 DEF BlocksPlaced
<1>6. t \in Holders(n) /\ Cardinality(Holders(n)) > 0 /\ Holders(n) # {}
  <2>1. t \in Holders(n)
    BY <1>1, <1>4 DEF Holders
  <2> QED
    BY <2>1, HoldersFinite
<1>7. place[n] \notin {"fresh", "linking"}
  BY <1>5, <1>6 DEF Placed
<1>8. Weight(place[n]) \in {0, 1, SHOULD_BE_ON_FREELIST}
  BY <1>5, Weights DEF Places
<1>9. freeListRefs[n] = Cardinality(Holders(n)) + Weight(place[n])
  BY <1>5 DEF Placed
<1>10. head[t] \in BlockOrNil
  BY <1>2 DEF TypeOK
<1>11. pc'[t] \in {"top", "create", "refs"} /\ OthersStay(t)
  BY <1>1, <1>2, <1>10, HeadTypes DEF TypeOK, OthersStay
<1>12. Cardinality(Holders(n)') = Cardinality(Holders(n)) - 1
  <2>1. t \notin Holders(n)'
    BY <1>11 DEF Holders
  <2> QED
    BY <1>6, <1>11, <2>1, HoldersShrink
<1>13. /\ freeListRefs'[n] = Cardinality(Holders(n)') + Weight(place[n])
       /\ \A b \in Block \ {n} : freeListRefs'[b] = freeListRefs[b]
       /\ freeListRefs' \in [Block -> 0 .. Word - 1]
  <2> DEFINE r == (freeListRefs[n] - 1) % Word
  <2>1. r = Cardinality(Holders(n)') + Weight(place[n]) /\ r \in 0 .. Word - 1
    <3>1. freeListRefs[n] - 1 = Cardinality(Holders(n)') + Weight(place[n])
      <4>1. Cardinality(Holders(n)) \in Nat /\ Weight(place[n]) \in Nat
        BY <1>8, CountRange
      <4> QED
        BY <1>9, <1>12, <4>1
    <3>2. freeListRefs[n] - 1 \in 0 .. Word - 1
      BY <1>6, <1>8, <1>9, CountRange
    <3> QED
      BY <3>1, <3>2, CountRange
  <2>2. freeListRefs' = [freeListRefs EXCEPT ![n] = r]
    BY <1>1, <1>4
  <2> HIDE DEF r
  <2> QED
    BY <1>2, <2>1, <2>2 DEF TypeOK
<1>14. OneWay' /\ OnList' = OnList
  BY <1>1, <1>2, OneWayKept
<1>15. PoolInv' /\ Pooled' = Pooled
  BY <1>1, <1>2, <1>11, PoolKept
<1>16. TypeOK'
  BY <1>1, <1>2, <1>10, <1>13, HeadTypes DEF TypeOK
<1>17. LocalsRight(t)'
  <2>1. pc'[t] = "refs" => head'[t] \in Block
    BY <1>1, <1>2, <1>10, HeadTypes DEF BlockOrNil, TypeOK
  <2> QED
    BY <1>11, <2>1 DEF LocalsRight, Holding
<1>18. \A u \in Thread : LocalsRight(u)'
  BY <1>1, <1>11, <1>17, LocalsKept DEF IInv
<1>19. \A b \in Block \ {n} :
         /\ freeListRefs'[b] = freeListRefs[b] /\ inUse'[b] = inUse[b]
         /\ b \in OnList' <=> b \in OnList
  BY <1>1, <1>13, <1>14
<1>20. (heap \cup Pooled)' = heap \cup Pooled
  BY <1>1, <1>15
<1>21. ~Busy(t) /\ OnlyAt(t, n)
  BY <1>1, <1>4 DEF Busy, Linking, Pushing, OnlyAt
<1>22. CASE freeListRefs[node[t]] = SHOULD_BE_ON_FREELIST + 1
  <2>1. pc'[t] = "top" /\ node'[t] = n
    BY <1>1, <1>2, <1>4, <1>22 DEF TypeOK
  <2>2. place[n] = "waiting" /\ Cardinality(Holders(n)) = 1
    <3>1. Weight(place[n]) = SHOULD_BE_ON_FREELIST
      BY <1>4, <1>8, <1>9, <1>22, CountRange
    <3>2. SHOULD_BE_ON_FREELIST # 0 /\ SHOULD_BE_ON_FREELIST # 1
      BY CountRange
    <3>3. place[n] = "waiting"
      BY <1>5, <1>7, <3>1, <3>2, Weights DEF Places
    <3> QED
      BY <1>4, <1>9, <1>22, <3>1, <3>3, CountRange
  <2>3. Cardinality(Holders(n)') = 0 /\ Holders(n)' = {}
    <3>1. Holders(n)' \in SUBSET Thread
      BY DEF Holders
    <3>2. IsFiniteSet(Holders(n)')
      BY <3>1, FreeListAssumption, FS_Subset
    <3> QED
      BY <1>12, <2>2, <3>2, FS_EmptySet
  <2>4. Busy(t)' /\ At(t)' = "linking" /\ OnlyAt(t, n)' /\ "linking" \in Places
    BY <2>1 DEF Busy, At, Linking, OnlyAt, Places
  <2>5. Placed("linking", n)'
    BY <1>1, <1>5, <1>13, <1>14, <1>15, <2>1, <2>2, <2>3, <2>4, Weights DEF Placed
  <2>6. \A u \in Thread : Busy(u) => node[u] # n
    BY <1>3, <2>2, NobodyAt
  <2>7. \E q \in [Block -> Places] : BlocksPlaced(q)'
    BY <1>3, <1>11, <1>19, <1>20, <1>21, <2>4, <2>5, <2>6, BlockMoves
  <2> QED
    BY <1>14, <1>15, <1>16, <1>18, <2>7 DEF IInv
<1>23. CASE freeListRefs[node[t]] # SHOULD_BE_ON_FREELIST + 1
  <2>1. pc'[t] \in {"create", "refs"}
    BY <1>1, <1>2, <1>10, <1>23, HeadTypes
  <2>2. ~Busy(t)' /\ OnlyAt(t, n)'
    BY <2>1 DEF Busy, Linking, Pushing, Holding, OnlyAt
  <2>3. place[n] = "waiting" => Holders(n)' # {}
    <3>1. place[n] = "waiting" => Cardinality(Holders(n)') # 0
      BY <1>4, <1>6, <1>9, <1>12, <1>23, Weights, CountRange
    <3> QED
      BY <3>1, FS_EmptySet
  <2>4. place[n] \in {"linking", "pushing", "popped"} =>
          \E u \in Thread : Busy(u)' /\ node'[u] = n /\ At(u)' = place[n]
    <3>1. \A u \in Thread \ {t} :
            (Busy(u)' <=> Busy(u)) /\ node'[u] = node[u] /\ At(u)' = At(u)
      BY <1>11 DEF OthersStay, Busy, At
    <3> QED
      BY <1>5, <1>21, <3>1 DEF Placed
  <2>5. Placed(place[n], n)'
    BY <1>1, <1>5, <1>7, <1>13, <1>14, <1>15, <2>3, <2>4 DEF Placed
  <2>6. PICK p \in Places : p = place[n]
    BY <1>5
  <2>7. Placed(p, n)'
    BY <2>5, <2>6
  <2>8. \E q \in [Block -> Places] : BlocksPlaced(q)'
    BY <1>3, <1>11, <1>19, <1>20, <1>21, <2>2, <2>6, <2>7, BlockMoves
  <2> QED
    BY <1>14, <1>15, <1>16, <1>18, <2>8 DEF IInv
<1> QED
  BY <1>22, <1>23


-----------------------------------------------------------------------------
LEMMA FreeListInit == Init => IInv
<1> SUFFICES ASSUME Init PROVE IInv
  OBVIOUS
<1>1. TypeOK
  BY Sizes DEF Init, TypeOK, BlockOrNil
<1>2. Pooled = Range(InitialPool) /\ Range(InitialPool) \subseteq Block
  <2>1. DOMAIN InitialPool = 1 .. initialBlockPoolSize
    BY FreeListAssumption
  <2>2. {i \in DOMAIN InitialPool : i > initialBlockPoolIndex} = DOMAIN InitialPool
    BY <2>1, Sizes DEF Init
  <2> QED
    BY <2>1, <2>2, FreeListAssumption DEF Pooled, Range
<1>3. PoolInv
  <2>1. Bumping = {}
    BY DEF Init, Bumping
  <2>2. Cardinality(Bumping) = 0
    BY <2>1, FS_EmptySet
  <2> QED
    BY <2>2, Sizes DEF Init, PoolInv
<1>4. OnList = {}
  <2>1. Closed({})
    BY DEF Init, Closed
  <2> QED
    BY <2>1, ListLeast
<1>5. OneWay
  BY <1>4 DEF OneWay
<1>6. \A t \in Thread : LocalsRight(t) /\ ~Busy(t)
  BY DEF Init, LocalsRight, Busy, Linking, Pushing, Holding
<1>7. \A b \in Block : Holders(b) = {} /\ Cardinality(Holders(b)) = 0
  <2>1. \A b \in Block : Holders(b) = {}
    BY DEF Init, Holders
  <2> QED
    BY <2>1, FS_EmptySet
<1> DEFINE place == [b \in Block |-> "fresh"]
<1>8. \A b \in Block : Placed("fresh", b)
  BY <1>2, <1>4, <1>7, Weights DEF Init, Placed
<1>9. place \in [Block -> Places]
  BY DEF Places
<1>10. BlocksPlaced(place)
  BY <1>6, <1>8, <1>9 DEF BlocksPlaced
<1> QED
  BY <1>1, <1>3, <1>5, <1>6, <1>9, <1>10 DEF IInv

LEMMA FreeListNext == IInv /\ [Next]_vars => IInv'
<1> SUFFICES ASSUME IInv, [Next]_vars PROVE IInv'
  OBVIOUS
<1>1. CASE UNCHANGED vars
  <2>1. UNCHANGED <<freeListHead, freeListRefs, freeListNext, initialBlockPoolIndex, heap,
                    inUse, pc, node, head, next, refs, top, getting>>
    BY <1>1 DEF vars, links, supply, locals
  <2>2. TypeOK'
    BY <2>1 DEF IInv, TypeOK
  <2>3. OneWay' /\ OnList' = OnList
    BY <2>1, OneWayKept DEF IInv
  <2>4. PoolInv' /\ Pooled' = Pooled
    BY <2>1 DEF IInv, PoolInv, Pooled, Bumping
  <2>5. \A t \in Thread : LocalsRight(t)'
    BY <2>1 DEF IInv, LocalsRight, REFS_MASK
  <2>6. PICK place \in [Block -> Places] : BlocksPlaced(place)
    BY DEF IInv
  <2>7. \A b \in Block : Holders(b)' = Holders(b)
    BY <2>1 DEF Holders
  <2>8. BlocksPlaced(place)'
    BY <2>1, <2>3, <2>4, <2>6, <2>7 DEF BlocksPlaced, Placed, Busy, At
  <2> QED
    BY <2>2, <2>3, <2>4, <2>5, <2>8 DEF IInv
<1>2. ASSUME NEW t \in Thread, Call(t) \/ Step(t) PROVE IInv'
  BY <1>2, RequisitionKeeps, AddKeeps, TestPoolKeeps, TakeFromPoolKeeps, CreateKeeps,
     LoadHeadKeeps, LoadRefsKeeps, GrabKeeps, ReadNextKeeps, PopKeeps, ReleaseKeeps,
     UnrefKeeps, LoadTopKeeps, LinkKeeps, StoreOneKeeps, PushKeeps, RetryKeeps
     DEF Call, Step
<1> QED
  BY <1>1, <1>2 DEF Next

(* The inductive invariant of the free list: every block is in one place,  *)
(* its count is what that place and the threads that hold it make it, and  *)
(* the links lead one way.                                                 *)
THEOREM FreeListSound == Spec => []IInv
<1>1. Init => IInv
  BY FreeListInit
<1>2. IInv /\ [Next]_vars => IInv'
  BY FreeListNext
<1> QED
  BY <1>1, <1>2, PTL DEF Spec

-----------------------------------------------------------------------------
(* The next that a thread has read of a node that it holds is the node's   *)
(* next when it swaps the head (1393 of concurrentqueue.h): no ABA, for    *)
(* any number of threads and blocks.                                       *)
THEOREM PopsTheSecond == Spec => []NoABA
<1>1. IInv => NoABA
  BY DEF IInv, LocalsRight, NoABA
<1> QED
  BY <1>1, FreeListSound, PTL

(* When no call is under way, no block has been lost by pushes that failed *)
(* or by references dropped late: it is in use, on the list, or still in   *)
(* the initial pool.                                                       *)
THEOREM NoBlockLost == Spec => []NothingLost
<1>1. IInv => NothingLost
  <2> SUFFICES ASSUME IInv, Idle PROVE Block \ heap = Held \cup OnList \cup Pooled
    BY DEF NothingLost, Pooled
  <2>1. PICK place \in [Block -> Places] : BlocksPlaced(place)
    BY DEF IInv
  <2>2. \A b \in Block : Placed(place[b], b) /\ place[b] \in Places
    BY <2>1 DEF BlocksPlaced
  <2>3. \A b \in Block : Holders(b) = {}
    BY DEF Idle, Holders
  <2>4. \A t \in Thread : ~Busy(t)
    BY DEF Idle, Busy, Linking, Pushing
  <2>5. \A b \in Block : place[b] \in {"fresh", "used", "listed"}
    BY <2>2, <2>3, <2>4 DEF Placed, Places
  <2>6. /\ Held \subseteq Block /\ OnList \subseteq Block /\ Pooled \subseteq Block
        /\ heap \cap Pooled = {}
    <3>1. DOMAIN InitialPool = 1 .. initialBlockPoolSize
      BY FreeListAssumption
    <3>2. Pooled \subseteq Block
      BY <3>1, FreeListAssumption DEF Pooled
    <3>3. heap \cap Pooled = {}
      BY DEF IInv, PoolInv, Pooled, Range
    <3> QED
      BY <3>2, <3>3 DEF Held, OnList
  <2>7. ASSUME NEW b \in Block PROVE b \in heap \cup Held \cup OnList \cup Pooled
    BY <2>2, <2>5 DEF Placed, Held
  <2>8. ASSUME NEW b \in Held \cup OnList PROVE b \notin heap
    BY <2>2, <2>6 DEF Placed, Held
  <2> QED
    BY <2>6, <2>7, <2>8
<1> QED
  BY <1>1, FreeListSound, PTL

(* What 1396 asserts of a popped node, and what the comment at 1415 says   *)
(* of the counts and of the one thread that adds a node.                   *)
THEOREM CountsAreSound == Spec => []FreeListInv
<1>1. IInv => FreeListInv
  <2> SUFFICES ASSUME IInv PROVE CountsReferences /\ PoppedOnce
    BY DEF FreeListInv, IInv
  <2>1. PICK place \in [Block -> Places] : BlocksPlaced(place)
    BY DEF IInv
  <2>2. \A b \in Block : Placed(place[b], b) /\ place[b] \in Places
    BY <2>1 DEF BlocksPlaced
  <2>3. ASSUME NEW b \in Block PROVE Cardinality(Pushers(b)) <= 1
    <3>1. \A t \in Pushers(b) : t \in Thread /\ Busy(t) /\ node[t] = b
      BY DEF Pushers, Busy, Linking, Pushing
    <3>2. \A t, u \in Pushers(b) : t = u
      BY <2>1, <3>1 DEF BlocksPlaced
    <3>3. Pushers(b) = {} \/ \E t : Pushers(b) = {t}
      BY <3>2
    <3>4. Cardinality(Pushers(b)) = 0 \/ Cardinality(Pushers(b)) = 1
      BY <3>3, FS_EmptySet, FS_Singleton
    <3> QED
      BY <3>4
  <2>4. ASSUME NEW b \in Block
        PROVE  REFS_MASK(freeListRefs[b]) = Cardinality(Holders(b)) +
                 (IF \/ b \in OnList
                     \/ \E t \in Pushers(b) : pc[t] \in {"push", "retry"}
                     \/ \E t \in Holders(b) : pc[t] = "release"
                  THEN 1 ELSE 0)
    <3> DEFINE listed == \/ b \in OnList
                         \/ \E t \in Pushers(b) : pc[t] \in {"push", "retry"}
                         \/ \E t \in Holders(b) : pc[t] = "release"
    <3>1. listed <=> place[b] \in {"listed", "pushing", "popped"}
      <4>1. b \in OnList <=> place[b] = "listed"
        BY <2>2 DEF Placed
      <4>2. ASSUME NEW t \in Pushers(b), pc[t] \in {"push", "retry"}
            PROVE  place[b] = "pushing"
        BY <2>1, <4>2 DEF Pushers, BlocksPlaced, Busy, At, Linking, Pushing
      <4>3. ASSUME NEW t \in Holders(b), pc[t] = "release" PROVE place[b] = "popped"
        BY <2>1, <4>3 DEF Holders, BlocksPlaced, Busy, At, Linking, Pushing
      <4>4. ASSUME place[b] = "pushing" PROVE \E t \in Pushers(b) : pc[t] \in {"push", "retry"}
        BY <2>2, <4>4 DEF Placed, Pushers, Busy, At, Linking, Pushing
      <4>5. ASSUME place[b] = "popped" PROVE \E t \in Holders(b) : pc[t] = "release"
        BY <2>2, <4>5 DEF Placed, Holders, Busy, At, Linking, Pushing
      <4> QED
        BY <4>1, <4>2, <4>3, <4>4, <4>5
    <3> HIDE DEF listed
    <3>2. freeListRefs[b] = Cardinality(Holders(b)) + Weight(place[b])
      BY <2>2 DEF Placed
    <3>3. CASE listed
      <4>1. Weight(place[b]) = 1
        BY <3>1, <3>3, Weights
      <4> QED
        BY <3>2, <3>3, <4>1, CountRange, Masks DEF listed
    <3>4. CASE ~listed
      <4>1. Weight(place[b]) \in {0, SHOULD_BE_ON_FREELIST}
        BY <2>2, <3>1, <3>4, Weights DEF Places
      <4>2. REFS_MASK(freeListRefs[b]) = Cardinality(Holders(b))
        BY <3>2, <4>1, CountRange, Masks
      <4> QED
        BY <3>4, <4>2, CountRange DEF listed
    <3> QED
      BY <3>3, <3>4
  <2>5. CountsReferences
    BY <2>3, <2>4 DEF CountsReferences
  <2>6. ASSUME NEW t \in Thread, pc[t] = "release"
        PROVE  /\ ~Flagged(freeListRefs[node[t]])
               /\ node[t] \notin Held \cup OnList
               /\ \A u \in Holders(node[t]) : u # t => pc[u] # "release"
    <3>1. Busy(t) /\ At(t) = "popped"
      BY <2>6 DEF Busy, At, Linking, Pushing
    <3>2. /\ node[t] \in Block /\ Placed("popped", node[t])
          /\ \A u \in Thread \ {t} : Busy(u) => node[u] # node[t]
      BY <2>1, <3>1, BusyAlone
    <3>3. ~Flagged(freeListRefs[node[t]])
      BY <3>2, Weights, CountRange DEF Placed, Flagged
    <3>4. node[t] \notin Held \cup OnList
      BY <3>2 DEF Placed, Held
    <3>5. \A u \in Holders(node[t]) : u # t => pc[u] # "release"
      BY <3>2 DEF Holders, Busy
    <3> QED
      BY <3>3, <3>4, <3>5
  <2>7. PoppedOnce
    BY <2>6 DEF PoppedOnce
  <2> QED
    BY <2>5, <2>7
<1> QED
  BY <1>1, FreeListSound, PTL


-----------------------------------------------------------------------------
(* The refinement.  A block has a holder when a sub-queue has it, or when  *)
(* the thread that popped it is about to hand it over.                     *)
Popper(t, b) == pc[t] = "release" /\ node[t] = b
Taken(b) == inUse[b] > 0 \/ \E t \in Thread : Popper(t, b)
holdersBar ==
  [b \in Block |-> inUse[b] + Cardinality({t \in Holders(b) : pc[t] = "release"})]

LEMMA OneHolder ==
  ASSUME IInv, NEW b \in Block
  PROVE  holdersBar[b] = IF Taken(b) THEN 1 ELSE 0
<1> DEFINE R == {t \in Holders(b) : pc[t] = "release"}
<1>1. PICK place \in [Block -> Places] : BlocksPlaced(place)
  BY DEF IInv
<1>2. Placed(place[b], b)
  BY <1>1 DEF BlocksPlaced
<1>3. \A t \in R : t \in Thread /\ Popper(t, b) /\ Busy(t) /\ node[t] = b /\ At(t) = "popped"
  BY DEF Holders, Popper, Busy, At, Linking, Pushing
<1>4. \A t \in Thread : Popper(t, b) => t \in R
  BY DEF Popper, Holders
<1>5. CASE place[b] = "popped"
  <2>1. PICK t \in Thread : Busy(t) /\ node[t] = b /\ At(t) = "popped"
    BY <1>2, <1>5 DEF Placed
  <2>2. Popper(t, b)
    BY <2>1 DEF Busy, At, Popper
  <2>3. R = {t}
    BY <1>1, <1>3, <1>4, <2>1, <2>2 DEF BlocksPlaced
  <2>4. Cardinality(R) = 1
    BY <2>3, FS_Singleton
  <2>5. inUse[b] = 0
    BY <1>2, <1>5 DEF Placed
  <2> QED
    BY <2>2, <2>4, <2>5 DEF holdersBar, Taken
<1>6. CASE place[b] # "popped"
  <2>1. R = {}
    BY <1>1, <1>3, <1>6 DEF BlocksPlaced
  <2>2. Cardinality(R) = 0
    BY <2>1, FS_EmptySet
  <2>3. inUse[b] \in {0, 1}
    BY <1>2 DEF Placed
  <2>4. ~\E t \in Thread : Popper(t, b)
    BY <1>4, <2>1
  <2> QED
    BY <2>2, <2>3, <2>4 DEF holdersBar, Taken
<1> QED
  BY <1>5, <1>6

(* In one step at most one block is taken or given back.                   *)
OneChange == \E n \in Block : \A b \in Block \ {n} : Taken(b)' <=> Taken(b)
NoChange == \A b \in Block : Taken(b)' <=> Taken(b)

LEMMA QuietChange ==
  ASSUME TypeOK, NEW t \in Thread, inUse' = inUse, OthersStay(t),
         pc[t] # "release", pc'[t] # "release"
  PROVE  NoChange
<1>1. \A b \in Block, u \in Thread : Popper(u, b)' <=> Popper(u, b)
  BY DEF Popper, OthersStay
<1> QED
  BY <1>1 DEF NoChange, Taken

LEMMA ChangeAt ==
  ASSUME NEW t \in Thread, OthersStay(t), NEW n \in Block,
         pc[t] = "release" => node[t] = n, pc'[t] = "release" => node'[t] = n,
         \A b \in Block \ {n} : inUse'[b] = inUse[b]
  PROVE  OneChange
<1>1. \A b \in Block \ {n}, u \in Thread : Popper(u, b)' <=> Popper(u, b)
  BY DEF Popper, OthersStay
<1>2. \A b \in Block \ {n} : Taken(b)' <=> Taken(b)
  BY <1>1 DEF Taken
<1> QED
  BY <1>2 DEF OneChange

LEMMA StepChanges ==
  ASSUME IInv, NEW t \in Thread, Call(t) \/ Step(t)
  PROVE  NoChange \/ OneChange
<1>1. TypeOK
  BY DEF IInv
<1>2. ASSUME Requisition(t) \/ TestPool(t) \/ LoadTop(t) \/ Link(t) \/ StoreOne(t) \/ ReadNext(t)
      PROVE  NoChange
  <2>1. /\ inUse' = inUse /\ OthersStay(t) /\ pc[t] # "release" /\ pc'[t] # "release"
    BY <1>1, <1>2 DEF Requisition, TestPool, LoadTop, Link, StoreOne, ReadNext, Goto,
       locals, TypeOK, OthersStay
  <2> QED
    BY <1>1, <2>1, QuietChange
<1>3. ASSUME LoadHead(t) \/ LoadRefs(t) \/ Grab(t) PROVE NoChange
  <2>1. freeListHead \in BlockOrNil
    BY <1>1 DEF TypeOK
  <2>2. LoadHead(t) => OthersStay(t) /\ pc'[t] # "release"
    BY <1>1, <2>1, HeadTypes DEF LoadHead, OthersStay
  <2>3. LoadRefs(t) \/ Grab(t) => OthersStay(t) /\ pc'[t] # "release"
    BY <1>1 DEF LoadRefs, Grab, Goto, TypeOK, OthersStay
  <2>4. inUse' = inUse /\ pc[t] # "release"
    BY <1>3 DEF LoadHead, LoadRefs, Grab
  <2> QED
    BY <1>1, <1>3, <2>2, <2>3, <2>4, QuietChange
<1>4. ASSUME Unref(t) \/ Push(t) \/ Retry(t) PROVE NoChange
  <2>1. head[t] \in BlockOrNil
    BY <1>1 DEF TypeOK
  <2>2. Unref(t) => OthersStay(t) /\ pc'[t] # "release"
    BY <1>1, <2>1, HeadTypes DEF Unref, Goto, TypeOK, OthersStay
  <2>3. Push(t) => OthersStay(t) /\ pc'[t] # "release"
    BY <1>1, AddedTypes DEF Push, Goto, TypeOK, OthersStay
  <2>4. Retry(t) => OthersStay(t) /\ pc'[t] # "release"
    BY <1>1, AddedTypes DEF Retry, Goto, TypeOK, OthersStay, locals
  <2>5. inUse' = inUse /\ pc[t] # "release"
    BY <1>4 DEF Unref, Push, Retry
  <2> QED
    BY <1>1, <1>4, <2>2, <2>3, <2>4, <2>5, QuietChange
<1>5. ASSUME NEW n \in Block, Add(t, n) PROVE OneChange
  <2>1. OthersStay(t) /\ pc[t] # "release" /\ pc'[t] # "release"
    BY <1>1, <1>5 DEF Add, Goto, TypeOK, OthersStay
  <2>2. \A b \in Block \ {n} : inUse'[b] = inUse[b]
    BY <1>1, <1>5 DEF Add, TypeOK
  <2> QED
    BY <2>1, <2>2, ChangeAt
<1>6. ASSUME TakeFromPool(t) PROVE NoChange \/ OneChange
  <2>1. CASE initialBlockPoolIndex < initialBlockPoolSize
    <3>1. /\ inUse' = Handed(InitialPool[initialBlockPoolIndex + 1]) /\ Back(t)
          /\ pc[t] # "release"
      BY <1>6, <2>1 DEF TakeFromPool
    <3>2. initialBlockPoolIndex + 1 \in 1 .. initialBlockPoolSize
      BY <1>1, <2>1, Sizes DEF TypeOK
    <3>3. PICK n \in Block : n = InitialPool[initialBlockPoolIndex + 1]
      BY <3>2, FreeListAssumption
    <3>4. OthersStay(t) /\ pc'[t] # "release"
      BY <1>1, <3>1, BackTypes
    <3>5. \A b \in Block \ {n} : inUse'[b] = inUse[b]
      BY <1>1, <3>1, <3>3 DEF Handed, TypeOK
    <3> QED
      BY <3>1, <3>4, <3>5, ChangeAt
  <2>2. CASE ~(initialBlockPoolIndex < initialBlockPoolSize)
    <3>1. inUse' = inUse /\ OthersStay(t) /\ pc[t] # "release" /\ pc'[t] # "release"
      BY <1>1, <1>6, <2>2 DEF TakeFromPool, Goto, locals, TypeOK, OthersStay
    <3> QED
      BY <1>1, <3>1, QuietChange
  <2> QED
    BY <2>1, <2>2
<1>7. ASSUME Create(t) PROVE NoChange \/ OneChange
  <2>1. pc[t] # "release" /\ pc'[t] # "release" /\ OthersStay(t)
    BY <1>1, <1>7, BackTypes DEF Create
  <2>2. CASE inUse' = inUse
    BY <1>1, <2>1, <2>2, QuietChange
  <2>3. ASSUME NEW n \in heap, inUse' = Handed(n) PROVE OneChange
    <3>1. n \in Block
      BY <1>1 DEF TypeOK
    <3>2. \A b \in Block \ {n} : inUse'[b] = inUse[b]
      BY <1>1, <2>3 DEF Handed, TypeOK
    <3> QED
      BY <2>1, <3>1, <3>2, ChangeAt
  <2> QED
    BY <1>7, <2>2, <2>3 DEF Create
<1>8. ASSUME Pop(t) \/ Release(t) PROVE OneChange
  <2>1. PICK n \in Block : n = node[t]
    BY <1>8 DEF Pop, Release, IInv, LocalsRight, Holding
  <2>2. OthersStay(t) /\ (pc'[t] = "release" => node'[t] = n)
    BY <1>1, <1>8, <2>1, BackTypes DEF Pop, Release, Goto, TypeOK, OthersStay
  <2>3. \A b \in Block \ {n} : inUse'[b] = inUse[b]
    BY <1>1, <1>8, <2>1 DEF Pop, Release, Handed, TypeOK
  <2> QED
    BY <2>1, <2>2, <2>3, ChangeAt
<1> QED
  BY <1>2, <1>3, <1>4, <1>5, <1>6, <1>7, <1>8 DEF Call, Step

LEMMA OneHolderEach ==
  IInv => \A b \in Block : holdersBar[b] = IF Taken(b) THEN 1 ELSE 0
  BY OneHolder

LEMMA PoolStep == IInv /\ IInv' /\ [Next]_vars => [Pool!Next]_holdersBar
<1> SUFFICES ASSUME IInv, IInv', [Next]_vars PROVE [Pool!Next]_holdersBar
  OBVIOUS
<1>1. \A b \in Block : holdersBar[b] = IF Taken(b) THEN 1 ELSE 0
  BY OneHolderEach
<1>2. \A b \in Block : holdersBar'[b] = IF Taken(b)' THEN 1 ELSE 0
  <2>1. (\A b \in Block : holdersBar[b] = IF Taken(b) THEN 1 ELSE 0)'
    BY OneHolderEach, PTL
  <2> QED
    BY <2>1
<1>3. /\ DOMAIN holdersBar = Block /\ DOMAIN holdersBar' = Block
      /\ holdersBar = [b \in Block |-> holdersBar[b]]
      /\ holdersBar' = [b \in Block |-> holdersBar'[b]]
  BY DEF holdersBar
<1>4. ASSUME NoChange PROVE holdersBar' = holdersBar
  <2>1. \A b \in Block : holdersBar'[b] = holdersBar[b]
    BY <1>1, <1>2, <1>4 DEF NoChange
  <2> QED
    BY <1>3, <2>1
<1>5. ASSUME NEW n \in Block, \A b \in Block \ {n} : Taken(b)' <=> Taken(b)
      PROVE  Pool!Next \/ holdersBar' = holdersBar
  <2>1. \A b \in Block \ {n} : holdersBar'[b] = holdersBar[b]
    BY <1>1, <1>2, <1>5
  <2>2. holdersBar[n] \in {0, 1} /\ holdersBar'[n] \in {0, 1}
    BY <1>1, <1>2
  <2>3. holdersBar' = [holdersBar EXCEPT ![n] = holdersBar'[n]]
    BY <1>3, <2>1
  <2>4. CASE holdersBar[n] = 0 /\ holdersBar'[n] = 1
    <3>1. Pool!Hand(n)
      BY <2>3, <2>4 DEF Pool!Hand, holdersBar
    <3> QED
      BY <3>1 DEF Pool!Next
  <2>5. CASE holdersBar[n] = 1 /\ holdersBar'[n] = 0
    <3>1. Pool!GiveBack(n)
      BY <2>3, <2>5 DEF Pool!GiveBack, holdersBar
    <3> QED
      BY <3>1 DEF Pool!Next
  <2>6. CASE holdersBar[n] = holdersBar'[n]
    BY <1>3, <2>1, <2>6
  <2> QED
    BY <2>2, <2>4, <2>5, <2>6
<1>6. ASSUME UNCHANGED vars PROVE NoChange
  <2>1. \A b \in Block, t \in Thread : Popper(t, b)' <=> Popper(t, b)
    BY <1>6 DEF Popper, vars, locals
  <2>2. inUse' = inUse
    BY <1>6 DEF vars
  <2> QED
    BY <2>1, <2>2 DEF NoChange, Taken
<1>7. ASSUME NEW t \in Thread, Call(t) \/ Step(t) PROVE NoChange \/ OneChange
  BY <1>7, StepChanges
<1>8. ASSUME NoChange \/ OneChange PROVE Pool!Next \/ holdersBar' = holdersBar
  BY <1>4, <1>5, <1>8 DEF OneChange
<1> QED
  BY <1>6, <1>7, <1>8 DEF Next

(* The pool implements BlockPool: requisition_block and                    *)
(* add_block_to_free_list (2980 to 3005) hand every block to one sub-queue *)
(* at a time, through any interleaving of the free list's atomics.         *)
THEOREM PoolImplemented == Spec => ImplementsPool
<1>1. Init => holdersBar = [b \in Block |-> 0]
  <2> SUFFICES ASSUME Init PROVE holdersBar = [b \in Block |-> 0]
    OBVIOUS
  <2>1. \A b \in Block : {t \in Holders(b) : pc[t] = "release"} = {} /\ inUse[b] = 0
    BY DEF Init, Holders
  <2>2. \A b \in Block : inUse[b] + Cardinality({t \in Holders(b) : pc[t] = "release"}) = 0
    BY <2>1, FS_EmptySet
  <2> QED
    BY <2>2 DEF holdersBar
<1>2. Init => Pool!Init
  BY <1>1 DEF Pool!Init, holdersBar
<1>3. IInv /\ IInv' /\ [Next]_vars => [Pool!Next]_holdersBar
  BY PoolStep
<1> QED
  BY <1>2, <1>3, FreeListSound, PTL DEF Spec, ImplementsPool, Pool!Spec, holdersBar
=============================================================================
