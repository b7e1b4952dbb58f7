------------------------ MODULE SubQueueBlocksProofs ------------------------
(***************************************************************************)
(* Theorems about the implicit sub-queues of SubQueue, for any number of   *)
(* consumers and blocks, any size of blocks and of the block index, and    *)
(* any width of index_t: SubQueueInv, FindsItsElements, DestructorIsExact  *)
(* and ImplementsQueue.  The invariant, Settled, is at the end of the part *)
(* of SubQueueProofs that says what the block index is; the steps of the   *)
(* consumers and the first steps of the producer keep it there, the others *)
(* and the destructor here.                                                *)
(***************************************************************************)
EXTENDS SubQueueProofs, SequenceTheorems

(* A call of the producer that takes back what it has done.                *)
LEMMA WithdrawingNow ==
  ASSUME Counted, InOrder, NEW z, NEW num, NEW f, NEW blk, NEW t, NEW w, NEW ch,
         Settled(z, num, f, blk, t, w, ch), enq.pc \in {"unindex", "free"}
  PROVE  /\ Withdrawing(setup.start, enq, next, enqueued, t, w, ch, f, blk)
         /\ next \in [Block -> BlockOrNil] /\ tailBlock \in BlockOrNil
         /\ Built(setup.start, enq, enqueued) = enqueued
         /\ t \in Int /\ w \in Int /\ Tip(enqueued) \in Int /\ Tip(enqueued) <= w /\ w <= t
         /\ f \in Int /\ f = t - (w - Tip(enqueued)) /\ (enq.pc = "free" <=> w = t)
         /\ Chosen(setup.blocks, Tip(enqueued), t, w, ch, blk)
         /\ SetupOK /\ setup.blocks \subseteq Block /\ Nil \notin setup.blocks
<1>1. Withdrawing(setup.start, enq, next, enqueued, t, w, ch, f, blk)
  BY DEF Settled, Producing
<1>2. /\ next \in [Block -> BlockOrNil] /\ tailBlock \in BlockOrNil
      /\ Chosen(setup.blocks, Tip(enqueued), t, w, ch, blk)
  BY DEF Settled, Producing
<1>3. Built(setup.start, enq, enqueued) = enqueued
  BY DEF Built
<1>4. SetupOK /\ setup.blocks \subseteq Block /\ Nil \notin setup.blocks
  BY CountsFacts, SetupFacts, ProducerBaseAssumption
<1>5. f = t - (w - Tip(enqueued)) /\ (enq.pc = "free" <=> w = t)
  BY <1>1 DEF Withdrawing
<1>6. t \in Int /\ w \in Int /\ Tip(enqueued) \in Int /\ Tip(enqueued) <= w /\ w <= t /\ f \in Int
  BY FrontFacts
<1> QED
  BY <1>1, <1>2, <1>3, <1>4, <1>5, <1>6

(* get_block_index_entry_for_index, from a front that is exact.            *)
LEMMA KeyBase ==
  ASSUME SetupOK, NEW m \in Int
  PROVE  BlockBase(Key(setup.start, m)) = Key(setup.start, m)
<1>1. BLOCK_SIZE \in Nat \ {0} /\ m * BLOCK_SIZE \in Int
  BY SetupMore, MulStep
<1>2. PICK x \in Int : x = m * BLOCK_SIZE
  BY <1>1
<1>3. x \div BLOCK_SIZE = m
  BY <1>1, <1>2, DivIs
<1>4. BlockBase(Idx(x)) = Idx((x \div BLOCK_SIZE) * BLOCK_SIZE)
  BY IdxBlock
<1>5. Key(setup.start, m) = Idx(x)
  BY <1>2, KeyFacts
<1> QED
  BY <1>2, <1>3, <1>4, <1>5

LEMMA SharedPosition ==
  \A size, at, base, i : Implicit!Position(size, at, base, i) = Position(size, at, base, i)
  BY DEF Implicit!Position, Position, Implicit!Offset, Offset, Implicit!Minus, Minus,
         Implicit!BlockBase, BlockBase

LEMMA EntryForFinds ==
  ASSUME Counted, InOrder, NEW z, NEW num, NEW f, NEW blk, NEW t, NEW w, NEW ch,
         Settled(z, num, f, blk, t, w, ch), Exact(Rings(index), entry, z, num, f),
         NEW m \in Int, NEW i, BlockBase(i) = Key(setup.start, m), Near(m, f)
  PROVE  Implicit!EntryFor(i) = Here(Rings(index), z, m)
<1>1. PICK sl, q, j : sl = Rings(index) /\ q = Header.front /\ j = Len(sl)
  OBVIOUS
<1>2. /\ Header.slots = sl[j] /\ Implicit!capacity(Header) = Cap(sl, j)
      /\ Implicit!Header = Header /\ j = Len(index) /\ Size(sl) = Cap(sl, j)
      /\ q = Turn(Cap(sl, j), z[j], f) /\ Header.slots[q] = Here(sl, z, f)
  BY <1>1, FrontEntry DEF Size
<1>3. SetupOK /\ f \in Int
  BY CountsFacts, FrontFacts
<1>4. /\ Indexed(sl, entry, z, num, f, blk, Tip(enqueued), setup.start, setup.indexSize)
      /\ Headers(sl, entry, z, setup.indexSize)
  BY <1>1 DEF Settled, Indexed
<1>5. j \in 1 .. Len(sl) /\ q \in 0 .. Cap(sl, j) - 1
  <2>1. j \in 1 .. Len(sl)
    BY <1>1, <1>4, HeaderFacts
  <2>2. Turn(Cap(sl, j), z[j], f) \in 0 .. Cap(sl, j) - 1
    BY <1>3, <1>4, <2>1, HeaderFacts
  <2> QED
    BY <1>2, <2>1, <2>2
<1>6. Valid(entry, sl[j][q]) /\ num[sl[j][q]] = f
  BY <1>1, <1>2 DEF Exact
<1>7. Position(Cap(sl, j), q, entry[sl[j][q]].key, i) = Turn(Cap(sl, j), z[j], m)
  BY <1>3, <1>4, <1>5, <1>6, LookupFinds
<1>8. Implicit!EntryFor(i) = sl[j][Position(Cap(sl, j), q, entry[sl[j][q]].key, i)]
  BY <1>1, <1>2, SharedPosition DEF Implicit!EntryFor
<1> QED
  BY <1>1, <1>7, <1>8 DEF Here, EntryNo

(* A block in use is not too far from the front.                           *)
LEMMA NearFront ==
  ASSUME Counted, InOrder, NEW z, NEW num, NEW f, NEW blk, NEW t, NEW w, NEW ch,
         Settled(z, num, f, blk, t, w, ch), NEW m \in DOMAIN blk, m <= f \/ Tip(enqueued) < f
  PROVE  m \in Int /\ Near(m, f)
<1>1. PICK sl, k : sl = Rings(index) /\ k = Size(sl)
  OBVIOUS
<1>2. /\ Indexed(sl, entry, z, num, f, blk, Tip(enqueued), setup.start, setup.indexSize)
      /\ Headers(sl, entry, z, setup.indexSize)
  BY <1>1 DEF Settled, Indexed
<1>3. /\ SetupOK /\ f \in Int /\ Tip(enqueued) \in Int /\ Tip(enqueued) <= f
      /\ k \in Nat /\ k > 0 /\ k <= setup.indexSize
  <2>1. k \in Nat \ {0} /\ k <= setup.indexSize
    BY <1>1, <1>2, HeaderFacts
  <2> QED
    BY <2>1, CountsFacts, FrontFacts
<1>4. m \in Int /\ Exact(sl, entry, z, num, m)
  BY <1>2 DEF Indexed, Listed
<1>5. CASE m <= f
  <2>1. Reached(blk, Tip(enqueued), m)
    BY <1>4 DEF Reached
  <2>2. f < m + k
    BY <1>1, <1>2, <1>4, <1>5, <2>1, Window
  <2>3. m < f + k
    BY <1>3, <1>4, <1>5
  <2> QED
    BY <1>3, <1>4, <2>2, <2>3, NearAround
<1>6. CASE m > f
  <2>1. Here(sl, z, m) \in 0 .. k - 1
    BY <1>1, <1>2, <1>4, HeaderFacts
  <2>2. num[Here(sl, z, m)] <= Tip(enqueued) + k
    BY <1>1, <1>2, <1>4, <2>1 DEF Indexed, Keys, Exact
  <2>3. m <= Tip(enqueued) + k
    BY <1>4, <2>2 DEF Exact
  <2>4. f < m + k
    BY <1>3, <1>4, <1>6
  <2>5. m < f + k
    BY <1>3, <1>4, <1>6, <2>3
  <2> QED
    BY <1>3, <1>4, <2>4, <2>5, NearAround
<1> QED
  BY <1>3, <1>4, <1>5, <1>6

(* A block is withdrawn.                                                   *)
LEMMA OwnWithdrawn ==
  ASSUME NEW all, NEW pl, NEW loose, NEW blk, NEW dq, Owned(all, pl, loose, blk, dq),
         NEW n \in DOMAIN blk, NEW by, by = Without(blk, n)
  PROVE  Owned(all, pl, loose \cup {blk[n]}, by, dq)
<1>1. DOMAIN by = DOMAIN blk \ {n} /\ \A m \in DOMAIN by : by[m] = blk[m]
  BY WithoutFacts
<1> QED
  BY <1>1 DEF Owned

LEMMA ChosenBack ==
  ASSUME NEW all, NEW tip, NEW t, NEW w, NEW ch, NEW blk, Chosen(all, tip, t, w, ch, blk), w < t,
         NEW v, v = w + 1, NEW by, by = Without(blk, v)
  PROVE  /\ Chosen(all, tip, t, v, ch, by) /\ v \in DOMAIN blk /\ blk[v] = ch[v]
         /\ Loose(tip, v, ch) = Loose(tip, w, ch) \cup {ch[v]}
<1>1. /\ tip \in Int /\ t \in Int /\ w \in Int /\ tip <= w /\ w <= t
      /\ \A m \in tip + 1 .. t : m \in DOMAIN blk <=> w < m
      /\ \A m \in tip + 1 .. t : w < m => blk[m] = ch[m]
  BY DEF Chosen
<1>2. v \in Int /\ v \in tip + 1 .. t /\ w < v /\ v <= t /\ tip <= v
  BY <1>1
<1>3. v \in DOMAIN blk /\ blk[v] = ch[v]
  BY <1>1, <1>2
<1>4. DOMAIN by = DOMAIN blk \ {v} /\ \A m \in DOMAIN by : by[m] = blk[m]
  BY WithoutFacts
<1>5. tip + 1 .. v = (tip + 1 .. w) \cup {v}
  BY <1>1, <1>2
<1>6. \A m \in tip + 1 .. t : m \in DOMAIN by <=> v < m
  BY <1>1, <1>2, <1>4
<1>7. \A m \in tip + 1 .. t : v < m => by[m] = ch[m]
  BY <1>1, <1>2, <1>4, <1>6
<1>8. Chosen(all, tip, t, v, ch, by)
  BY <1>1, <1>2, <1>4, <1>6, <1>7 DEF Chosen
<1> QED
  BY <1>3, <1>5, <1>8 DEF Loose

(* What the step does, in numbers.                                         *)
LEMMA UnindexMeans ==
  ASSUME Counted, InOrder, NEW z, NEW num, NEW f, NEW blk, NEW t, NEW w, NEW ch,
         Settled(z, num, f, blk, t, w, ch), Implicit!Unindex, NEW v, v = w + 1, NEW g, g = f - 1
  PROVE  /\ enq.pc = "unindex" /\ w < t /\ v \in Int /\ v <= t /\ w < v
         /\ v \in DOMAIN blk /\ blk[v] = ch[v] /\ blk[v] \in Block
         /\ Exact(Rings(index), entry, z, num, f)
         /\ entry' = Valued(entry, Here(Rings(index), z, v), Nil)
         /\ index' = Fronted(index, Turn(Size(Rings(index)), z[Len(index)], g))
         /\ enq.at = ch[v]
         /\ \E e : /\ enq' = e /\ {"pc", "n", "base", "first", "start", "at"} \subseteq DOMAIN e
                   /\ e.pc = (IF next[enq.at] = Nil THEN "free" ELSE "unindex")
                   /\ e.n = enq.n /\ e.base = Key(setup.start, v)
                   /\ e.first = enq.first /\ e.start = enq.start /\ e.at = next[enq.at]
<1>1. enq.pc = "unindex"
  BY DEF Implicit!Unindex, Implicit!Calling
<1>2. /\ Withdrawing(setup.start, enq, next, enqueued, t, w, ch, f, blk)
      /\ t \in Int /\ w \in Int /\ Tip(enqueued) \in Int /\ Tip(enqueued) <= w /\ w <= t
      /\ f \in Int /\ f = t - (w - Tip(enqueued)) /\ (enq.pc = "free" <=> w = t)
      /\ Chosen(setup.blocks, Tip(enqueued), t, w, ch, blk)
      /\ SetupOK /\ setup.blocks \subseteq Block
  BY <1>1, WithdrawingNow
<1>3. w < t /\ v \in Int /\ v <= t /\ w < v /\ Tip(enqueued) < f
  <2>1. w # t
    BY <1>1, <1>2
  <2> QED
    BY <1>2, <2>1
<1>4. v \in DOMAIN blk /\ blk[v] = ch[v]
  <2>1. v \in Tip(enqueued) + 1 .. t
    BY <1>2, <1>3
  <2> QED
    BY <1>2, <1>3, <2>1 DEF Chosen
<1>5. PICK sl : sl = Rings(index)
  OBVIOUS
<1>6. /\ Indexed(sl, entry, z, num, f, blk, Tip(enqueued), setup.start, setup.indexSize)
      /\ Exact(sl, entry, z, num, f) /\ blk[v] \in Block
  BY <1>2, <1>3, <1>4, <1>5 DEF Settled, Indexed, Reach, Reached, Listed
<1>7. Near(v, f)
  BY <1>3, <1>4, NearFront
<1>8. Implicit!Base = Key(setup.start, v)
  BY <1>2, <1>3, KeyNext DEF Withdrawing, Implicit!Base, Implicit!Plus, Plus
<1>9. Implicit!EntryFor(Implicit!Base) = Here(sl, z, v)
  BY <1>2, <1>3, <1>5, <1>6, <1>7, <1>8, KeyBase, EntryForFinds
<1>10. entry' = Valued(entry, Here(sl, z, v), Nil)
  BY <1>9 DEF Implicit!Unindex, Valued
<1>11. index' = Fronted(index, Turn(Size(sl), z[Len(index)], g))
  <2>1. PICK k : k = Len(index) /\ (index[k].front - 1) % Size(sl) = Turn(Size(sl), z[k], g)
    BY <1>5, FrontBack DEF Header
  <2>2. Implicit!capacity(Implicit!Header) = Size(sl)
    BY <1>5, FrontEntry
  <2>3. index' = [index EXCEPT ![k].front = (index[k].front - 1) % Size(sl)]
    BY <2>1, <2>2 DEF Implicit!Unindex
  <2> QED
    BY <2>1, <2>3 DEF Fronted
<1>12. PICK e : /\ enq' = e
                /\ e = [enq EXCEPT !.pc = IF next[enq.at] = Nil THEN "free" ELSE "unindex",
                                   !.at = next[enq.at], !.base = Implicit!Base]
  BY DEF Implicit!Unindex
<1>13. {"pc", "n", "base", "first", "start", "at"} \subseteq DOMAIN enq
  BY <1>2 DEF Withdrawing
<1>14. /\ enq' = e /\ {"pc", "n", "base", "first", "start", "at"} \subseteq DOMAIN e
       /\ e.pc = (IF next[enq.at] = Nil THEN "free" ELSE "unindex")
       /\ e.n = enq.n /\ e.base = Key(setup.start, v)
       /\ e.first = enq.first /\ e.start = enq.start /\ e.at = next[enq.at]
  BY <1>8, <1>12, <1>13
<1>15. enq.at = ch[v]
  BY <1>2, <1>3 DEF Withdrawing
<1> QED
  BY <1>1, <1>3, <1>4, <1>5, <1>6, <1>10, <1>11, <1>14, <1>15

(* The call after the step.                                                *)
LEMMA UnindexCall ==
  ASSUME Counted, InOrder, NEW z, NEW num, NEW f, NEW blk, NEW t, NEW w, NEW ch,
         Settled(z, num, f, blk, t, w, ch), Implicit!Unindex, NEW v, v = w + 1, NEW g, g = f - 1,
         NEW by, by = Without(blk, v)
  PROVE  /\ Producing(setup.start, enq', tailBlock, next, enqueued, t, v, ch, g, by)
         /\ Built(setup.start, enq', enqueued) = enqueued
         /\ enq'.pc \in {"free", "unindex"}
<1>1. /\ enq.pc = "unindex" /\ w < t /\ v \in Int /\ v <= t /\ w < v /\ enq.at = ch[v]
  BY UnindexMeans
<1>2. PICK e : /\ enq' = e /\ {"pc", "n", "base", "first", "start", "at"} \subseteq DOMAIN e
               /\ e.pc = (IF next[enq.at] = Nil THEN "free" ELSE "unindex")
               /\ e.n = enq.n /\ e.base = Key(setup.start, v)
               /\ e.first = enq.first /\ e.start = enq.start /\ e.at = next[enq.at]
  BY UnindexMeans
<1>3. /\ Withdrawing(setup.start, enq, next, enqueued, t, w, ch, f, blk)
      /\ next \in [Block -> BlockOrNil] /\ tailBlock \in BlockOrNil
      /\ t \in Int /\ w \in Int /\ Tip(enqueued) \in Int /\ Tip(enqueued) <= w /\ w <= t
      /\ f \in Int /\ f = t - (w - Tip(enqueued))
      /\ Chosen(setup.blocks, Tip(enqueued), t, w, ch, blk) /\ Nil \notin setup.blocks
  BY <1>1, WithdrawingNow
<1>4. next[enq.at] = (IF v = t THEN Nil ELSE ch[v + 1])
  BY <1>1, <1>3 DEF Withdrawing, Chained
<1>5. next[enq.at] = Nil <=> v = t
  <2>1. v # t => ch[v + 1] \in setup.blocks
    BY <1>1, <1>3 DEF Chosen
  <2> QED
    BY <1>3, <1>4, <2>1
<1>6. Starts(e.start, Nil, next, enqueued, by)
  <2>1. Tip(enqueued) # v
    BY <1>1, <1>3
  <2>2. DOMAIN by = DOMAIN blk \ {v} /\ \A m \in DOMAIN by : by[m] = blk[m]
    BY WithoutFacts
  <2> QED
    BY <1>2, <1>3, <2>1, <2>2 DEF Withdrawing, Starts
<1>7. g = t - (v - Tip(enqueued))
  BY <1>1, <1>3
<1>8. Withdrawing(setup.start, e, next, enqueued, t, v, ch, g, by)
  BY <1>2, <1>3, <1>4, <1>5, <1>6, <1>7 DEF Withdrawing
<1>9. e.pc \in {"free", "unindex"}
  BY <1>2
<1> QED
  BY <1>2, <1>3, <1>8, <1>9 DEF Producing, FindingPcs, Built

LEMMA UnindexKeeps ==
  ASSUME Counted, InOrder, NEW z, NEW num, NEW f, NEW blk, NEW t, NEW w, NEW ch,
         Settled(z, num, f, blk, t, w, ch), Implicit!Unindex, NEW v, v = w + 1, NEW g, g = f - 1,
         NEW by, by = Without(blk, v)
  PROVE  Settled(z, num, g, by, t, v, ch)'
<1>1. /\ enq.pc = "unindex" /\ w < t /\ v \in Int /\ v <= t /\ w < v
      /\ v \in DOMAIN blk /\ blk[v] = ch[v] /\ blk[v] \in Block
  BY UnindexMeans
<1>2. /\ Producing(setup.start, enq', tailBlock, next, enqueued, t, v, ch, g, by)
      /\ Built(setup.start, enq', enqueued) = enqueued
      /\ enq'.pc \in {"free", "unindex"}
  BY UnindexCall
<1>3. /\ Built(setup.start, enq, enqueued) = enqueued /\ f \in Int
      /\ Tip(enqueued) \in Int /\ Tip(enqueued) <= w /\ w \in Int
      /\ Chosen(setup.blocks, Tip(enqueued), t, w, ch, blk) /\ SetupOK
  BY <1>1, WithdrawingNow
<1>4. UNCHANGED <<setup, headIndex, elements, dequeued, next, pool, deq, tailBlock, enqueued>>
  BY DEF Implicit!Unindex, Implicit!counters, Implicit!memory
<1>5. PICK sl, ey, iy : /\ sl = Rings(index) /\ ey = Valued(entry, Here(sl, z, v), Nil) /\ entry' = ey
                        /\ iy = Fronted(index, Turn(Size(sl), z[Len(index)], g)) /\ index' = iy
  BY UnindexMeans
<1>6. /\ Indexed(sl, entry, z, num, f, blk, Tip(enqueued), setup.start, setup.indexSize)
      /\ Headers(sl, entry, z, setup.indexSize) /\ num \in [0 .. Size(sl) - 1 -> Int]
      /\ Fronts(index, z, f, setup.indexSize) /\ Occupied(sl, entry, z, blk, {})
  BY <1>1, <1>5 DEF Settled, Indexed, Keys, Marked, Unsettled
<1>7. /\ Indexed(sl, ey, z, num, f, by, Tip(enqueued), setup.start, setup.indexSize)
      /\ Occupied(sl, ey, z, by, {})
      /\ \A e \in 0 .. Size(sl) - 1 : Valid(ey, e) <=> Valid(entry, e)
  BY <1>1, <1>5, <1>6, IndexWithout
<1>8. g \in Int /\ g <= f
  BY <1>3
<1>9. Indexed(sl, ey, z, num, g, by, Tip(enqueued), setup.start, setup.indexSize)
  BY <1>7, <1>8, ReachMoves DEF Indexed
<1>10. Fronts(iy, z, g, setup.indexSize) /\ Rings(iy) = sl
  BY <1>5, <1>6, <1>8, FrontSet
<1>11. Marked(enq'.pc, sl, ey, z, num, g, by)
  BY <1>2, <1>7 DEF Marked, Unsettled
<1>12. HeadNo' = HeadNo
  BY <1>4 DEF HeadNo, Off, Minus
<1>13. PresentNow' = PresentNow /\ GoneNow' = GoneNow
  BY <1>2, <1>3, <1>4, <1>12 DEF PresentNow, GoneNow
<1>14. Stored(setup.start, elements, dequeued, by, PresentNow, GoneNow)
  <2>1. \A j \in Slot : SlotOf(v, j) \notin PresentNow
    BY <1>1, <1>3, BeyondTip
  <2>2. PresentNow \subseteq Int
    <3>1. HeadNo \in Int /\ enqueued \in Int
      BY CountsFacts
    <3>2. Claimed(setup.start, deq) \subseteq 0 .. HeadNo - 1
      BY <1>3, <3>1, ClaimedFacts DEF Settled
    <3> QED
      BY <1>3, <3>1, <3>2 DEF PresentNow, Present
  <2>3. /\ \A m, k \in DOMAIN blk : blk[m] = blk[k] => m = k
        /\ Stored(setup.start, elements, dequeued, blk, PresentNow, GoneNow)
    BY DEF Settled, Owned
  <2> QED
    BY <1>1, <1>3, <2>1, <2>2, <2>3, StoredWithout
<1>15. /\ Chosen(setup.blocks, Tip(enqueued), t, v, ch, by)
       /\ Loose(Tip(enqueued), v, ch) = Loose(Tip(enqueued), w, ch) \cup {ch[v]}
  BY <1>1, <1>3, ChosenBack
<1>16. Owned(setup.blocks, pool, Loose(Tip(enqueued), v, ch), by, deq)
  <2>1. Owned(setup.blocks, pool, Loose(Tip(enqueued), w, ch), blk, deq)
    BY DEF Settled
  <2> QED
    BY <1>1, <1>15, <2>1, OwnWithdrawn
<1>17. Consuming(setup.start, deq, sl, ey, z, num, by, GoneNow)
  <2>1. SameBelow(Tip(enqueued), blk, by, sl, z, sl, z)
    <3>1. DOMAIN by = DOMAIN blk \ {v} /\ \A m \in DOMAIN by : by[m] = blk[m]
      BY WithoutFacts
    <3>2. \A m \in DOMAIN by : m \in Int /\ (m <= Tip(enqueued) => m \in DOMAIN blk)
      BY <1>6, <3>1 DEF Indexed, Listed
    <3>3. \A m \in DOMAIN blk : m <= Tip(enqueued) => m \in DOMAIN by /\ by[m] = blk[m]
      BY <1>1, <1>3, <3>1
    <3> QED
      BY <1>6, <3>2, <3>3, HeaderFacts DEF SameBelow
  <2>2. NoLess(Tip(enqueued), sl, entry, num, ey, num)
    <3>1. \A x \in 0 .. Size(sl) - 1 : num[x] \in Int /\ num[x] <= num[x]
      BY <1>6
    <3> QED
      BY <1>7, <3>1 DEF NoLess
  <2> QED
    BY <1>5, <2>1, <2>2, ConsumeGrown
<1>18. Shared(setup.start, deq, HeadNo) /\ Rings(index') = sl /\ Rings(index)' = Rings(index')
  BY <1>5, <1>10 DEF Settled, Rings
<1> QED
  BY <1>2, <1>4, <1>5, <1>9, <1>10, <1>11, <1>12, <1>13, <1>14, <1>15, <1>16, <1>17, <1>18 DEF Settled

(* What is reached by the links from a block.                              *)
Follow(s) == s \cup ({next[x] : x \in s} \ {Nil})
Reaching(b, g) ==
  /\ DOMAIN g = 0 .. Cardinality(Block) /\ g = [n \in 0 .. Cardinality(Block) |-> g[n]]
  /\ \A n \in 0 .. Cardinality(Block) :
       g[n] = IF n = 0 THEN {b} \ {Nil} ELSE Follow(g[n - 1])
LEMMA ReachIs ==
  ASSUME NEW b, NEW g, Reaching(b, g)
  PROVE  Implicit!Chain(b) = g[Cardinality(Block)]
<1> DEFINE Body(r) == [n \in 0 .. Implicit!Cardinality(Block) |->
        IF n = 0 THEN {b} \ {Nil}
        ELSE r[n - 1] \cup ({next[x] : x \in r[n - 1]} \ {Nil})]
<1>1. Implicit!Chain(b) = (CHOOSE r : r = Body(r))[Implicit!Cardinality(Block)]
  BY DEF Implicit!Chain
<1>2. PICK N : N = Cardinality(Block) /\ N = Implicit!Cardinality(Block)
  BY SameCardinality
<1>3. N \in Nat
  BY <1>2, ProducerBaseAssumption, FS_CardinalityType
<1>4. ASSUME NEW r PROVE Body(r) = [n \in 0 .. N |-> IF n = 0 THEN {b} \ {Nil} ELSE Follow(r[n - 1])]
  BY <1>2 DEF Follow
<1>5. g = Body(g)
  <2>1. \A n \in 0 .. N : g[n] = IF n = 0 THEN {b} \ {Nil} ELSE Follow(g[n - 1])
    BY <1>2, <1>3 DEF Reaching
  <2>2. g = [n \in 0 .. N |-> g[n]]
    BY <1>2 DEF Reaching
  <2> HIDE DEF Body
  <2> QED
    BY <1>4, <2>1, <2>2
<1>6. PICK r : r = (CHOOSE y : y = Body(y))
  OBVIOUS
<1>7. r = Body(r)
  <2> HIDE DEF Body
  <2> QED
    BY <1>5, <1>6
<1>8. \A n \in 0 .. N : r[n] = IF n = 0 THEN {b} \ {Nil} ELSE Follow(r[n - 1])
  <2>1. r = [n \in 0 .. N |-> IF n = 0 THEN {b} \ {Nil} ELSE Follow(r[n - 1])]
    <3> HIDE DEF Body
    <3> QED
      BY <1>4, <1>7
  <2> QED
    BY <2>1
<1> HIDE DEF Body
<1>9. \A n \in 0 .. N : g[n] = IF n = 0 THEN {b} \ {Nil} ELSE Follow(g[n - 1])
  BY <1>2, <1>3 DEF Reaching
<1> DEFINE S == {n \in 0 .. N : r[n] # g[n]}
<1>10. S = {}
  <2>1. SUFFICES ASSUME S # {} PROVE FALSE
    OBVIOUS
  <2>2. PICK n \in S : \A m \in S : n <= m
    <3>1. S \in SUBSET Nat
      BY <1>3
    <3> HIDE DEF S
    <3> QED
      BY <2>1, <3>1, Smallest
  <2>3. n \in 0 .. N /\ r[n] # g[n]
    BY <2>2
  <2>4. n # 0
    BY <1>8, <1>9, <2>3
  <2>5. n - 1 \in 0 .. N /\ ~(n <= n - 1)
    BY <1>3, <2>3, <2>4
  <2>6. r[n - 1] = g[n - 1]
    BY <2>2, <2>5
  <2> QED
    BY <1>8, <1>9, <2>3, <2>4, <2>6
<1>11. r[N] = g[N]
  BY <1>3, <1>10
<1> QED
  BY <1>1, <1>2, <1>6, <1>11

(* The chain of the blocks of a call is the blocks that it has taken.      *)
Firsts(p, t, ch, k) == {ch[m] : m \in {n \in p + 1 .. t : n <= p + 1 + k}}
LEMMA TakenMore ==
  ASSUME NEW p \in Int, NEW t \in Int, p <= t, NEW ch, Nil \notin {ch[m] : m \in p + 1 .. t},
         Chained(next, p, t, ch), NEW k \in Nat \ {0}
  PROVE  Firsts(p, t, ch, k) = Follow(Firsts(p, t, ch, k - 1))
<1>1. PICK l \in Int : l = p + 1 + k /\ k - 1 \in Nat /\ p + 1 + (k - 1) = l - 1
  OBVIOUS
<1>2. PICK S, R : /\ S = {n \in p + 1 .. t : n <= l} /\ R = {n \in p + 1 .. t : n <= l - 1}
                  /\ Firsts(p, t, ch, k) = {ch[m] : m \in S}
                  /\ Firsts(p, t, ch, k - 1) = {ch[m] : m \in R}
  BY <1>1 DEF Firsts
<1>3. \A m \in R : next[ch[m]] = IF m = t THEN Nil ELSE ch[m + 1]
  BY <1>2 DEF Chained
<1>4. \A m \in R : m \in S /\ (m # t => m + 1 \in S) /\ (m + 1 \in S => m # t)
  BY <1>1, <1>2
<1>5. \A m \in S : m \in R \/ (m - 1 \in R /\ m - 1 # t /\ (m - 1) + 1 = m)
  <2>1. TAKE m \in S
  <2>2. m \in Int /\ p + 1 <= m /\ m <= t /\ m <= l
    BY <1>2
  <2>3. CASE m <= l - 1
    BY <1>2, <2>2, <2>3
  <2>4. CASE m = l
    BY <1>1, <1>2, <2>2, <2>4
  <2> QED
    BY <1>1, <2>2, <2>3, <2>4
<1>6. \A m \in S : ch[m] # Nil
  BY <1>2
<1> QED
  BY <1>2, <1>3, <1>4, <1>5, <1>6 DEF Follow

LEMMA ChainIs ==
  ASSUME NEW all, all \subseteq Block, Nil \notin all, NEW p, NEW t, NEW w, NEW ch, NEW blk,
         Chosen(all, p, t, w, ch, blk), Chained(next, p, t, ch),
         NEW first, first = FirstTaken(p, t, ch)
  PROVE  Implicit!Chain(first) = Loose(p, t, ch)
<1>0. /\ p \in Int /\ t \in Int /\ p <= t /\ ch \in [p + 1 .. t -> all]
      /\ \A m, n \in p + 1 .. t : ch[m] = ch[n] => m = n
  BY DEF Chosen
<1>1. PICK N \in Nat : N = Cardinality(Block) /\ t - p <= N
  <2>1. PICK S, q : S = p + 1 .. t /\ q = p + 1 /\ q \in Int
    BY <1>0
  <2>2. IsFiniteSet(Block) /\ Cardinality(Block) \in Nat
    BY ProducerBaseAssumption, FS_CardinalityType
  <2>3. ch \in Injection(S, Block)
    BY <1>0, <2>1 DEF Injection, IsInjective
  <2>4. Cardinality(S) <= Cardinality(Block)
    BY <2>2, <2>3, FS_Injection
  <2>5. Cardinality(q .. t) = IF q > t THEN 0 ELSE t - q + 1
    BY <1>0, <2>1, FS_Interval
  <2> QED
    BY <1>0, <2>1, <2>2, <2>4, <2>5
<1>2. PICK g : g = [n \in 0 .. N |-> Firsts(p, t, ch, n)]
  OBVIOUS
<1>3. Nil \notin {ch[m] : m \in p + 1 .. t}
  BY <1>0
<1>4. g[0] = {first} \ {Nil}
  <2>1. g[0] = Firsts(p, t, ch, 0)
    BY <1>1, <1>2
  <2>2. CASE t = p
    BY <1>0, <2>1, <2>2 DEF Firsts, FirstTaken
  <2>3. CASE t # p
    <3>1. {n \in p + 1 .. t : n <= p + 1 + 0} = {p + 1} /\ ch[p + 1] # Nil
      BY <1>0, <1>3, <2>3
    <3> QED
      BY <2>1, <2>3, <3>1 DEF Firsts, FirstTaken
  <2> QED
    BY <2>2, <2>3
<1>5. ASSUME NEW n \in 0 .. N, n # 0 PROVE g[n] = Follow(g[n - 1])
  <2>1. n \in Nat \ {0} /\ n - 1 \in 0 .. N
    BY <1>1, <1>5
  <2>2. Firsts(p, t, ch, n) = Follow(Firsts(p, t, ch, n - 1))
    BY <1>0, <1>3, <2>1, TakenMore
  <2> QED
    BY <1>2, <2>1, <2>2
<1>6. Reaching(first, g)
  BY <1>1, <1>2, <1>4, <1>5 DEF Reaching
<1>7. Implicit!Chain(first) = g[N]
  BY <1>1, <1>6, ReachIs
<1>8. {n \in p + 1 .. t : n <= p + 1 + N} = p + 1 .. t
  BY <1>0, <1>1
<1>9. g[N] = Loose(p, t, ch)
  BY <1>1, <1>2, <1>8 DEF Firsts, Loose
<1> QED
  BY <1>7, <1>9

(* A call is over: no block is its own any more.                           *)
None(p) == [m \in p + 1 .. p |-> Nil]
LEMMA NoneChosen ==
  ASSUME NEW all, NEW p, NEW t, NEW w, NEW ch, NEW blk, Chosen(all, p, t, w, ch, blk),
         \A m \in DOMAIN blk : m \in Int, NEW cy, cy = None(p)
  PROVE  /\ w = t => Chosen(all, p, p, p, cy, blk)
         /\ Chosen(all, t, t, t, None(t), blk) /\ Loose(p, p, cy) = {}
<1>1. /\ p \in Int /\ t \in Int /\ w \in Int /\ p <= w /\ w <= t
      /\ \A m \in DOMAIN blk : m <= t
      /\ \A m \in p + 1 .. t : m \in DOMAIN blk <=> w < m
  BY DEF Chosen
<1>2. p + 1 .. p = {} /\ t + 1 .. t = {}
  BY <1>1
<1>3. w = t => \A m \in DOMAIN blk : m <= p
  <2>1. SUFFICES ASSUME w = t, NEW m \in DOMAIN blk, ~(m <= p) PROVE FALSE
    OBVIOUS
  <2>2. m \in Int /\ m <= t /\ m \in p + 1 .. t
    BY <1>1, <2>1
  <2> QED
    BY <1>1, <2>1, <2>2
<1>4. cy \in [p + 1 .. p -> all] /\ None(t) \in [t + 1 .. t -> all]
  BY <1>2 DEF None
<1> QED
  BY <1>1, <1>2, <1>3, <1>4 DEF Chosen, Loose

LEMMA OwnReturned ==
  ASSUME NEW all, NEW pl, NEW loose, NEW blk, NEW dq, Owned(all, pl, loose, blk, dq)
  PROVE  Owned(all, pl \cup loose, {}, blk, dq)
  BY DEF Owned

LEMMA FreeKeeps ==
  ASSUME Counted, InOrder, NEW z, NEW num, NEW f, NEW blk, NEW t, NEW w, NEW ch,
         Settled(z, num, f, blk, t, w, ch), Implicit!FreeChain,
         NEW p, p = Tip(enqueued), NEW cy, cy = None(p)
  PROVE  Settled(z, num, f, blk, p, p, cy)'
<1>1. enq.pc = "free"
  BY DEF Implicit!FreeChain, Implicit!Calling
<1>2. /\ Withdrawing(setup.start, enq, next, enqueued, t, w, ch, f, blk)
      /\ next \in [Block -> BlockOrNil]
      /\ Built(setup.start, enq, enqueued) = enqueued
      /\ t \in Int /\ p \in Int /\ p <= t /\ w = t
      /\ f = t - (w - p)
      /\ Chosen(setup.blocks, p, t, w, ch, blk)
      /\ SetupOK /\ setup.blocks \subseteq Block /\ Nil \notin setup.blocks
  BY <1>1, WithdrawingNow
<1>3. f = p
  BY <1>2
<1>4. /\ UNCHANGED <<setup, headIndex, elements, dequeued, next, index, entry, deq, enqueued>>
      /\ tailBlock' = enq.start /\ enq' = NoCall /\ pool' = pool \cup Implicit!Chain(enq.first)
  BY DEF Implicit!FreeChain, Implicit!counters, Implicit!blockIndex, NoCall, Implicit!NoCall
<1>5. Implicit!Chain(enq.first) = Loose(p, w, ch)
  <2>1. PICK first : first = enq.first /\ first = FirstTaken(p, t, ch)
    BY <1>2 DEF Withdrawing
  <2>2. Chained(next, p, t, ch)
    BY <1>2 DEF Withdrawing
  <2>3. Implicit!Chain(first) = Loose(p, t, ch)
    BY <1>2, <2>1, <2>2, ChainIs
  <2> QED
    BY <1>2, <2>1, <2>3
<1>6. Chosen(setup.blocks, p, p, p, cy, blk) /\ Loose(p, p, cy) = {}
  <2>1. \A m \in DOMAIN blk : m \in Int
    BY DEF Settled, Indexed, Listed
  <2> QED
    BY <1>2, <2>1, NoneChosen
<1>7. Owned(setup.blocks, pool', Loose(p, p, cy), blk, deq)
  BY <1>4, <1>5, <1>6, OwnReturned DEF Settled
<1>8. enq'.pc = "idle" /\ Built(setup.start, enq', enqueued) = enqueued
  BY <1>4 DEF NoCall, Built
<1>9. Producing(setup.start, enq', tailBlock', next, enqueued, p, p, cy, f, blk)
  <2>1. Starts(enq.start, Nil, next, enqueued, blk)
    BY <1>2 DEF Withdrawing
  <2>2. Resting(enq', tailBlock', next, enqueued, p, p, f, blk)
    BY <1>3, <1>4, <2>1 DEF Resting
  <2>3. tailBlock' \in BlockOrNil
    BY <1>4, <2>1 DEF Starts
  <2> QED
    BY <1>2, <1>8, <2>2, <2>3 DEF Producing, FindingPcs
<1>10. Marked(enq'.pc, Rings(index), entry, z, num, f, blk)
  BY <1>1, <1>8 DEF Settled, Marked, Unsettled
<1>11. HeadNo' = HeadNo
  BY <1>4 DEF HeadNo, Off, Minus
<1>12. PresentNow' = PresentNow /\ GoneNow' = GoneNow
  BY <1>2, <1>4, <1>8, <1>11 DEF PresentNow, GoneNow
<1>13. Rings(index)' = Rings(index)
  BY <1>4 DEF Rings
<1> QED
  BY <1>4, <1>6, <1>7, <1>9, <1>10, <1>11, <1>12, <1>13 DEF Settled

(* Elements are built in their block.                                      *)
Filled(el, b, k, a, s) ==
  [el EXCEPT ![b] = [j \in Slot |-> IF j \in Slots(a, s) THEN k + j ELSE el[b][j]]]
LEMMA SlotIndex ==
  ASSUME SetupOK, NEW n \in Int, NEW j \in Slot
  PROVE  Key(setup.start, n) + j = Plus(setup.start, SlotOf(n, j))
<1>1. PICK x : /\ x = SlotOf(n, j) /\ x \in Int /\ x \div BLOCK_SIZE = n /\ x % BLOCK_SIZE = j
               /\ n * BLOCK_SIZE \in Int /\ j \in Int
  BY SlotFacts
<1>2. Idx(x) % BLOCK_SIZE = j /\ BlockBase(Idx(x)) = Idx(n * BLOCK_SIZE)
  BY <1>1, IdxBlock
<1>3. Idx(x) \in Int
  <2>1. Idx(x) \in Index /\ Index \subseteq Int
    BY <1>1, OffsetFacts DEF Index
  <2> QED
    BY <2>1
<1>4. Key(setup.start, n) = Idx(n * BLOCK_SIZE)
  BY KeyFacts
<1>5. Key(setup.start, n) = Idx(x) - j
  BY <1>2, <1>4 DEF BlockBase
<1> QED
  BY <1>1, <1>3, <1>5 DEF Idx

LEMMA StoredFilled ==
  ASSUME SetupOK, NEW el, NEW out, NEW blk, NEW present, NEW gone,
         Stored(setup.start, el, out, blk, present, gone),
         \A m \in DOMAIN blk : m \in Int /\ blk[m] \in Block,
         \A m, k \in DOMAIN blk : blk[m] = blk[k] => m = k,
         NEW n \in DOMAIN blk, NEW a, NEW s, Within(n, a, s), NEW b, b = blk[n],
         NEW ey, ey = Filled(el, b, Key(setup.start, n), a, s),
         NEW py, py = present \cup (a .. s - 1)
  PROVE  Stored(setup.start, ey, out, blk, py, gone)
<1>1. n \in Int /\ b \in Block
  OBVIOUS
<1>2. /\ el \in [Block -> [Slot -> Index \cup {Nil}]] /\ out \in [Block -> 0 .. BLOCK_SIZE]
      /\ \A m \in DOMAIN blk : \A j \in Slot :
           el[blk[m]][j] = IF SlotOf(m, j) \in present THEN Plus(setup.start, SlotOf(m, j)) ELSE Nil
      /\ \A m \in DOMAIN blk : out[blk[m]] = Cardinality(GoneOf(m, gone))
      /\ \A x \in Block : (\A m \in DOMAIN blk : blk[m] # x) => el[x] = Vacant
      /\ \A x \in present : x \div BLOCK_SIZE \in DOMAIN blk
  BY StoredMeans
<1>3. PICK row : row = [j \in Slot |-> IF j \in Slots(a, s) THEN Key(setup.start, n) + j ELSE el[b][j]]
  OBVIOUS
<1>4. ASSUME NEW j \in Slot
      PROVE  row[j] = IF j \in Slots(a, s) THEN Plus(setup.start, SlotOf(n, j)) ELSE el[b][j]
  <2>1. Key(setup.start, n) + j = Plus(setup.start, SlotOf(n, j))
    BY <1>1, SlotIndex
  <2> QED
    BY <1>3, <2>1
<1>5. row \in [Slot -> Index \cup {Nil}]
  <2>1. ASSUME NEW j \in Slot PROVE row[j] \in Index \cup {Nil}
    <3>1. Plus(setup.start, SlotOf(n, j)) \in Index
      <4>1. SlotOf(n, j) \in Int /\ setup.start \in Int
        BY <1>1, SlotFacts, SetupMore
      <4> QED
        BY <4>1, IndexTyped
    <3> QED
      BY <1>1, <1>2, <1>4, <3>1
  <2> QED
    BY <1>3, <2>1
<1>6. /\ ey \in [Block -> [Slot -> Index \cup {Nil}]] /\ ey[b] = row
      /\ \A x \in Block : x # b => ey[x] = el[x]
  <2>1. ey = [el EXCEPT ![b] = row]
    BY <1>3 DEF Filled
  <2> QED
    BY <1>1, <1>2, <1>5, <2>1
<1>7. ASSUME NEW m \in DOMAIN blk, NEW j \in Slot
      PROVE  ey[blk[m]][j] = IF SlotOf(m, j) \in py THEN Plus(setup.start, SlotOf(m, j)) ELSE Nil
  <2>1. CASE m = n
    <3>1. j \in Slots(a, s) <=> SlotOf(n, j) \in a .. s - 1
      BY SlotsFacts
    <3> QED
      BY <1>2, <1>4, <1>6, <2>1, <3>1
  <2>2. CASE m # n
    <3>1. SlotOf(m, j) \notin a .. s - 1
      BY <2>2, SlotsFacts
    <3> QED
      BY <1>2, <1>6, <2>2, <3>1
  <2> QED
    BY <2>1, <2>2
<1>8. ASSUME NEW x \in Block, \A m \in DOMAIN blk : blk[m] # x PROVE ey[x] = Vacant
  BY <1>2, <1>6, <1>8
<1>9. ASSUME NEW x \in py PROVE x \div BLOCK_SIZE \in DOMAIN blk
  <2>1. CASE x \in a .. s - 1
    <3>1. x \in Int /\ n * BLOCK_SIZE <= x /\ x < n * BLOCK_SIZE + BLOCK_SIZE
      <4>1. n * BLOCK_SIZE \in Int /\ BLOCK_SIZE \in Int
        BY <1>1, SetupMore, MulStep
      <4> QED
        BY <2>1, <4>1 DEF Within
    <3>2. x \div BLOCK_SIZE = n
      BY <1>1, <3>1, SetupMore, DivIs
    <3> QED
      BY <3>2
  <2> QED
    BY <1>2, <2>1
<1> QED
  BY <1>2, <1>6, <1>7, <1>8, <1>9, StoredMeans

(* The elements that a call of the producer builds next.                   *)
LEMMA BuildsFacts ==
  ASSUME Counted, InOrder, NEW z, NEW num, NEW f, NEW blk, NEW t, NEW w, NEW ch,
         Settled(z, num, f, blk, t, w, ch), enq.pc = "construct"
  PROVE  \E a, s, e, m \in Int :
           /\ a = Begin(setup.start, enq) /\ enq.at = Idx(a) /\ enqueued <= a /\ a < s /\ s <= e
           /\ e = enqueued + enq.n /\ e \in Index /\ End = Idx(e)
           /\ m = Number(setup.start, enq) /\ m \in DOMAIN blk /\ m <= t /\ Within(m, a, s)
           /\ s = StopAt(a, e) /\ s \in Index
           /\ m = t => s = e
           /\ m < t => /\ s < e /\ s \div BLOCK_SIZE = m + 1 /\ m + 1 \in DOMAIN blk
                       /\ next[blk[m]] = blk[m + 1]
           /\ tailBlock = blk[m] /\ enq.last = blk[t] /\ t \in DOMAIN blk
<1>1. Constructing(setup.start, enq, tailBlock, next, enqueued, t, w, f, blk)
  BY DEF Settled, Producing
<1>2. /\ SetupOK /\ enqueued \in Nat /\ tailIndex = Idx(enqueued) /\ enq.n \in Nat \ {0}
      /\ enqueued + enq.n <= setup.elements /\ setup.elements \in Nat
      /\ setup.elements <= Modulus - BLOCK_SIZE /\ BLOCK_SIZE \in Nat \ {0} /\ Modulus \in Nat \ {0}
  BY CountsFacts, SetupMore
<1>3. t \in Int /\ t = Last(enqueued, enq.n)
  BY <1>1, FrontFacts DEF Constructing
<1>4. PICK a, e \in Int : a = Begin(setup.start, enq) /\ e = enqueued + enq.n
  <2>1. enq.at \in Index
    BY <1>1 DEF Constructing
  <2>2. Index \subseteq Int
    BY <1>2 DEF Index
  <2>3. Begin(setup.start, enq) \in Index
    <3>1. setup.start \in Int
      BY <1>2, SetupMore
    <3>2. enq.at \in Int
      BY <2>1, <2>2
    <3> QED
      BY <1>2, <3>1, <3>2 DEF Begin, Minus, Index
  <2>4. Begin(setup.start, enq) \in Int
    BY <2>2, <2>3
  <2> QED
    BY <1>2, <2>4
<1>5. enq.at = Idx(a) /\ enqueued <= a /\ a < e
  <2>1. enq.at \in Index /\ enqueued <= a /\ a < e
    BY <1>1, <1>4 DEF Constructing
  <2>2. Idx(Off(enq.at)) = enq.at
    BY <1>2, <2>1, OffsetFacts
  <2> QED
    BY <1>4, <2>1, <2>2 DEF Off, Begin
<1>6. e \in Index /\ e < Modulus /\ a \in Index
  BY <1>2, <1>4, <1>5 DEF Index
<1>7. End = Idx(e)
  <2>1. Plus(Idx(enqueued), enq.n) = Idx(enqueued + enq.n)
    <3>1. PICK x \in Int, n \in Int : x = enqueued /\ n = enq.n
      BY <1>2
    <3>2. Plus(Idx(x), n) = Idx(x + n)
      BY <1>2, OffsetFacts
    <3> QED
      BY <3>1, <3>2
  <2> QED
    BY <1>2, <1>4, <2>1 DEF End
<1>8. PICK m, r \in Int : /\ m = a \div BLOCK_SIZE /\ r = m * BLOCK_SIZE /\ r <= a /\ a < r + BLOCK_SIZE
                          /\ (m + 1) * BLOCK_SIZE = r + BLOCK_SIZE
  <2>1. /\ a \div BLOCK_SIZE \in Int /\ (a \div BLOCK_SIZE) * BLOCK_SIZE <= a
        /\ a < (a \div BLOCK_SIZE) * BLOCK_SIZE + BLOCK_SIZE
    BY <1>2, DivFacts
  <2>2. PICK m \in Int : m = a \div BLOCK_SIZE
    BY <2>1
  <2>3. m * BLOCK_SIZE \in Int /\ (m + 1) * BLOCK_SIZE = m * BLOCK_SIZE + BLOCK_SIZE
    BY <1>2, MulStep
  <2> QED
    BY <2>1, <2>2, <2>3
<1>9. m = Number(setup.start, enq)
  BY <1>4, <1>8 DEF Number
<1>10. (r < e <=> m <= t) /\ (r + BLOCK_SIZE < e <=> m + 1 <= t)
  <2>1. t = Tip(e)
    BY <1>3, <1>4 DEF Last
  <2>2. \A x \in Int : x * BLOCK_SIZE < e <=> x <= t
    BY <1>2, <2>1, TipFacts
  <2>3. m + 1 \in Int
    BY <1>8
  <2> QED
    BY <1>8, <2>2, <2>3
<1>11. m <= t /\ m \in DOMAIN blk /\ t \in DOMAIN blk
  <2>1. m <= t
    BY <1>2, <1>5, <1>8, <1>10
  <2>2. \A x \in m .. t : x \in DOMAIN blk
    BY <1>1, <1>9 DEF Constructing
  <2> QED
    BY <1>3, <1>8, <2>1, <2>2
<1>12. tailBlock = blk[m] /\ enq.last = blk[t]
  BY <1>1, <1>9 DEF Constructing
<1>13. PICK s \in Int : /\ s = StopAt(a, e) /\ a < s /\ s <= e
                        /\ s = IF e < r + BLOCK_SIZE THEN e ELSE r + BLOCK_SIZE
  <2>1. StopAt(a, e) = IF e < r + BLOCK_SIZE THEN e ELSE r + BLOCK_SIZE
    BY <1>8 DEF StopAt
  <2>2. StopAt(a, e) \in Int /\ a < StopAt(a, e) /\ StopAt(a, e) <= e
    BY <1>2, <1>5, StopAtFacts
  <2> QED
    BY <2>1, <2>2
<1>14. Within(m, a, s) /\ s \in Index
  BY <1>2, <1>4, <1>5, <1>6, <1>8, <1>13 DEF Within, Index
<1>15. m = t => s = e
  BY <1>2, <1>3, <1>8, <1>10, <1>13
<1>16. m < t => s < e /\ s = r + BLOCK_SIZE /\ m + 1 <= t
  BY <1>2, <1>3, <1>8, <1>10, <1>13
<1>17. ASSUME m < t
       PROVE  s \div BLOCK_SIZE = m + 1 /\ m + 1 \in DOMAIN blk /\ next[blk[m]] = blk[m + 1]
  <2>1. PICK k \in Int : k = m + 1
    BY <1>8
  <2>2. k * BLOCK_SIZE <= s /\ s < k * BLOCK_SIZE + BLOCK_SIZE
    BY <1>2, <1>8, <1>13, <1>16, <1>17, <2>1
  <2>3. s \div BLOCK_SIZE = k
    BY <1>2, <2>1, <2>2, DivIs
  <2>4. k \in m .. t /\ m \in m .. t - 1
    BY <1>3, <1>8, <1>16, <1>17, <2>1
  <2>5. k \in DOMAIN blk /\ next[blk[m]] = blk[m + 1]
    BY <1>1, <1>9, <2>4 DEF Constructing
  <2> QED
    BY <2>1, <2>3, <2>5
<1> QED
  <2>1. /\ a = Begin(setup.start, enq) /\ enq.at = Idx(a) /\ enqueued <= a /\ a < s /\ s <= e
           /\ e = enqueued + enq.n /\ e \in Index /\ End = Idx(e)
           /\ m = Number(setup.start, enq) /\ m \in DOMAIN blk /\ m <= t /\ Within(m, a, s)
           /\ s = StopAt(a, e) /\ s \in Index
    BY <1>4, <1>5, <1>6, <1>7, <1>9, <1>11, <1>13, <1>14
  <2>2. m < t => /\ s < e /\ s \div BLOCK_SIZE = m + 1 /\ m + 1 \in DOMAIN blk
                       /\ next[blk[m]] = blk[m + 1]
    BY <1>16, <1>17
  <2> QED
    BY <1>11, <1>12, <1>15, <2>1, <2>2

(* What the step does, in numbers.                                         *)
LEMMA ConstructMeans ==
  ASSUME Counted, InOrder, NEW z, NEW num, NEW f, NEW blk, NEW t, NEW w, NEW ch,
         Settled(z, num, f, blk, t, w, ch), Implicit!Construct,
         NEW a \in Int, NEW s \in Int, NEW e \in Int, NEW m \in Int,
         a = Begin(setup.start, enq), enq.at = Idx(a), a < s, s <= e,
         e = enqueued + enq.n, End = Idx(e), m = Number(setup.start, enq),
         m \in DOMAIN blk, m <= t, Within(m, a, s), s = StopAt(a, e),
         tailBlock = blk[m], enq.last = blk[t], t \in DOMAIN blk
  PROVE  /\ elements' = Filled(elements, blk[m], Key(setup.start, m), a, s)
         /\ m = t => enq' = [pc |-> "publish", n |-> enq.n] /\ tailBlock' = tailBlock
         /\ m < t => tailBlock' = next[tailBlock] /\ enq' = [enq EXCEPT !.at = Idx(s)]
<1>1. /\ SetupOK /\ BLOCK_SIZE \in Nat \ {0} /\ Half \in Nat /\ Modulus \in Nat
      /\ BLOCK_SIZE <= Half /\ Modulus = 2 * Half /\ enqueued \in Nat
  BY CountsFacts, SetupMore
<1>2. /\ f = t /\ t = Last(enqueued, enq.n) /\ t \in Int
  <2>1. enq.pc = "construct"
    BY DEF Implicit!Construct, Implicit!Calling
  <2> QED
    BY <2>1, FrontFacts DEF Settled, Producing, Constructing
<1>3. m * BLOCK_SIZE \in Int /\ (t + 1) * BLOCK_SIZE \in Int
      /\ (t + 1) * BLOCK_SIZE <= m * BLOCK_SIZE + Half
  <2>1. Indexed(Rings(index), entry, z, num, f, blk, Tip(enqueued), setup.start, setup.indexSize)
    BY DEF Settled
  <2>2. (f + 1) * BLOCK_SIZE <= m * BLOCK_SIZE + Half
    BY <1>1, <1>2, <2>1, WindowRoom
  <2>3. m * BLOCK_SIZE \in Int
    BY <1>1, MulStep
  <2>4. t + 1 \in Int
    BY <1>2
  <2>5. (t + 1) * BLOCK_SIZE \in Int
    BY <1>1, <2>4, MulStep
  <2> QED
    BY <1>2, <2>2, <2>3, <2>5
<1>4. e <= (t + 1) * BLOCK_SIZE
  <2>1. t = Tip(e)
    BY <1>2 DEF Last
  <2>2. \A x \in Int : x * BLOCK_SIZE < e <=> x <= t
    BY <1>1, <2>1, TipFacts
  <2>3. t + 1 \in Int /\ ~(t + 1 <= t)
    BY <1>2
  <2>4. ~((t + 1) * BLOCK_SIZE < e)
    BY <2>2, <2>3
  <2> QED
    BY <1>3, <2>4
<1>5. a \div BLOCK_SIZE = m
  BY DEF Number
<1>6. StopIndex(Idx(a), Idx(e)) = Idx(s)
  <2>1. e <= (a \div BLOCK_SIZE) * BLOCK_SIZE + BLOCK_SIZE + Half
    BY <1>1, <1>3, <1>4, <1>5
  <2>2. a < e
    OBVIOUS
  <2> QED
    BY <1>1, <2>1, <2>2, StopIs
<1>7. SlotsOf(Idx(a), Idx(s)) = Slots(a, s)
  <2>1. a <= s /\ s - a < Modulus
    <3>1. m * BLOCK_SIZE <= a /\ s <= m * BLOCK_SIZE + BLOCK_SIZE /\ m * BLOCK_SIZE \in Int
      BY <1>3 DEF Within
    <3> QED
      BY <1>1, <3>1
  <2> QED
    BY <1>1, <2>1, RowIs DEF Slots
<1>8. BlockBase(Idx(a)) = Key(setup.start, m)
  <2>1. BlockBase(Idx(a)) = Idx(m * BLOCK_SIZE)
    BY <1>1, <1>5, IdxBlock
  <2> QED
    BY <1>1, <2>1, KeyFacts
<1>9. PICK stop : stop = StopIndex(enq.at, End) /\ stop = Idx(s)
  BY <1>6
<1>10. /\ elements' = [elements EXCEPT ![tailBlock] =
                         [j \in Slot |-> IF j \in SlotsOf(enq.at, stop)
                                         THEN BlockBase(enq.at) + j
                                         ELSE elements[tailBlock][j]]]
       /\ IF tailBlock = enq.last
          THEN enq' = [pc |-> "publish", n |-> enq.n] /\ UNCHANGED tailBlock
          ELSE tailBlock' = next[tailBlock] /\ enq' = [enq EXCEPT !.at = stop]
  <2>1. Implicit!StopIndex(enq.at, Implicit!End) = stop
    BY <1>9, SharedOnes DEF Implicit!End, Implicit!Plus, End, Plus
  <2> QED
    BY <2>1, SharedOnes DEF Implicit!Construct, Implicit!Slot, Slot, Implicit!BlockBase, BlockBase
<1>11. elements' = Filled(elements, blk[m], Key(setup.start, m), a, s)
  <2>1. SlotsOf(enq.at, stop) = Slots(a, s) /\ BlockBase(enq.at) = Key(setup.start, m)
    BY <1>7, <1>8, <1>9
  <2> QED
    BY <1>10, <2>1 DEF Filled
<1>12. tailBlock = enq.last <=> m = t
  <2>1. \A x, y \in DOMAIN blk : blk[x] = blk[y] => x = y
    BY DEF Settled, Owned
  <2> QED
    BY <2>1
<1>13. m < t => m # t
  BY <1>2
<1>14. m = t => enq' = [pc |-> "publish", n |-> enq.n] /\ tailBlock' = tailBlock
  BY <1>10, <1>12
<1>15. tailBlock # enq.last => tailBlock' = next[tailBlock] /\ enq' = [enq EXCEPT !.at = Idx(s)]
  BY <1>9, <1>10
<1> QED
  BY <1>11, <1>12, <1>13, <1>14, <1>15

(* The call after the step.                                                *)
LEMMA ConstructCall ==
  ASSUME Counted, InOrder, NEW z, NEW num, NEW f, NEW blk, NEW t, NEW w, NEW ch,
         Settled(z, num, f, blk, t, w, ch), enq.pc = "construct",
         NEW s \in Int, NEW e \in Int, NEW m \in Int, enqueued < s, s <= e,
         e = enqueued + enq.n, m = Number(setup.start, enq), m <= t, m = t => s = e,
         m < t => /\ s < e /\ s \div BLOCK_SIZE = m + 1 /\ m + 1 \in DOMAIN blk
                  /\ next[blk[m]] = blk[m + 1],
         tailBlock = blk[m], t \in DOMAIN blk, s \in Index,
         \A x \in DOMAIN blk : blk[x] \in Block,
         m = t => enq' = [pc |-> "publish", n |-> enq.n] /\ tailBlock' = tailBlock,
         m < t => tailBlock' = next[tailBlock] /\ enq' = [enq EXCEPT !.at = Idx(s)]
  PROVE  /\ Producing(setup.start, enq', tailBlock', next, enqueued, t, w, ch, f, blk)
         /\ Built(setup.start, enq', enqueued) = s
         /\ enq'.pc \in {"construct", "publish"}
<1>1. /\ Constructing(setup.start, enq, tailBlock, next, enqueued, t, w, f, blk)
      /\ next \in [Block -> BlockOrNil] /\ tailBlock \in BlockOrNil
  BY DEF Settled, Producing
<1>2. SetupOK /\ enqueued \in Nat /\ t \in Int
  BY CountsFacts, FrontFacts
<1>3. CASE m = t
  <2>1. PICK d : d = [pc |-> "publish", n |-> enq.n] /\ enq' = d /\ tailBlock' = blk[t]
    BY <1>3
  <2>2. d.pc = "publish" /\ d.n = enq.n
    BY <2>1
  <2>3. Publishing(d, blk[t], enqueued, t, w, f, blk)
    BY <1>1, <2>2 DEF Constructing, Publishing
  <2>4. Producing(setup.start, d, blk[t], next, enqueued, t, w, ch, f, blk)
    BY <1>1, <1>3, <2>2, <2>3 DEF Producing, FindingPcs
  <2>5. Built(setup.start, d, enqueued) = s
    BY <1>3, <2>2 DEF Built
  <2> QED
    BY <2>1, <2>2, <2>4, <2>5
<1>4. CASE m < t
  <2>1. PICK d : d = [enq EXCEPT !.at = Idx(s)] /\ enq' = d /\ tailBlock' = blk[m + 1]
    BY <1>4
  <2>2. /\ {"pc", "n", "at", "last"} \subseteq DOMAIN d /\ d.pc = "construct"
        /\ d.n = enq.n /\ d.last = enq.last /\ d.at = Idx(s)
    BY <1>1, <2>1 DEF Constructing
  <2>3. Idx(s) \in Index /\ Off(Idx(s)) = s
    BY <1>2, OffsetFacts
  <2>4. Begin(setup.start, d) = s
    BY <2>2, <2>3 DEF Begin, Off
  <2>5. PICK k \in Int : k = m + 1
    OBVIOUS
  <2>6. Number(setup.start, d) = k
    BY <1>4, <2>4, <2>5 DEF Number
  <2>7. \A x \in k .. t : x \in m .. t /\ (x \in k .. t - 1 => x \in m .. t - 1)
    BY <1>2, <2>5
  <2>7a. k .. t - 1 \subseteq k .. t
    BY <1>2
  <2>8. /\ \A x \in k .. t : x \in DOMAIN blk
        /\ \A x \in k .. t - 1 : next[blk[x]] = blk[x + 1]
    BY <1>1, <2>7, <2>7a DEF Constructing
  <2>9. Constructing(setup.start, d, blk[k], next, enqueued, t, w, f, blk)
    <3>1. enqueued <= s /\ s < enqueued + enq.n
      BY <1>2, <1>4
    <3>2. w = Tip(enqueued) /\ f = t /\ t = Last(enqueued, enq.n) /\ enq.last = blk[t]
      BY <1>1 DEF Constructing
    <3> QED
      BY <2>2, <2>3, <2>4, <2>6, <2>8, <3>1, <3>2 DEF Constructing
  <2>10. blk[k] \in BlockOrNil
    BY <1>4, <2>5 DEF BlockOrNil
  <2>11. Producing(setup.start, d, blk[k], next, enqueued, t, w, ch, f, blk)
    BY <1>1, <2>2, <2>9, <2>10 DEF Producing, FindingPcs
  <2>12. Built(setup.start, d, enqueued) = s
    BY <2>2, <2>4 DEF Built
  <2> QED
    BY <2>1, <2>2, <2>5, <2>11, <2>12
<1> QED
  BY <1>2, <1>3, <1>4

LEMMA PresentMore ==
  ASSUME NEW st, NEW dq, NEW h \in Int, NEW a \in Int, NEW s \in Int, h <= a, a <= s
  PROVE  Present(st, dq, h, s) = Present(st, dq, h, a) \cup (a .. s - 1)
<1>1. h .. s - 1 = (h .. a - 1) \cup (a .. s - 1)
  OBVIOUS
<1> QED
  BY <1>1 DEF Present

LEMMA ConstructKeeps ==
  ASSUME Counted, InOrder, NEW z, NEW num, NEW f, NEW blk, NEW t, NEW w, NEW ch,
         Settled(z, num, f, blk, t, w, ch), Implicit!Construct
  PROVE  Settled(z, num, f, blk, t, w, ch)'
<1>1. enq.pc = "construct"
  BY DEF Implicit!Construct, Implicit!Calling
<1>2. PICK a, s, e, m \in Int :
           /\ a = Begin(setup.start, enq) /\ enq.at = Idx(a) /\ enqueued <= a /\ a < s /\ s <= e
           /\ e = enqueued + enq.n /\ e \in Index /\ End = Idx(e)
           /\ m = Number(setup.start, enq) /\ m \in DOMAIN blk /\ m <= t /\ Within(m, a, s)
           /\ s = StopAt(a, e) /\ s \in Index
           /\ m = t => s = e
           /\ m < t => /\ s < e /\ s \div BLOCK_SIZE = m + 1 /\ m + 1 \in DOMAIN blk
                       /\ next[blk[m]] = blk[m + 1]
           /\ tailBlock = blk[m] /\ enq.last = blk[t] /\ t \in DOMAIN blk
  BY <1>1, BuildsFacts
<1>3. PICK b, ey : b = blk[m] /\ ey = Filled(elements, b, Key(setup.start, m), a, s)
  OBVIOUS
<1>4. /\ elements' = ey
      /\ m = t => enq' = [pc |-> "publish", n |-> enq.n] /\ tailBlock' = tailBlock
      /\ m < t => tailBlock' = next[tailBlock] /\ enq' = [enq EXCEPT !.at = Idx(s)]
  BY <1>2, <1>3, ConstructMeans
<1>5. /\ SetupOK /\ HeadNo \in Int /\ enqueued \in Int /\ HeadNo <= enqueued
      /\ \A x \in DOMAIN blk : x \in Int /\ blk[x] \in Block
      /\ \A x, y \in DOMAIN blk : blk[x] = blk[y] => x = y
  BY CountsFacts DEF Settled, Indexed, Listed, Owned
<1>6. /\ Producing(setup.start, enq', tailBlock', next, enqueued, t, w, ch, f, blk)
      /\ Built(setup.start, enq', enqueued) = s
      /\ enq'.pc \in {"construct", "publish"}
  <2>1. enqueued < s
    BY <1>2, <1>5
  <2> QED
    BY <1>1, <1>2, <1>4, <1>5, <2>1, ConstructCall
<1>7. UNCHANGED <<setup, headIndex, next, dequeued, pool, index, entry, deq, enqueued>>
  BY DEF Implicit!Construct, Implicit!blockIndex, Implicit!counters
<1>8. HeadNo' = HeadNo
  BY <1>7 DEF HeadNo, Off, Minus
<1>9. GoneNow' = GoneNow
  BY <1>7, <1>8 DEF GoneNow
<1>10. PresentNow' = PresentNow \cup (a .. s - 1)
  <2>1. Built(setup.start, enq, enqueued) = a
    BY <1>1, <1>2 DEF Built
  <2>2. Built(setup.start, enq, enqueued)' = s
    BY <1>6, <1>7
  <2>3. HeadNo <= a /\ a <= s
    BY <1>2, <1>5
  <2>4. Present(setup.start, deq, HeadNo, s) = Present(setup.start, deq, HeadNo, a) \cup (a .. s - 1)
    BY <1>5, <2>3, PresentMore
  <2> QED
    BY <1>7, <1>8, <2>1, <2>2, <2>4 DEF PresentNow
<1>11. Stored(setup.start, ey, dequeued, blk, PresentNow', GoneNow)
  <2>1. Stored(setup.start, elements, dequeued, blk, PresentNow, GoneNow)
    BY DEF Settled
  <2>2. m \in DOMAIN blk /\ Within(m, a, s)
    BY <1>2
  <2> QED
    BY <1>3, <1>5, <1>10, <2>1, <2>2, StoredFilled
<1>12. Marked(enq'.pc, Rings(index), entry, z, num, f, blk)
  BY <1>1, <1>6 DEF Settled, Marked, Unsettled
<1> QED
  BY <1>4, <1>6, <1>7, <1>8, <1>9, <1>11, <1>12 DEF Settled

(* The new tail.                                                           *)
LEMMA TipAhead ==
  ASSUME NEW sl, NEW en, NEW z, NEW num, NEW f, NEW blk, NEW p, NEW st, NEW size,
         Indexed(sl, en, z, num, f, blk, p, st, size), NEW q \in Int, p <= q
  PROVE  Indexed(sl, en, z, num, f, blk, q, st, size)
<1>1. p \in Int /\ num \in [0 .. Size(sl) - 1 -> Int] /\ Size(sl) \in Int
  BY HeaderFacts DEF Indexed, Keys
<1>2. Keys(sl, en, z, num, blk, q, st)
  <2>1. PICK k \in Int : k = Size(sl)
    BY <1>1
  <2>2. Keys(sl, en, z, num, blk, p, st)
    BY DEF Indexed
  <2>3. \A e \in 0 .. Size(sl) - 1 : num[e] \in Int
    BY <1>1
  <2>4. \A e \in 0 .. Size(sl) - 1 : Valid(en, e) => num[e] <= q + Size(sl)
    <3>1. \A x \in Int : x <= p + k => x <= q + k
      BY <1>1
    <3> QED
      BY <2>1, <2>2, <2>3, <3>1 DEF Keys
  <2> QED
    BY <2>2, <2>4 DEF Keys
<1>3. Reach(sl, en, z, num, f, blk, q)
  <2>1. \A n \in Int : Reached(blk, q, n) => Reached(blk, p, n)
    BY <1>1 DEF Reached
  <2> QED
    BY <2>1 DEF Indexed, Reach
<1> QED
  BY <1>2, <1>3 DEF Indexed

LEMMA PublishKeeps ==
  ASSUME Counted, InOrder, NEW z, NEW num, NEW f, NEW blk, NEW t, NEW w, NEW ch,
         Settled(z, num, f, blk, t, w, ch), Implicit!Publish, NEW cy, cy = None(t)
  PROVE  Settled(z, num, f, blk, t, t, cy)'
<1>1. enq.pc = "publish"
  BY DEF Implicit!Publish, Implicit!Calling
<1>2. UNCHANGED <<setup, headIndex, elements, next, dequeued, pool, index, entry, deq, tailBlock>>
  BY DEF Implicit!Publish, Implicit!blockIndex, Implicit!memory
<1>3. enq' = NoCall /\ enqueued' = enqueued + enq.n
  BY DEF Implicit!Publish, Implicit!NoCall, NoCall
<1>4. /\ next \in [Block -> BlockOrNil] /\ tailBlock \in BlockOrNil
      /\ Publishing(enq, tailBlock, enqueued, t, w, f, blk)
  BY <1>1 DEF Settled, Producing
<1>5. /\ t \in Int /\ w = Tip(enqueued) /\ w \in Int /\ w <= t /\ f = t
      /\ t = Tip(enqueued') /\ t \in DOMAIN blk /\ tailBlock = blk[t]
  BY <1>3, <1>4, FrontFacts DEF Publishing, Last
<1>6. Starts(tailBlock, Nil, next, enqueued', blk)
  BY <1>4, <1>5 DEF Starts
<1>7. Producing(setup.start, NoCall, tailBlock, next, enqueued', t, t, cy, f, blk)
  <2>1. NoCall.pc = "idle"
    BY DEF NoCall
  <2>2. Resting(NoCall, tailBlock, next, enqueued', t, t, f, blk)
    BY <1>5, <1>6 DEF Resting
  <2> QED
    BY <1>4, <2>1, <2>2 DEF Producing, FindingPcs
<1>8. HeadNo' = HeadNo
  BY <1>2 DEF HeadNo, Off, Minus
<1>9. GoneNow' = GoneNow /\ PresentNow' = PresentNow
  <2>1. Built(setup.start, enq, enqueued) = enqueued + enq.n
    BY <1>1 DEF Built
  <2>2. Built(setup.start, NoCall, enqueued') = enqueued'
    BY DEF Built, NoCall
  <2> QED
    BY <1>2, <1>3, <1>8, <2>1, <2>2 DEF GoneNow, PresentNow
<1>10. Loose(Tip(enqueued), w, ch) = {} /\ Loose(t, t, cy) = {}
  <2>1. w + 1 .. w = {} /\ t + 1 .. t = {}
    BY <1>5
  <2> QED
    BY <1>5, <2>1 DEF Loose
<1>11. Owned(setup.blocks, pool, Loose(t, t, cy), blk, deq)
  BY <1>10 DEF Settled
<1>12. Chosen(setup.blocks, t, t, t, cy, blk)
  <2>1. Chosen(setup.blocks, Tip(enqueued), t, w, ch, blk) /\ \A m \in DOMAIN blk : m \in Int
    BY DEF Settled, Indexed, Listed
  <2> QED
    BY <2>1, NoneChosen
<1>13. Indexed(Rings(index), entry, z, num, f, blk, t, setup.start, setup.indexSize)
  <2>1. Indexed(Rings(index), entry, z, num, f, blk, w, setup.start, setup.indexSize)
    BY <1>5 DEF Settled
  <2> QED
    BY <1>5, <2>1, TipAhead
<1>14. Marked("idle", Rings(index), entry, z, num, f, blk)
  BY <1>1 DEF Settled, Marked, Unsettled
<1>15. NoCall.pc = "idle"
  BY DEF NoCall
<1>16. Tip(enqueued)' = t
  BY <1>5 DEF Tip
<1> QED
  BY <1>2, <1>3, <1>7, <1>8, <1>9, <1>11, <1>12, <1>13, <1>14, <1>15, <1>16 DEF Settled

(* Every step of the producer.                                             *)
Fitting == \E z, num, f, blk, t, w, ch : Settled(z, num, f, blk, t, w, ch)
LEMMA ProducerKeeps ==
  ASSUME Counted, InOrder, NEW z, NEW num, NEW f, NEW blk, NEW t, NEW w, NEW ch,
         Settled(z, num, f, blk, t, w, ch),
         (\E n \in setup.enqueue : Implicit!Enqueue(n)) \/ Implicit!Produce
  PROVE  Fitting'
<1>1. ASSUME NEW n \in setup.enqueue, Implicit!Enqueue(n) PROVE Fitting'
  BY <1>1, EnqueueKeeps DEF Fitting
<1>2. CASE Implicit!Room
  BY <1>2, RoomKeeps DEF Fitting
<1>3. CASE Implicit!Insert
  BY <1>3, InsertKeeps DEF Fitting
<1>4. CASE Implicit!Grow
  BY <1>4, GrowKeeps DEF Fitting
<1>5. CASE Implicit!StoreTail
  <2>1. PICK g : g = f + 1
    OBVIOUS
  <2>2. Settled(z, num, g, blk, t, w, ch)'
    BY <1>5, <2>1, StoreTailKeeps
  <2> QED
    BY <2>2 DEF Fitting
<1>6. CASE Implicit!TakeBlock
  BY <1>6, TakeKeeps DEF Fitting
<1>7. CASE Implicit!Undo
  BY <1>7, UndoKeeps DEF Fitting
<1>8. CASE Implicit!Unindex
  <2>1. PICK v, g, by : v = w + 1 /\ g = f - 1 /\ by = Without(blk, v)
    OBVIOUS
  <2>2. Settled(z, num, g, by, t, v, ch)'
    BY <1>8, <2>1, UnindexKeeps
  <2> QED
    BY <2>2 DEF Fitting
<1>9. CASE Implicit!FreeChain
  <2>1. PICK p, cy : p = Tip(enqueued) /\ cy = None(p)
    OBVIOUS
  <2>2. Settled(z, num, f, blk, p, p, cy)'
    BY <1>9, <2>1, FreeKeeps
  <2> QED
    BY <2>2 DEF Fitting
<1>10. CASE Implicit!Construct
  BY <1>10, ConstructKeeps DEF Fitting
<1>11. CASE Implicit!Publish
  <2>1. PICK cy : cy = None(t)
    OBVIOUS
  <2>2. Settled(z, num, f, blk, t, t, cy)'
    BY <1>11, <2>1, PublishKeeps
  <2> QED
    BY <2>2 DEF Fitting
<1> QED
  BY <1>1, <1>2, <1>3, <1>4, <1>5, <1>6, <1>7, <1>8, <1>9, <1>10, <1>11 DEF Implicit!Produce

LEMMA StutterKeeps ==
  ASSUME NEW z, NEW num, NEW f, NEW blk, NEW t, NEW w, NEW ch,
         Settled(z, num, f, blk, t, w, ch), UNCHANGED vars
  PROVE  Fitting'
<1>1. /\ UNCHANGED <<setup, headIndex, elements, next, dequeued, pool, index, entry, deq, enqueued>>
      /\ UNCHANGED <<enq, tailBlock>>
  BY DEF vars, counters, memory, blockIndex, producer
<1>2. HeadNo' = HeadNo
  BY <1>1 DEF HeadNo, Off, Minus
<1>3. PresentNow' = PresentNow /\ GoneNow' = GoneNow
  BY <1>1, <1>2 DEF PresentNow, GoneNow
<1>4. Settled(z, num, f, blk, t, w, ch)'
  BY <1>1, <1>2, <1>3 DEF Settled
<1> QED
  BY <1>4 DEF Fitting

(* While the sub-queue is there.                                           *)
Plain == pr = [slots |-> 0, front |-> 0]
LEMMA AliveKeeps ==
  ASSUME Counted, InOrder, Fitting, Plain, alive, ~isExplicit, [Next]_vars, ~Destroy
  PROVE  Fitting' /\ Plain' /\ alive' = alive /\ setup' = setup
<1>1. PICK z, num, f, blk, t, w, ch : Settled(z, num, f, blk, t, w, ch)
  BY DEF Fitting
<1>2. \/ (\E n \in setup.enqueue : Implicit!Enqueue(n)) \/ Implicit!Produce
      \/ \E c \in Consumer : (\E max \in setup.dequeue : Dequeue(c, max)) \/ Implicit!Consume(c)
      \/ UNCHANGED vars
  BY DEF Next, Call, Produce, Consume
<1>3. CASE (\E n \in setup.enqueue : Implicit!Enqueue(n)) \/ Implicit!Produce
  <2>1. Fitting'
    BY <1>1, <1>3, ProducerKeeps
  <2>2. UNCHANGED <<pr, alive, setup>>
    BY <1>3 DEF Implicit!Enqueue, Implicit!Produce, Implicit!Room, Implicit!Insert, Implicit!Grow,
       Implicit!StoreTail, Implicit!TakeBlock, Implicit!Undo, Implicit!Unindex,
       Implicit!FreeChain, Implicit!Construct, Implicit!Publish, Implicit!blockIndex
  <2> QED
    BY <2>1, <2>2 DEF Plain
<1>4. ASSUME NEW c \in Consumer, (\E max \in setup.dequeue : Dequeue(c, max)) \/ Implicit!Consume(c)
      PROVE  Fitting' /\ UNCHANGED <<pr, alive, setup>>
  <2>1. Fitting'
    BY <1>1, <1>4, ConsumerKeeps DEF Fitting
  <2>2. CASE \E max \in setup.dequeue : Dequeue(c, max)
    BY <2>1, <2>2 DEF Dequeue, blockIndex
  <2>3. CASE Implicit!Consume(c)
    BY <2>1, <2>3, ImplicitConsumes DEF Count, LoadOvercommit, TestOptimistic, Reserve, Recheck, Overcommit,
       Claim, LoadHeader, LoadBase, LoadBlock, Implicit!SetEmpty, Implicit!Unlink,
       Implicit!Recycle, Implicit!blockIndex, blockIndex
  <2> QED
    BY <1>4, <2>1, <2>2, <2>3
<1>5. CASE UNCHANGED vars
  <2>1. Fitting'
    BY <1>1, <1>5, StutterKeeps
  <2>2. UNCHANGED <<pr, alive, setup>>
    BY <1>5 DEF vars, blockIndex
  <2> QED
    BY <2>1, <2>2 DEF Plain
<1> QED
  BY <1>2, <1>3, <1>4, <1>5 DEF Plain

(* A new sub-queue: the blocks before its first have been in its index.    *)
Past(k, j) == {m \in 0 .. k - 1 : m % INITIAL_INDEX_SIZE = j}
LEMMA PastMax ==
  ASSUME NEW k \in Nat, NEW j, Past(k, j) # {}
  PROVE  /\ Implicit!Max(Past(k, j)) \in 0 .. k - 1
         /\ Implicit!Max(Past(k, j)) % INITIAL_INDEX_SIZE = j
<1>1. PICK S : S = Past(k, j) /\ S # {} /\ S \subseteq 0 .. k - 1
  BY DEF Past
<1>2. PICK T : T = {(k - 1) - x : x \in S}
  OBVIOUS
<1>3. T \in SUBSET Nat /\ T # {}
  BY <1>1, <1>2
<1>4. PICK n \in T : \A y \in T : n <= y
  BY <1>3, Smallest
<1>5. PICK x \in S : n = (k - 1) - x
  BY <1>2, <1>4
<1>6. \A y \in S : x >= y
  <2>1. ASSUME NEW y \in S PROVE x >= y
    <3>1. (k - 1) - y \in T
      BY <1>2
    <3>2. (k - 1) - x <= (k - 1) - y
      BY <1>4, <1>5, <3>1
    <3> QED
      BY <1>1, <3>2
  <2> QED
    BY <2>1
<1>7. Implicit!Max(S) \in S
  BY <1>6 DEF Implicit!Max
<1> QED
  BY <1>1, <1>7 DEF Past

LEMMA PastKey ==
  ASSUME SetupOK, NEW k \in Nat, k = setup.start \div BLOCK_SIZE, NEW x \in 0 .. k - 1
  PROVE  x * BLOCK_SIZE \in Index /\ x * BLOCK_SIZE = Key(setup.start, x - k)
<1>1. /\ BLOCK_SIZE \in Nat \ {0} /\ Modulus \in Nat \ {0} /\ setup.start \in Index
      /\ setup.start \in Nat /\ setup.start < Modulus
  BY SetupMore, SetupFacts DEF Index
<1>2. PICK q \in Int : setup.start = q * BLOCK_SIZE
  BY SetupMore
<1>3. k * BLOCK_SIZE = setup.start
  <2>1. q * BLOCK_SIZE <= setup.start /\ setup.start < q * BLOCK_SIZE + BLOCK_SIZE
    BY <1>1, <1>2
  <2>2. PICK v \in Int : v = setup.start
    BY <1>1
  <2>3. q * BLOCK_SIZE <= v /\ v < q * BLOCK_SIZE + BLOCK_SIZE
    BY <2>1, <2>2
  <2>4. BLOCK_SIZE \in Nat \ {0}
    BY <1>1
  <2>5. v \div BLOCK_SIZE = q
    BY <2>2, <2>3, <2>4, DivIs
  <2> QED
    BY <1>2, <2>2, <2>5
<1>4. PICK y \in Int : y = x - k
  OBVIOUS
<1>5. x * BLOCK_SIZE \in Nat /\ x * BLOCK_SIZE < Modulus
  <2>1. x \in Nat /\ x < k
    OBVIOUS
  <2>2. x * BLOCK_SIZE \in Int /\ x * BLOCK_SIZE + BLOCK_SIZE <= k * BLOCK_SIZE
    BY <1>1, <2>1, MulStep
  <2>3. 0 * BLOCK_SIZE <= x * BLOCK_SIZE
    BY <1>1, <2>1, MulStep
  <2>4. 0 * BLOCK_SIZE = 0
    BY <1>1
  <2> QED
    BY <1>1, <1>3, <2>2, <2>3, <2>4
<1>6. y * BLOCK_SIZE = x * BLOCK_SIZE - setup.start
  BY <1>1, <1>3, <1>4, MulStep
<1>7. setup.start + y * BLOCK_SIZE = x * BLOCK_SIZE
  <2>1. PICK u \in Int, v \in Int : u = x * BLOCK_SIZE /\ v = setup.start
    BY <1>1, <1>5
  <2>2. v + (u - v) = u
    OBVIOUS
  <2> QED
    BY <1>6, <2>1, <2>2
<1>8. x * BLOCK_SIZE \in Index
  BY <1>1, <1>5 DEF Index
<1>9. Key(setup.start, y) = (x * BLOCK_SIZE) % Modulus
  BY <1>7 DEF Key, Plus
<1>10. (x * BLOCK_SIZE) % Modulus = x * BLOCK_SIZE
  <2>1. 0 \in Int
    OBVIOUS
  <2> QED
    BY <1>8, <2>1, SmallMod
<1> QED
  BY <1>4, <1>8, <1>9, <1>10

(* The index of a new sub-queue.                                           *)
FirstIndex(k) == <<[front |-> (k - 1) % INITIAL_INDEX_SIZE,
                    slots |-> [j \in 0 .. INITIAL_INDEX_SIZE - 1 |-> j]]>>
FirstEntry(k) ==
  [j \in 0 .. INITIAL_INDEX_SIZE - 1 |->
     IF Past(k, j) = {} THEN Fresh
     ELSE [key |-> Implicit!Max(Past(k, j)) * BLOCK_SIZE, value |-> Nil]]
FirstNumber(k) ==
  [j \in 0 .. INITIAL_INDEX_SIZE - 1 |->
     IF Past(k, j) = {} THEN 0 ELSE Implicit!Max(Past(k, j)) - k]
LEMMA FirstRings ==
  ASSUME SetupOK, NEW k \in Nat, NEW ix, ix = FirstIndex(k), NEW z, z = [j \in 1 .. 1 |-> k]
  PROVE  /\ Len(ix) = 1 /\ Len(Rings(ix)) = 1 /\ Fronts(ix, z, -1, setup.indexSize)
         /\ Cap(Rings(ix), 1) = INITIAL_INDEX_SIZE /\ Size(Rings(ix)) = INITIAL_INDEX_SIZE
         /\ Rings(ix) \in Seq(Ring) /\ Rings(ix) # <<>>
         /\ Rings(ix)[1] = [j \in 0 .. INITIAL_INDEX_SIZE - 1 |-> j]
         /\ \A m \in Int : /\ EntryNo(Rings(ix), z, 1, m) = Turn(INITIAL_INDEX_SIZE, k, m)
                           /\ Here(Rings(ix), z, m) = Turn(INITIAL_INDEX_SIZE, k, m)
<1>1. /\ INITIAL_INDEX_SIZE \in Nat \ {0} /\ setup.indexSize \in Nat
      /\ INITIAL_INDEX_SIZE <= setup.indexSize
  BY SetupMore
<1>2. PICK row, hd : /\ row = [j \in 0 .. INITIAL_INDEX_SIZE - 1 |-> j]
                     /\ hd = [front |-> (k - 1) % INITIAL_INDEX_SIZE, slots |-> row]
                     /\ ix = <<hd>>
  BY DEF FirstIndex
<1>3. row \in Ring
  <2>1. row \in [0 .. INITIAL_INDEX_SIZE - 1 -> Nat]
    BY <1>1, <1>2
  <2> QED
    BY <1>1, <2>1 DEF Ring
<1>4. hd.front \in 0 .. setup.indexSize - 1 /\ hd.slots = row
  <2>1. (k - 1) % INITIAL_INDEX_SIZE \in 0 .. INITIAL_INDEX_SIZE - 1
    <3>1. k - 1 \in Int
      OBVIOUS
    <3> QED
      BY <1>1, <3>1, DivFacts
  <2> QED
    BY <1>1, <1>2, <2>1
<1>5. hd \in [front : 0 .. setup.indexSize - 1, slots : Ring]
  BY <1>2, <1>3, <1>4
<1>6. ix \in Seq([front : 0 .. setup.indexSize - 1, slots : Ring]) /\ Len(ix) = 1 /\ ix[1] = hd
  <2> HIDE DEF Ring
  <2> QED
    BY <1>2, <1>5
<1>7. /\ Rings(ix) \in Seq(Ring) /\ Len(Rings(ix)) = 1 /\ Rings(ix)[1] = row
  <2>1. 1 \in 1 .. Len(ix)
    BY <1>6
  <2> QED
    BY <1>4, <1>6, <2>1, RingsFacts
<1>8. Rings(ix) # <<>>
  BY <1>7
<1>9. Cap(Rings(ix), 1) = INITIAL_INDEX_SIZE
  <2>1. DOMAIN row = 0 .. INITIAL_INDEX_SIZE - 1
    BY <1>2
  <2>2. Cardinality(0 .. INITIAL_INDEX_SIZE - 1) = INITIAL_INDEX_SIZE
    BY <1>1, FS_Interval
  <2> QED
    BY <1>7, <2>1, <2>2 DEF Cap
<1>10. Size(Rings(ix)) = INITIAL_INDEX_SIZE
  BY <1>7, <1>9 DEF Size
<1>11. z[1] = k
  OBVIOUS
<1>12. ASSUME NEW m \in Int
       PROVE  /\ EntryNo(Rings(ix), z, 1, m) = Turn(INITIAL_INDEX_SIZE, k, m)
              /\ Here(Rings(ix), z, m) = Turn(INITIAL_INDEX_SIZE, k, m)
  <2>1. Turn(INITIAL_INDEX_SIZE, k, m) \in 0 .. INITIAL_INDEX_SIZE - 1
    BY <1>1, TurnIn
  <2>2. row[Turn(INITIAL_INDEX_SIZE, k, m)] = Turn(INITIAL_INDEX_SIZE, k, m)
    BY <1>2, <2>1
  <2>3. EntryNo(Rings(ix), z, 1, m) = Turn(INITIAL_INDEX_SIZE, k, m)
    BY <1>7, <1>9, <1>11, <2>2 DEF EntryNo
  <2> QED
    BY <1>7, <2>3 DEF Here
<1>13. Fronts(ix, z, -1, setup.indexSize)
  <2>1. hd.front = Turn(INITIAL_INDEX_SIZE, k, -1)
    <3>1. k - 1 = k + (-1)
      OBVIOUS
    <3> QED
      BY <1>2, <3>1 DEF Turn
  <2> QED
    BY <1>6, <1>10, <1>11, <2>1 DEF Fronts
<1> QED
  BY <1>2, <1>6, <1>7, <1>8, <1>9, <1>10, <1>12, <1>13

LEMMA FirstIndexed ==
  ASSUME SetupOK, NEW k \in Nat, k = setup.start \div BLOCK_SIZE,
         NEW ix, ix = FirstIndex(k), NEW z, z = [j \in 1 .. 1 |-> k],
         NEW en, en = FirstEntry(k), NEW num, num = FirstNumber(k), NEW blk, DOMAIN blk = {}
  PROVE  /\ Indexed(Rings(ix), en, z, num, -1, blk, -1, setup.start, setup.indexSize)
         /\ Fronts(ix, z, -1, setup.indexSize)
         /\ Occupied(Rings(ix), en, z, blk, {})
<1> DEFINE I == INITIAL_INDEX_SIZE
<1>1. /\ INITIAL_INDEX_SIZE \in Nat \ {0} /\ setup.indexSize \in Nat
      /\ INITIAL_INDEX_SIZE <= setup.indexSize
  BY SetupMore
<1>2. PICK sl : /\ sl = Rings(ix) /\ Len(sl) = 1 /\ Fronts(ix, z, -1, setup.indexSize)
         /\ Cap(sl, 1) = I /\ Size(sl) = I
         /\ sl \in Seq(Ring) /\ sl # <<>>
         /\ sl[1] = [j \in 0 .. I - 1 |-> j]
         /\ \A m \in Int : /\ EntryNo(sl, z, 1, m) = Turn(I, k, m)
                           /\ Here(sl, z, m) = Turn(I, k, m)
  BY FirstRings
<1>2a. Len(sl) = 1
  BY <1>2
<1>2b. \A j \in 1 .. Len(sl) : j = 1
  BY <1>2a
<1>3. ASSUME NEW j \in 0 .. I - 1, Past(k, j) = {}
      PROVE  /\ en[j] \in Entries /\ ~Valid(en, j) /\ num[j] = 0
  <2>1. en[j] = Fresh /\ num[j] = 0
    BY <1>2, <1>3 DEF FirstEntry, FirstNumber
  <2>2. Implicit!INVALID_BLOCK_BASE \in Index
    <3>1. BLOCK_SIZE > 1 /\ Modulus = 2 * Half /\ BLOCK_SIZE <= Half /\ Half \in Nat /\ BLOCK_SIZE \in Nat
      BY SetupMore
    <3> QED
      BY <3>1 DEF Implicit!INVALID_BLOCK_BASE, Index
  <2> QED
    BY <2>1, <2>2 DEF Fresh, Entries, Valid
<1>4. ASSUME NEW j \in 0 .. I - 1, Past(k, j) # {}
      PROVE  /\ en[j] \in Entries /\ en[j].value = Nil /\ num[j] \in Int
             /\ en[j].key = Key(setup.start, num[j]) /\ num[j] <= -1
             /\ \A m \in Int : Turn(I, k, m) = j => Alike(I, num[j], m)
  <2>1. PICK x : x = Implicit!Max(Past(k, j))
    OBVIOUS
  <2>2. x \in 0 .. k - 1 /\ x % I = j
    BY <1>4, <2>1, PastMax
  <2>3. en[j] = [key |-> x * BLOCK_SIZE, value |-> Nil] /\ num[j] = x - k
    BY <1>2, <1>4, <2>1 DEF FirstEntry, FirstNumber
  <2>4. x * BLOCK_SIZE \in Index /\ x * BLOCK_SIZE = Key(setup.start, x - k)
    BY <2>2, PastKey
  <2>5. x - k \in Int /\ x - k <= -1
    BY <2>2
  <2>6. ASSUME NEW m \in Int, Turn(I, k, m) = j PROVE Alike(I, x - k, m)
    <3>1. (k + m) % I = x % I /\ k + m \in Int /\ x \in Int
      BY <2>2, <2>6 DEF Turn
    <3>2. PICK b \in Int : b = k + m
      BY <3>1
    <3>3. (x - b) % I = 0
      BY <1>1, <3>1, <3>2, ModZero
    <3>4. x - b = (x - k) - m
      BY <3>1, <3>2
    <3> QED
      BY <3>3, <3>4 DEF Alike
  <2>7. en[j] \in Entries
    BY <2>3, <2>4 DEF Entries
  <2> QED
    BY <2>3, <2>4, <2>5, <2>6, <2>7
<1>5. \A j \in 0 .. I - 1 : en[j] \in Entries
  BY <1>3, <1>4
<1>6. \A j \in 0 .. I - 1 : num[j] \in Int
  BY <1>3, <1>4
<1>7. en \in [0 .. I - 1 -> Entries] /\ num \in [0 .. I - 1 -> Int]
  <2>1. en = [j \in 0 .. I - 1 |-> en[j]] /\ num = [j \in 0 .. I - 1 |-> num[j]]
    BY DEF FirstEntry, FirstNumber
  <2> HIDE DEF I
  <2> QED
    BY <1>5, <1>6, <2>1
<1>8. Headers(sl, en, z, setup.indexSize)
  <2>1. PICK c \in Nat \ {0} : c = I
    BY <1>1
  <2>2. c % c = 0
    OBVIOUS
  <2>3. z \in [1 .. Len(sl) -> Int]
    BY <1>2a
  <2>4. sl[1] = [j \in 0 .. c - 1 |-> j]
    BY <1>2, <2>1
  <2>5. \A q \in 0 .. c - 1 : sl[1][q] = q /\ q < c
    BY <2>4
  <2>6. Cap(sl, 1) = c /\ Size(sl) = c /\ c <= setup.indexSize
    BY <1>1, <1>2, <2>1
  <2>7. \A j \in 1 .. Len(sl) : Size(sl) % Cap(sl, j) = 0
    BY <1>2b, <2>2, <2>6
  <2>8. \A j \in 1 .. Len(sl) : \A q \in 0 .. Cap(sl, j) - 1 : sl[j][q] < Size(sl)
    BY <1>2b, <2>5, <2>6
  <2>9. \A p, q \in 0 .. Size(sl) - 1 : sl[Len(sl)][p] = sl[Len(sl)][q] => p = q
    BY <1>2a, <2>5, <2>6
  <2>10. en \in [0 .. Size(sl) - 1 -> Entries]
    BY <1>7, <2>1, <2>6
  <2>11. sl \in Seq(Ring) /\ sl # <<>>
    BY <1>2
  <2> HIDE DEF Ring
  <2> QED
    BY <1>1, <2>3, <2>6, <2>7, <2>8, <2>9, <2>10, <2>11 DEF Headers
<1>9. Keys(sl, en, z, num, blk, -1, setup.start)
  <2>1. \A e \in 0 .. I - 1 : Valid(en, e) =>
       /\ en[e].key = Key(setup.start, num[e])
       /\ num[e] <= -1 + I
    <3>1. ASSUME NEW e \in 0 .. I - 1, Valid(en, e)
          PROVE  /\ en[e].key = Key(setup.start, num[e]) /\ num[e] <= -1 + I
      <4>1. num[e] \in Int /\ num[e] <= -1 /\ en[e].key = Key(setup.start, num[e])
        BY <1>3, <1>4, <3>1
      <4> QED
        BY <1>1, <4>1
    <3> QED
      BY <3>1
  <2>3. ASSUME NEW m \in Int, Valid(en, EntryNo(sl, z, 1, m))
        PROVE  Alike(I, num[EntryNo(sl, z, 1, m)], m)
    <3>1. PICK j : j = Turn(I, k, m) /\ j = EntryNo(sl, z, 1, m)
      BY <1>2
    <3>2. j \in 0 .. I - 1
      <4>1. Turn(I, k, m) \in 0 .. I - 1
        <5>1. k \in Int /\ m \in Int /\ I \in Nat \ {0}
          BY <1>1
        <5> HIDE DEF I
        <5> QED
          BY <5>1, TurnIn
      <4> QED
        BY <3>1, <4>1
    <3>3. Past(k, j) # {}
      BY <1>3, <2>3, <3>1, <3>2
    <3> QED
      BY <1>4, <3>1, <3>2, <3>3
  <2>4. 1 .. Len(sl) - 1 = {}
    BY <1>2a
  <2>5. -1 \in Int
    OBVIOUS
  <2>6. Cap(sl, 1) = I /\ Size(sl) = I
    BY <1>2
  <2>7. \A j \in 1 .. Len(sl) : \A m \in Int :
          Valid(en, EntryNo(sl, z, j, m)) => Alike(Cap(sl, j), num[EntryNo(sl, z, j, m)], m)
    BY <1>2b, <2>3, <2>6
  <2>8. \A j \in 1 .. Len(sl) - 1 : \A q \in 0 .. Cap(sl, j) - 1 : Valid(en, sl[j][q])
    BY <2>4
  <2>9. num \in [0 .. Size(sl) - 1 -> Int]
    BY <1>7, <2>6
  <2>10. \A e \in 0 .. Size(sl) - 1 : Valid(en, e) =>
       /\ en[e].key = Key(setup.start, num[e])
       /\ num[e] <= -1 + Size(sl)
       /\ \A m \in DOMAIN blk : num[e] < m + Size(sl)
    BY <2>1, <2>6
  <2> HIDE DEF I
  <2> QED
    BY <2>5, <2>7, <2>8, <2>9, <2>10 DEF Keys
<1>10. Reach(sl, en, z, num, -1, blk, -1)
  BY DEF Reach, Reached
<1>11. Occupied(sl, en, z, blk, {})
  BY <1>2, <1>3, <1>4 DEF Occupied
<1>12. Listed(sl, en, z, num, blk)
  BY DEF Listed
<1> QED
  BY <1>2, <1>8, <1>9, <1>10, <1>11, <1>12 DEF Indexed

LEMMA FittingInit ==
  ASSUME Init, ~isExplicit
  PROVE  Fitting /\ Plain /\ alive
<1>1. Implicit!Init
  <2>1. ~Explicit!Init
    BY DEF Explicit!Init, Explicit!InitBase, isExplicit
  <2> QED
    BY <2>1 DEF Init
<1>2. Counted /\ SetupOK
  BY CountedInit, CountedFacts
<1>3. PICK k : /\ k = setup.start \div BLOCK_SIZE
               /\ Implicit!InitBase(setup)
               /\ next = [b \in Block |-> Nil] /\ dequeued = [b \in Block |-> 0]
               /\ pool = setup.blocks
               /\ tailBlock \in IF k = 0 THEN {Nil} ELSE setup.blocks
               /\ index = FirstIndex(k) /\ entry = FirstEntry(k)
               /\ pr = [slots |-> 0, front |-> 0]
  <2>1. PICK s \in Setups :
          LET k == s.start \div BLOCK_SIZE
              behind(j) == {m \in 0 .. k - 1 : m % INITIAL_INDEX_SIZE = j}
          IN /\ Implicit!InitBase(s)
             /\ next = [b \in Block |-> Nil]
             /\ dequeued = [b \in Block |-> 0]
             /\ pool = s.blocks
             /\ tailBlock \in IF k = 0 THEN {Nil} ELSE s.blocks
             /\ index = <<[front |-> (k - 1) % INITIAL_INDEX_SIZE,
                           slots |-> [j \in 0 .. INITIAL_INDEX_SIZE - 1 |-> j]]>>
             /\ entry = [j \in 0 .. INITIAL_INDEX_SIZE - 1 |->
                           IF behind(j) = {} THEN Fresh
                           ELSE [key |-> Implicit!Max(behind(j)) * BLOCK_SIZE, value |-> Nil]]
             /\ pr = [slots |-> 0, front |-> 0]
    BY <1>1 DEF Implicit!Init, Fresh
  <2>2. s = setup
    BY <2>1 DEF Implicit!InitBase
  <2> QED
    BY <2>1, <2>2 DEF FirstIndex, FirstEntry, Past
<1>4. /\ tailIndex = setup.start /\ headIndex = setup.start
      /\ elements = [b \in Block |-> Vacant]
      /\ enq = NoCall /\ deq = [c \in Consumer |-> NoCall] /\ enqueued = 0 /\ alive
  BY <1>3 DEF Implicit!InitBase, Implicit!NoCall, NoCall, Implicit!Slot, Slot, Vacant
<1>5. HeadNo = 0
  <2>1. headIndex = Idx(0)
    <3>1. tailIndex = Plus(setup.start, enqueued)
      BY <1>2 DEF Counted
    <3> QED
      BY <1>4, <3>1 DEF Idx
  <2>2. 0 \in Index
    BY <1>2, SetupFacts DEF Index
  <2> QED
    BY <1>2, <2>1, <2>2, OffsetFacts DEF HeadNo
<1>6. PICK blk, ch, z, num, i : /\ blk = [m \in {} |-> Nil] /\ ch = [m \in {} |-> Nil]
                             /\ z = [j \in 1 .. 1 |-> k] /\ num = FirstNumber(k) /\ i = -1
  OBVIOUS
<1>7. DOMAIN blk = {} /\ i \in Int
  BY <1>6
<1>8. k \in Nat
  <2>1. setup.start \in Nat /\ BLOCK_SIZE \in Nat \ {0}
    BY <1>2, SetupFacts, SetupMore DEF Index
  <2>2. setup.start \div BLOCK_SIZE \in Int /\ 0 <= setup.start \div BLOCK_SIZE
    <3>1. PICK v \in Int : v = setup.start /\ 0 <= v
      BY <2>1
    <3>2. 0 \div BLOCK_SIZE <= v \div BLOCK_SIZE
      BY <2>1, <3>1, DivMono
    <3>3. 0 \div BLOCK_SIZE = 0
      BY <2>1
    <3>4. v \div BLOCK_SIZE \in Int
      BY <2>1, DivFacts
    <3> QED
      BY <3>1, <3>2, <3>3, <3>4
  <2> QED
    BY <1>3, <2>2
<1>9. Tip(0) = i
  <2>1. BLOCK_SIZE \in Nat \ {0, 1}
    BY <1>2, SetupFacts
  <2>2. i * BLOCK_SIZE <= -1 /\ -1 < i * BLOCK_SIZE + BLOCK_SIZE
    BY <1>6, <2>1
  <2>3. (-1) \div BLOCK_SIZE = i
    BY <1>7, <2>1, <2>2, DivIs
  <2> QED
    BY <2>3 DEF Tip
<1>10. /\ Indexed(Rings(index), entry, z, num, i, blk, i, setup.start, setup.indexSize)
       /\ Fronts(index, z, i, setup.indexSize)
       /\ Occupied(Rings(index), entry, z, blk, {})
  BY <1>2, <1>3, <1>6, <1>7, <1>8, FirstIndexed
<1>11. \A c \in Consumer : deq[c] = NoCall /\ ~Taking(deq[c]) /\ ~Recycles(deq[c])
  BY <1>4 DEF NoCall, Taking, LookingPcs, Recycles
<1>12. Shared(setup.start, deq, HeadNo) /\ Claimed(setup.start, deq) = {}
  BY <1>11, Idles DEF Shared, Claimed
<1>13. PresentNow = {} /\ GoneNow = {}
  <2>1. Built(setup.start, enq, enqueued) = 0
    BY <1>4 DEF Built, NoCall
  <2>2. 0 .. 0 - 1 = {}
    OBVIOUS
  <2> QED
    BY <1>5, <1>12, <2>1, <2>2 DEF PresentNow, Present, GoneNow, Gone
<1>14. Stored(setup.start, elements, dequeued, blk, {}, {})
  <2>1. elements \in [Block -> [Slot -> Index \cup {Nil}]]
    BY <1>4 DEF Vacant
  <2>2. dequeued \in [Block -> 0 .. BLOCK_SIZE]
    BY <1>2, <1>3, SetupFacts
  <2> QED
    BY <1>4, <1>7, <2>1, <2>2 DEF Stored
<1>15. i + 1 .. i = {}
  BY <1>7
<1>16. Owned(setup.blocks, pool, Loose(i, i, ch), blk, deq)
  <2>1. Loose(i, i, ch) = {}
    BY <1>15 DEF Loose
  <2> QED
    BY <1>3, <1>7, <1>11, <2>1 DEF Owned
<1>17. Consuming(setup.start, deq, Rings(index), entry, z, num, blk, {})
  <2>1. \A c \in Consumer : LookedUp(setup.start, deq[c], Rings(index), entry, z, num, blk, {})
    BY <1>11, Idles
  <2> QED
    BY <1>7, <2>1 DEF Consuming
<1>18. Chosen(setup.blocks, i, i, i, ch, blk)
  <2>1. ch \in [i + 1 .. i -> setup.blocks]
    BY <1>6, <1>15
  <2> QED
    BY <1>7, <1>15, <2>1 DEF Chosen
<1>19. Producing(setup.start, enq, tailBlock, next, 0, i, i, ch, i, blk)
  <2>1. next \in [Block -> BlockOrNil] /\ tailBlock \in BlockOrNil
    BY <1>2, <1>3, SetupFacts DEF BlockOrNil
  <2>2. enq.pc = "idle" /\ enq = NoCall
    BY <1>4 DEF NoCall
  <2>3. 0 % BLOCK_SIZE = 0
    BY <1>2, SetupMore
  <2>4. Starts(tailBlock, Nil, next, 0, blk)
    BY <1>7, <2>1, <2>3 DEF Starts
  <2> QED
    BY <1>9, <2>1, <2>2, <2>4 DEF Producing, Resting, FindingPcs
<1>20. Marked(enq.pc, Rings(index), entry, z, num, i, blk)
  BY <1>4, <1>10 DEF Marked, Unsettled, NoCall
<1>21. Settled(z, num, i, blk, i, i, ch)
  BY <1>4, <1>9, <1>10, <1>12, <1>13, <1>14, <1>16, <1>17, <1>18, <1>19, <1>20 DEF Settled
<1> QED
  BY <1>3, <1>4, <1>21 DEF Fitting, Plain

-----------------------------------------------------------------------------
(* The destructor.  No call is under way: the blocks in use are those from *)
(* the one of the head to the one of the tail.                             *)
LEMMA IdleFacts ==
  ASSUME Counted, InOrder, NEW z, NEW num, NEW f, NEW blk, NEW t, NEW w, NEW ch,
         Settled(z, num, f, blk, t, w, ch), Idle
  PROVE  /\ PresentNow = HeadNo .. enqueued - 1 /\ GoneNow = 0 .. HeadNo - 1
         /\ t = Tip(enqueued) /\ f = t /\ t \in Int
         /\ Starts(tailBlock, Nil, next, enqueued, blk)
         /\ setup.blocks \ pool = {blk[m] : m \in DOMAIN blk}
         /\ \A m \in DOMAIN blk : m \in Int /\ m <= t /\ HeadNo < m * BLOCK_SIZE + BLOCK_SIZE
         /\ \A x \in Int : HeadNo <= x /\ x < enqueued => x \div BLOCK_SIZE \in DOMAIN blk
<1>1. \A c \in Consumer : deq[c] = NoCall /\ ~Taking(deq[c]) /\ ~Recycles(deq[c]) /\ deq[c].pc # "unlink"
  BY DEF Idle, NoCall, Taking, LookingPcs, Recycles
<1>2. enq = NoCall /\ enq.pc = "idle"
  BY DEF Idle, NoCall
<1>3. /\ Resting(enq, tailBlock, next, enqueued, t, w, f, blk)
      /\ SetupOK /\ HeadNo \in Nat /\ enqueued \in Nat
  BY <1>2, CountsFacts DEF Settled, Producing
<1>4. t = Tip(enqueued) /\ f = t /\ w = t /\ t \in Int /\ Starts(tailBlock, Nil, next, enqueued, blk)
  BY <1>3, FrontFacts DEF Resting
<1>5. Claimed(setup.start, deq) = {}
  BY <1>1, Idles DEF Claimed
<1>6. PresentNow = HeadNo .. enqueued - 1 /\ GoneNow = 0 .. HeadNo - 1
  BY <1>2, <1>5 DEF PresentNow, Present, GoneNow, Gone, Built
<1>7. setup.blocks \ pool = {blk[m] : m \in DOMAIN blk}
  <2>1. Owned(setup.blocks, pool, Loose(t, t, ch), blk, deq)
    BY <1>4 DEF Settled
  <2>2. t + 1 .. t = {}
    BY <1>4
  <2>3. Loose(t, t, ch) = {}
    BY <2>2 DEF Loose
  <2> QED
    BY <1>1, <2>1, <2>3 DEF Owned
<1>8. \A m \in DOMAIN blk : m \in Int /\ m <= t
  BY DEF Settled, Chosen, Indexed, Listed
<1>9. ASSUME NEW m \in DOMAIN blk PROVE HeadNo < m * BLOCK_SIZE + BLOCK_SIZE
  <2>1. ~Whole(m, GoneNow)
    BY <1>1 DEF Settled, Consuming, Unlinks
  <2>2. PICK j \in Slot : ~(m * BLOCK_SIZE + j \in GoneNow)
    BY <2>1 DEF Whole
  <2>3. PICK x \in Int, k \in Int : k = m * BLOCK_SIZE /\ x = k + j /\ x < k + BLOCK_SIZE /\ k <= x
    <3>1. m * BLOCK_SIZE \in Int /\ j \in Int /\ j < BLOCK_SIZE /\ 0 <= j
      BY <1>3, <1>8, SlotFacts
    <3> QED
      BY <3>1, <1>3, SetupMore
  <2>4. 0 <= x
    <3>1. m \in Nat /\ BLOCK_SIZE \in Nat
      BY <1>3, SetupMore DEF Settled, Indexed, Listed
    <3>2. 0 * BLOCK_SIZE <= m * BLOCK_SIZE
      BY <1>3, <3>1, SetupMore, MulStep
    <3>3. 0 * BLOCK_SIZE = 0
      BY <3>1
    <3> QED
      BY <2>3, <3>2, <3>3
  <2>5. ~(x \in 0 .. HeadNo - 1)
    BY <1>6, <2>2, <2>3
  <2>6. HeadNo <= x
    BY <1>3, <2>4, <2>5
  <2>7. BLOCK_SIZE \in Int
    BY <1>3, SetupMore
  <2> QED
    BY <1>3, <2>3, <2>6, <2>7
<1>10. ASSUME NEW x \in Int, HeadNo <= x, x < enqueued PROVE x \div BLOCK_SIZE \in DOMAIN blk
  <2>1. x \in PresentNow
    BY <1>3, <1>6, <1>10
  <2> QED
    BY <2>1 DEF Settled, Stored
<1> QED
  BY <1>4, <1>6, <1>7, <1>8, <1>9, <1>10

(* What the destructor finds on its walk.                                  *)
LEMMA WalkFacts ==
  ASSUME Counted, InOrder, NEW z, NEW num, NEW f, NEW blk, NEW t, NEW w, NEW ch,
         Settled(z, num, f, blk, t, w, ch), Idle
  PROVE  /\ DOMAIN Implicit!Walked = 1 .. enqueued - HeadNo
         /\ \A j \in 1 .. enqueued - HeadNo : \A x \in Int : x = HeadNo + j - 1 =>
              /\ Implicit!Walked[j] % BLOCK_SIZE = x % BLOCK_SIZE
              /\ Implicit!BlockAt(j) = blk[x \div BLOCK_SIZE]
<1>1. /\ SetupOK /\ enqueued \in Nat /\ HeadNo \in Nat /\ HeadNo <= enqueued /\ enqueued < Modulus
      /\ headIndex = Idx(HeadNo) /\ tailIndex = Idx(enqueued) /\ Modulus \in Nat
  BY CountsFacts, SetupMore
<1>2. /\ f = t /\ t \in Int /\ t = Tip(enqueued)
      /\ \A x \in Int : HeadNo <= x /\ x < enqueued => x \div BLOCK_SIZE \in DOMAIN blk
      /\ \A m \in DOMAIN blk : m \in Int /\ m <= t
  BY IdleFacts
<1>3. PICK h \in Int, e \in Int : h = HeadNo /\ e = enqueued /\ h <= e /\ e - h < Modulus
  BY <1>1
<1>4. Implicit!Walked = [j \in 1 .. e - h |-> Idx(h + j - 1)]
  BY <1>1, <1>3, RowIs, SharedOnes DEF Implicit!Walked
<1>5. ASSUME NEW j \in 1 .. e - h, NEW x \in Int, x = h + j - 1
      PROVE  /\ Implicit!Walked[j] % BLOCK_SIZE = x % BLOCK_SIZE
             /\ Implicit!BlockAt(j) = blk[x \div BLOCK_SIZE]
  <2>1. Implicit!Walked[j] = Idx(x)
    BY <1>4, <1>5
  <2>2. PICK m : m = x \div BLOCK_SIZE
    OBVIOUS
  <2>3. h <= x /\ x < e
    BY <1>3, <1>5
  <2>4. m \in DOMAIN blk /\ m \in Int /\ m <= f
    BY <1>2, <1>3, <2>2, <2>3
  <2>5. Idx(x) % BLOCK_SIZE = x % BLOCK_SIZE /\ BlockBase(Idx(x)) = Idx(m * BLOCK_SIZE)
    BY <1>1, <2>2, IdxBlock
  <2>6. BlockBase(Idx(x)) = Key(setup.start, m)
    BY <1>1, <2>4, <2>5, KeyFacts
  <2>7. Exact(Rings(index), entry, z, num, f)
    <3>1. x < enqueued /\ enqueued - 1 \in Int /\ HeadNo <= enqueued - 1 /\ enqueued - 1 < enqueued
      BY <1>1, <1>3, <2>3
    <3>2. (enqueued - 1) \div BLOCK_SIZE \in DOMAIN blk
      BY <1>2, <3>1
    <3>3. f \in DOMAIN blk
      BY <1>2, <3>2 DEF Tip
    <3> QED
      BY <3>3 DEF Settled, Indexed, Listed
  <2>8. Near(m, f)
    BY <2>4, NearFront
  <2>9. Implicit!EntryFor(Idx(x)) = Here(Rings(index), z, m)
    BY <2>4, <2>6, <2>7, <2>8, EntryForFinds
  <2>10. entry[Here(Rings(index), z, m)].value = blk[m]
    BY <2>4 DEF Settled, Indexed, Listed
  <2> QED
    BY <2>1, <2>2, <2>5, <2>9, <2>10 DEF Implicit!BlockAt
<1> QED
  BY <1>3, <1>4, <1>5

(* Each place of the walk where a block is freed, and the block's number.  *)
Frees(j, m, h, t) ==
  \/ j = 0 /\ m = t
  \/ j # 0 /\ m < t /\ (m + 1) * BLOCK_SIZE = h + j - 1
LEMMA TailFreed ==
  ASSUME Counted, InOrder, NEW z, NEW num, NEW f, NEW blk, NEW t, NEW w, NEW ch,
         Settled(z, num, f, blk, t, w, ch), Idle
  PROVE  /\ (tailBlock # Nil /\ (headIndex # tailIndex \/ tailIndex % BLOCK_SIZE # 0))
              <=> t \in DOMAIN blk
         /\ t \in DOMAIN blk => tailBlock = blk[t]
<1>1. /\ SetupOK /\ enqueued \in Nat /\ HeadNo \in Nat /\ HeadNo <= enqueued
      /\ headIndex = Idx(HeadNo) /\ tailIndex = Idx(enqueued) /\ HeadNo \in Index /\ enqueued \in Index
  <2>1. enqueued \in Nat /\ enqueued < Modulus /\ SetupOK
    BY CountsFacts
  <2>2. enqueued \in Index
    BY <2>1, SetupMore DEF Index
  <2> QED
    BY <2>2, CountsFacts
<1>2. /\ t \in Int /\ t = Tip(enqueued) /\ Starts(tailBlock, Nil, next, enqueued, blk)
      /\ \A x \in Int : HeadNo <= x /\ x < enqueued => x \div BLOCK_SIZE \in DOMAIN blk
      /\ \A m \in DOMAIN blk : m \in Int /\ m <= t /\ HeadNo < m * BLOCK_SIZE + BLOCK_SIZE
  BY IdleFacts
<1>3. headIndex = tailIndex <=> HeadNo = enqueued
  BY <1>1, OffsetFacts
<1>4. tailIndex % BLOCK_SIZE = enqueued % BLOCK_SIZE
  BY <1>1, IdxBlock
<1>5. HeadNo # enqueued => t \in DOMAIN blk
  <2>1. SUFFICES ASSUME HeadNo # enqueued PROVE t \in DOMAIN blk
    OBVIOUS
  <2>2. HeadNo <= enqueued - 1 /\ enqueued - 1 < enqueued /\ enqueued - 1 \in Int
    BY <1>1, <2>1
  <2>3. (enqueued - 1) \div BLOCK_SIZE \in DOMAIN blk
    BY <1>2, <2>2
  <2> QED
    BY <1>2, <2>3 DEF Tip
<1>6. enqueued % BLOCK_SIZE # 0 => t \in DOMAIN blk
  BY <1>2 DEF Starts
<1>7. t \in DOMAIN blk => HeadNo # enqueued \/ enqueued % BLOCK_SIZE # 0
  <2>1. SUFFICES ASSUME t \in DOMAIN blk, enqueued % BLOCK_SIZE = 0 PROVE HeadNo # enqueued
    OBVIOUS
  <2>2. PICK k : k = t * BLOCK_SIZE + BLOCK_SIZE /\ HeadNo < k
    BY <1>2, <2>1
  <2>3. k = enqueued
    BY <1>1, <1>2, <2>1, <2>2, TipFacts
  <2> QED
    BY <1>1, <2>2, <2>3
<1>8. ASSUME t \in DOMAIN blk PROVE tailBlock = blk[t] /\ tailBlock # Nil
  <2>1. tailBlock = blk[t]
    BY <1>2, <1>8 DEF Starts
  <2>2. blk[t] \in Block
    BY <1>8 DEF Settled, Indexed, Listed
  <2> QED
    BY <2>1, <2>2, ProducerBaseAssumption
<1> QED
  BY <1>3, <1>4, <1>5, <1>6, <1>7, <1>8

LEMMA FreedNumbers ==
  ASSUME Counted, InOrder, NEW z, NEW num, NEW f, NEW blk, NEW t, NEW w, NEW ch,
         Settled(z, num, f, blk, t, w, ch), Idle
  PROVE  /\ \A j \in DOMAIN Implicit!Freed : \E m \in DOMAIN blk :
              Implicit!Freed[j] = blk[m] /\ Frees(j, m, HeadNo, t) /\ j \in Nat
         /\ \A m \in DOMAIN blk : \E j \in DOMAIN Implicit!Freed : Implicit!Freed[j] = blk[m]
<1>1. PICK h \in Int, e \in Int : h = HeadNo /\ e = enqueued /\ 0 <= h /\ h <= e
  BY CountsFacts
<1>2. /\ t \in Int /\ t = Tip(e)
      /\ \A x \in Int : h <= x /\ x < e => x \div BLOCK_SIZE \in DOMAIN blk
      /\ \A m \in DOMAIN blk : m \in Int /\ m <= t /\ h < m * BLOCK_SIZE + BLOCK_SIZE
  BY <1>1, IdleFacts
<1>3. SetupOK /\ BLOCK_SIZE \in Nat \ {0}
  BY CountsFacts, SetupMore
<1>4. /\ DOMAIN Implicit!Walked = 1 .. e - h
      /\ \A j \in 1 .. e - h : \A x \in Int : x = h + j - 1 =>
              /\ Implicit!Walked[j] % BLOCK_SIZE = x % BLOCK_SIZE
              /\ Implicit!BlockAt(j) = blk[x \div BLOCK_SIZE]
  BY <1>1, WalkFacts
<1>5. PICK last : last = IF t \in DOMAIN blk THEN {0} ELSE {}
  OBVIOUS
<1>6. Implicit!Freed = [j \in Implicit!Left \cup last |-> IF j = 0 THEN tailBlock ELSE Implicit!BlockAt(j - 1)]
  <2>1. last = IF tailBlock # Nil /\ (headIndex # tailIndex \/ tailIndex % BLOCK_SIZE # 0)
               THEN {0} ELSE {}
    BY <1>5, TailFreed
  <2> QED
    BY <2>1 DEF Implicit!Freed
<1>7. \A m \in Int : m * BLOCK_SIZE < e <=> m <= t
  BY <1>1, <1>2, <1>3, TipFacts
<1>8. ASSUME NEW j \in Implicit!Left
      PROVE  /\ j \in Int /\ j > 1 /\ j \in DOMAIN Implicit!Freed
             /\ \E m \in DOMAIN blk : Implicit!Freed[j] = blk[m] /\ m < t
                                      /\ (m + 1) * BLOCK_SIZE = h + j - 1
  <2>1. j \in 1 .. e - h /\ j # 1 /\ Implicit!Walked[j] % BLOCK_SIZE = 0
    BY <1>4 DEF Implicit!Left
  <2>2. PICK y \in Int, x \in Int, i \in Int : y = h + j - 1 /\ x = y - 1 /\ i = j - 1
    BY <2>1
  <2>3. i \in 1 .. e - h /\ x = h + i - 1 /\ h <= x /\ y < e /\ j \in Int /\ j > 1 /\ j # 0
    BY <2>1, <2>2
  <2>4. y % BLOCK_SIZE = 0
    BY <1>4, <2>1, <2>2
  <2>5. PICK m \in Int : m = (y \div BLOCK_SIZE) - 1
    BY <1>3, <2>2, DivFacts
  <2>6. (m + 1) * BLOCK_SIZE = y
    <3>1. y \div BLOCK_SIZE = m + 1
      BY <1>3, <2>5, DivFacts
    <3>2. y = (y \div BLOCK_SIZE) * BLOCK_SIZE + (y % BLOCK_SIZE)
      BY <1>3, DivFacts
    <3>3. (m + 1) * BLOCK_SIZE \in Int
      BY <1>3, <3>1, DivFacts
    <3> QED
      BY <2>4, <3>1, <3>2, <3>3
  <2>7. x \div BLOCK_SIZE = m
    <3>1. (m + 1) * BLOCK_SIZE = m * BLOCK_SIZE + BLOCK_SIZE /\ m * BLOCK_SIZE \in Int
      BY <1>3, MulStep
    <3>2. m * BLOCK_SIZE <= x /\ x < m * BLOCK_SIZE + BLOCK_SIZE
      BY <1>3, <2>2, <2>6, <3>1
    <3> QED
      BY <1>3, <3>2, DivIs
  <2>8. m \in DOMAIN blk /\ m < t
    <3>1. m \in DOMAIN blk
      BY <1>2, <2>2, <2>3, <2>7
    <3>2. m + 1 <= t
      BY <1>7, <2>3, <2>6
    <3> QED
      BY <1>2, <3>1, <3>2
  <2>9. Implicit!BlockAt(j - 1) = blk[m]
    BY <1>4, <2>2, <2>3, <2>7
  <2>10. Implicit!Freed[j] = blk[m]
    BY <1>6, <2>3, <2>9
  <2> QED
    BY <1>6, <2>2, <2>3, <2>6, <2>8, <2>10
<1>9. ASSUME NEW j \in DOMAIN Implicit!Freed
      PROVE  \E m \in DOMAIN blk : Implicit!Freed[j] = blk[m] /\ Frees(j, m, h, t) /\ j \in Nat
  <2>1. CASE j \in Implicit!Left
    <3>1. PICK m \in DOMAIN blk : Implicit!Freed[j] = blk[m] /\ m < t
                                  /\ (m + 1) * BLOCK_SIZE = h + j - 1
      BY <1>8, <2>1
    <3>2. j \in Nat /\ j # 0
      BY <1>8, <2>1
    <3> QED
      BY <3>1, <3>2 DEF Frees
  <2>2. CASE j \in last
    <3>1. j = 0 /\ t \in DOMAIN blk
      BY <1>5, <2>2
    <3>2. Implicit!Freed[0] = blk[t]
      BY <1>6, <2>2, <3>1, TailFreed
    <3> QED
      BY <3>1, <3>2 DEF Frees
  <2> QED
    BY <1>6, <2>1, <2>2
<1>10. ASSUME NEW m \in DOMAIN blk PROVE \E j \in DOMAIN Implicit!Freed : Implicit!Freed[j] = blk[m]
  <2>1. CASE m = t
    <3>1. 0 \in last
      BY <1>5, <2>1
    <3>2. Implicit!Freed[0] = blk[t]
      BY <1>6, <2>1, <3>1, TailFreed
    <3> QED
      BY <1>6, <2>1, <3>1, <3>2
  <2>2. CASE m # t
    <3>1. PICK n \in Int, y \in Int : n = m + 1 /\ y = n * BLOCK_SIZE /\ y = m * BLOCK_SIZE + BLOCK_SIZE
      <4>1. m \in Int
        BY <1>2
      <4>2. PICK n \in Int : n = m + 1
        BY <4>1
      <4>3. n * BLOCK_SIZE \in Int /\ n * BLOCK_SIZE = m * BLOCK_SIZE + BLOCK_SIZE
        BY <1>3, <4>1, <4>2, MulStep
      <4> QED
        BY <4>2, <4>3
    <3>2. h < y /\ y < e
      <4>1. n <= t
        BY <1>2, <2>2, <3>1
      <4> QED
        BY <1>2, <1>7, <3>1, <4>1
    <3>5. PICK i \in Int : i = (y - h) + 1
      OBVIOUS
    <3>6. i \in 1 .. e - h /\ i # 1 /\ y = h + i - 1
      BY <3>2, <3>5
    <3>7. y % BLOCK_SIZE = 0
      <4>1. y = n * BLOCK_SIZE /\ BLOCK_SIZE > 0 /\ BLOCK_SIZE \in Int
        BY <1>3, <3>1
      <4>2. n * BLOCK_SIZE <= y /\ y < n * BLOCK_SIZE + BLOCK_SIZE
        BY <4>1
      <4>3. y % BLOCK_SIZE = y - n * BLOCK_SIZE
        BY <1>3, <4>2, DivIs
      <4> QED
        BY <4>1, <4>3
    <3>8. i \in Implicit!Left
      BY <1>4, <3>6, <3>7 DEF Implicit!Left
    <3>9. PICK k \in DOMAIN blk : Implicit!Freed[i] = blk[k] /\ (k + 1) * BLOCK_SIZE = h + i - 1
      BY <1>8, <3>8
    <3>10. k = m
      <4>1. k \in Int /\ m \in Int
        BY <1>2
      <4>2. (k + 1) * BLOCK_SIZE = y /\ (k + 1) * BLOCK_SIZE = k * BLOCK_SIZE + BLOCK_SIZE
            /\ k * BLOCK_SIZE \in Int /\ m * BLOCK_SIZE \in Int
        BY <1>3, <3>6, <3>9, <4>1, MulStep
      <4>3. k * BLOCK_SIZE = m * BLOCK_SIZE
        BY <1>3, <3>1, <4>2
      <4>4. k * BLOCK_SIZE < m * BLOCK_SIZE + BLOCK_SIZE /\ m * BLOCK_SIZE < k * BLOCK_SIZE + BLOCK_SIZE
        BY <1>3, <4>2, <4>3
      <4>5. (m * BLOCK_SIZE) \div BLOCK_SIZE = m /\ (k * BLOCK_SIZE) \div BLOCK_SIZE = k
        <5>1. m * BLOCK_SIZE <= m * BLOCK_SIZE /\ k * BLOCK_SIZE <= k * BLOCK_SIZE
          BY <4>2
        <5>2. m * BLOCK_SIZE < m * BLOCK_SIZE + BLOCK_SIZE /\ k * BLOCK_SIZE < k * BLOCK_SIZE + BLOCK_SIZE
          BY <1>3, <4>2
        <5> QED
          BY <1>3, <4>1, <4>2, <5>1, <5>2, DivIs
      <4> QED
        BY <4>3, <4>5
    <3> QED
      BY <1>8, <3>8, <3>9, <3>10
  <2> QED
    BY <2>1, <2>2
<1> QED
  BY <1>1, <1>9, <1>10

LEMMA FreesOnce ==
  ASSUME NEW h \in Int, NEW t \in Int, NEW j \in Nat, NEW i \in Nat, NEW m \in Int,
         Frees(j, m, h, t), Frees(i, m, h, t)
  PROVE  i = j
<1>1. j = 0 <=> m = t
  BY DEF Frees
<1>2. i = 0 <=> m = t
  BY DEF Frees
<1>3. CASE m = t
  BY <1>1, <1>2, <1>3
<1>4. CASE m # t
  <2>1. h + j - 1 = h + i - 1
    BY <1>4 DEF Frees
  <2> QED
    BY <2>1
<1> QED
  BY <1>3, <1>4

LEMMA FreedExactly ==
  ASSUME Counted, InOrder, NEW z, NEW num, NEW f, NEW blk, NEW t, NEW w, NEW ch,
         Settled(z, num, f, blk, t, w, ch), Idle
  PROVE  Range(Implicit!Freed) = setup.blocks \ pool /\ IsInjective(Implicit!Freed)
<1>1. /\ \A j \in DOMAIN Implicit!Freed : \E m \in DOMAIN blk :
              Implicit!Freed[j] = blk[m] /\ Frees(j, m, HeadNo, t) /\ j \in Nat
      /\ \A m \in DOMAIN blk : \E j \in DOMAIN Implicit!Freed : Implicit!Freed[j] = blk[m]
  BY FreedNumbers
<1>2. /\ setup.blocks \ pool = {blk[m] : m \in DOMAIN blk} /\ t \in Int /\ HeadNo \in Int
      /\ \A m \in DOMAIN blk : m \in Int
      /\ \A m, n \in DOMAIN blk : blk[m] = blk[n] => m = n
  BY IdleFacts, CountsFacts DEF Settled, Owned
<1>3. Range(Implicit!Freed) = setup.blocks \ pool
  BY <1>1, <1>2 DEF Range
<1>4. ASSUME NEW i \in DOMAIN Implicit!Freed, NEW j \in DOMAIN Implicit!Freed,
             Implicit!Freed[i] = Implicit!Freed[j]
      PROVE  i = j
  <2>1. PICK m \in DOMAIN blk :
          Implicit!Freed[i] = blk[m] /\ Frees(i, m, HeadNo, t) /\ i \in Nat
    BY <1>1
  <2>2. PICK n \in DOMAIN blk :
          Implicit!Freed[j] = blk[n] /\ Frees(j, n, HeadNo, t) /\ j \in Nat
    BY <1>1
  <2>3. m = n /\ m \in Int
    BY <1>2, <1>4, <2>1, <2>2
  <2> QED
    BY <1>2, <2>1, <2>2, <2>3, FreesOnce
<1>5. IsInjective(Implicit!Freed)
  BY <1>4 DEF IsInjective
<1> QED
  BY <1>3, <1>5

(* The slots that the destructor visits are those with elements.           *)
LEMMA DestroyedExactly ==
  ASSUME Counted, InOrder, NEW z, NEW num, NEW f, NEW blk, NEW t, NEW w, NEW ch,
         Settled(z, num, f, blk, t, w, ch), Idle
  PROVE  Implicit!Destroyed = {p \in Block \X Slot : elements[p[1]][p[2]] # Nil}
<1>1. PICK h \in Int, e \in Int : h = HeadNo /\ e = enqueued /\ 0 <= h /\ h <= e
  BY CountsFacts
<1>2. /\ SetupOK /\ PresentNow = h .. e - 1
      /\ \A x \in Int : h <= x /\ x < e => x \div BLOCK_SIZE \in DOMAIN blk
      /\ \A m \in DOMAIN blk : m \in Int
  BY <1>1, IdleFacts, CountsFacts
<1>3. /\ DOMAIN Implicit!Walked = 1 .. e - h
      /\ \A j \in 1 .. e - h : \A x \in Int : x = h + j - 1 =>
              /\ Implicit!Walked[j] % BLOCK_SIZE = x % BLOCK_SIZE
              /\ Implicit!BlockAt(j) = blk[x \div BLOCK_SIZE]
  BY <1>1, WalkFacts
<1>4. /\ \A m \in DOMAIN blk : \A j \in Slot :
           elements[blk[m]][j] = IF SlotOf(m, j) \in h .. e - 1 THEN Plus(setup.start, SlotOf(m, j)) ELSE Nil
      /\ \A b \in Block : (\A m \in DOMAIN blk : blk[m] # b) => elements[b] = Vacant
      /\ \A m \in DOMAIN blk : blk[m] \in Block
  <2>1. Stored(setup.start, elements, dequeued, blk, h .. e - 1, GoneNow)
    BY <1>2 DEF Settled
  <2> QED
    BY <2>1, StoredMeans DEF Settled, Indexed, Listed
<1>5. \A y \in Int : Plus(setup.start, y) # Nil
  <2>1. Nil \notin Index
    BY ProducerBaseAssumption DEF Index
  <2>2. setup.start \in Int
    BY <1>2, SetupMore
  <2> QED
    BY <1>2, <2>1, <2>2, IndexTyped
<1>6. ASSUME NEW j \in 1 .. e - h
      PROVE  <<Implicit!BlockAt(j), Implicit!Walked[j] % BLOCK_SIZE>>
               \in {p \in Block \X Slot : elements[p[1]][p[2]] # Nil}
  <2>1. PICK x \in Int : x = h + j - 1
    BY <1>6
  <2>2. h <= x /\ x < e
    BY <1>6, <2>1
  <2>3. PICK m \in Int, q \in Slot : m = x \div BLOCK_SIZE /\ q = x % BLOCK_SIZE /\ SlotOf(m, q) = x
    BY <1>2, SlotIs
  <2>4. Implicit!BlockAt(j) = blk[m] /\ Implicit!Walked[j] % BLOCK_SIZE = q /\ m \in DOMAIN blk
    BY <1>2, <1>3, <2>1, <2>2, <2>3
  <2>5. elements[blk[m]][q] # Nil /\ blk[m] \in Block
    BY <1>4, <1>5, <2>2, <2>3, <2>4
  <2> QED
    BY <2>3, <2>4, <2>5
<1>7. ASSUME NEW b \in Block, NEW q \in Slot, elements[b][q] # Nil
      PROVE  \E j \in 1 .. e - h : b = Implicit!BlockAt(j) /\ q = Implicit!Walked[j] % BLOCK_SIZE
  <2>1. PICK m \in DOMAIN blk : blk[m] = b
    <3>1. Vacant[q] = Nil
      BY DEF Vacant
    <3> QED
      BY <1>4, <1>7, <3>1
  <2>2. SlotOf(m, q) \in h .. e - 1
    BY <1>4, <1>7, <2>1
  <2>3. PICK x \in Int : /\ x = SlotOf(m, q) /\ x \in h .. e - 1
                         /\ x \div BLOCK_SIZE = m /\ x % BLOCK_SIZE = q
    BY <1>2, <2>1, <2>2, SlotFacts
  <2>4. PICK j \in Int : j = (x - h) + 1
    OBVIOUS
  <2>5. j \in 1 .. e - h /\ x = h + j - 1
    BY <2>3, <2>4
  <2>6. Implicit!BlockAt(j) = blk[m] /\ Implicit!Walked[j] % BLOCK_SIZE = q
    BY <1>3, <2>3, <2>5
  <2> QED
    BY <2>1, <2>5, <2>6
<1>8. Implicit!Destroyed = {<<Implicit!BlockAt(j), Implicit!Walked[j] % BLOCK_SIZE>> : j \in 1 .. e - h}
  BY <1>3 DEF Implicit!Destroyed
<1>9. ASSUME NEW p \in {r \in Block \X Slot : elements[r[1]][r[2]] # Nil}
      PROVE  p \in Implicit!Destroyed
  <2>1. PICK b \in Block, q \in Slot : p = <<b, q>>
    OBVIOUS
  <2>2. elements[b][q] # Nil
    BY <1>9, <2>1
  <2>3. PICK j \in 1 .. e - h : b = Implicit!BlockAt(j) /\ q = Implicit!Walked[j] % BLOCK_SIZE
    BY <1>7, <2>2
  <2> QED
    BY <1>8, <2>1, <2>3
<1> QED
  BY <1>6, <1>8, <1>9

-----------------------------------------------------------------------------
(* An implicit sub-queue, until its destructor and after.                  *)
Emptied ==
  /\ Idle /\ elements = [b \in Block |-> Vacant]
  /\ next \in [Block -> BlockOrNil] /\ dequeued \in [Block -> 0 .. BLOCK_SIZE]
  /\ pool \subseteq Block /\ tailBlock \in BlockOrNil
  /\ \A h \in 1 .. Len(index) : index[h].front \in 0 .. setup.indexSize - 1
ImplicitInv == ~isExplicit => alive \in BOOLEAN /\ Plain /\ IF alive THEN Fitting ELSE Emptied

LEMMA ShapeNow ==
  ASSUME Counted, NEW z, NEW num, NEW f, NEW blk, NEW t, NEW w, NEW ch,
         Settled(z, num, f, blk, t, w, ch)
  PROVE  /\ next \in [Block -> BlockOrNil] /\ dequeued \in [Block -> 0 .. BLOCK_SIZE]
         /\ elements \in [Block -> [Slot -> Index \cup {Nil}]]
         /\ pool \subseteq Block /\ tailBlock \in BlockOrNil
         /\ \A h \in 1 .. Len(index) : index[h].front \in 0 .. setup.indexSize - 1
<1>1. SetupOK /\ setup.blocks \subseteq Block
  BY CountedFacts, SetupFacts
<1>2. index \in Seq([front : 0 .. setup.indexSize - 1, slots : Ring])
  BY DEF Settled, Fronts
<1>3. \A h \in 1 .. Len(index) : index[h].front \in 0 .. setup.indexSize - 1
  BY <1>2, RingsFacts
<1> QED
  BY <1>1, <1>3 DEF Settled, Stored, Producing, Owned

LEMMA DestroyEmpties ==
  ASSUME Counted, InOrder, ~isExplicit, NEW z, NEW num, NEW f, NEW blk, NEW t, NEW w, NEW ch,
         Settled(z, num, f, blk, t, w, ch), Destroy
  PROVE  Emptied' /\ alive' = FALSE /\ setup' = setup /\ pr' = pr
<1>1. Idle
  BY DEF Destroy
<1>2. FreedBlocks = setup.blocks \ pool
      /\ Destroyed = {p \in Block \X Slot : elements[p[1]][p[2]] # Nil}
  BY <1>1, FreedExactly, DestroyedExactly DEF FreedBlocks, Destroyed
<1>3. elements' = [b \in Block |-> Vacant]
  <2>1. ASSUME NEW b \in Block
        PROVE  [j \in Slot |-> IF <<b, j>> \in Destroyed THEN Nil ELSE elements[b][j]] = Vacant
    <3>1. ASSUME NEW j \in Slot PROVE <<b, j>> \notin Destroyed => elements[b][j] = Nil
      BY <1>2
    <3> QED
      BY <3>1 DEF Vacant
  <2>2. elements' = [b \in Block |->
          [j \in Slot |-> IF <<b, j>> \in Destroyed THEN Nil ELSE elements[b][j]]]
    BY DEF Destroy
  <2> QED
    BY <2>1, <2>2
<1>4. pool' \subseteq Block
  <2>1. setup.blocks \subseteq Block /\ pool \subseteq Block
    BY CountedFacts, SetupFacts, ShapeNow
  <2> QED
    BY <1>2, <2>1 DEF Destroy
<1>5. UNCHANGED <<setup, next, dequeued, tailBlock, index, pr, enq, deq>> /\ alive' = FALSE
  BY DEF Destroy, blockIndex, producer
<1>6. Idle'
  BY <1>1, <1>5 DEF Idle
<1> QED
  BY <1>3, <1>4, <1>5, <1>6, ShapeNow DEF Emptied

LEMMA EmptiedStays ==
  ASSUME Emptied, ~isExplicit, ~alive, [Next]_vars
  PROVE  UNCHANGED vars
<1>1. enq.pc = "idle" /\ \A c \in Consumer : deq[c].pc = "idle"
  BY DEF Emptied, Idle, NoCall
<1>2. \A n \in setup.enqueue : ~Implicit!Enqueue(n)
  BY DEF Implicit!Enqueue
<1>3. ~Implicit!Produce
  BY <1>1 DEF Implicit!Produce, Implicit!Room, Implicit!Insert, Implicit!Grow,
       Implicit!StoreTail, Implicit!TakeBlock, Implicit!Undo, Implicit!Unindex,
       Implicit!FreeChain, Implicit!Construct, Implicit!Publish, Implicit!Calling
<1>4. ASSUME NEW c \in Consumer PROVE ~Implicit!Consume(c)
  BY <1>1, ImplicitConsumes DEF Count, LoadOvercommit, TestOptimistic, Reserve, Recheck, Overcommit,
       Claim, LoadHeader, LoadBase, LoadBlock, Implicit!SetEmpty, Implicit!Unlink,
       Implicit!Recycle, Implicit!At, At
<1>5. \A c \in Consumer, max \in setup.dequeue : ~Dequeue(c, max)
  BY DEF Dequeue
<1>6. ~Destroy
  BY DEF Destroy
<1> QED
  BY <1>2, <1>3, <1>4, <1>5, <1>6 DEF Next, Call, Produce, Consume

LEMMA SetupStays ==
  ASSUME Counted, [Next]_vars
  PROVE  setup' = setup
<1>1. ASSUME NEW c \in Consumer, Counts(c) PROVE setup' = setup
  BY <1>1 DEF Counts, Count, LoadOvercommit, TestOptimistic, Reserve, Recheck, Overcommit, Claim,
     Dequeue, Looks
<1> QED
  BY <1>1, StepCases DEF Produces, Destroy, vars

LEMMA ImplicitNext ==
  ASSUME Counted, InOrder, ImplicitInv, [Next]_vars
  PROVE  ImplicitInv'
<1>1. setup' = setup
  BY SetupStays
<1>2. CASE isExplicit
  BY <1>1, <1>2 DEF ImplicitInv, isExplicit
<1>3. CASE ~isExplicit /\ alive /\ ~Destroy
  <2>1. Fitting /\ Plain
    BY <1>3 DEF ImplicitInv
  <2>2. Fitting' /\ Plain' /\ alive' = alive
    BY <1>3, <2>1, AliveKeeps
  <2> QED
    BY <1>3, <2>2 DEF ImplicitInv
<1>4. CASE ~isExplicit /\ alive /\ Destroy
  <2>1. PICK z, num, f, blk, t, w, ch : Settled(z, num, f, blk, t, w, ch)
    BY <1>4 DEF ImplicitInv, Fitting
  <2>2. Emptied' /\ alive' = FALSE /\ pr' = pr
    BY <1>4, <2>1, DestroyEmpties
  <2>3. Plain'
    BY <1>4, <2>2 DEF ImplicitInv, Plain
  <2> QED
    BY <2>2, <2>3 DEF ImplicitInv
<1>5. CASE ~isExplicit /\ ~alive
  <2>1. Emptied /\ Plain
    BY <1>5 DEF ImplicitInv
  <2>2. UNCHANGED vars
    BY <1>5, <2>1, EmptiedStays
  <2>3. /\ UNCHANGED <<setup, elements, next, dequeued, pool, index, pr, enq, deq, tailBlock>>
        /\ alive' = alive
    BY <2>2 DEF vars, memory, blockIndex, producer
  <2>4. Idle'
    BY <2>1, <2>3 DEF Emptied, Idle
  <2>5. Emptied'
    BY <2>1, <2>3, <2>4 DEF Emptied
  <2>6. Plain'
    BY <2>1, <2>3 DEF Plain
  <2> QED
    BY <1>5, <2>3, <2>5, <2>6 DEF ImplicitInv
<1> QED
  BY <1>2, <1>3, <1>4, <1>5 DEF ImplicitInv

LEMMA ImplicitAlways == Spec /\ []NotTooStale => [](Counted /\ AddsUp /\ InOrder /\ ImplicitInv)
<1>1. Init => Counted /\ AddsUp /\ InOrder /\ ImplicitInv
  <2>1. Init /\ ~isExplicit => Plain /\ Fitting /\ alive
    BY FittingInit
  <2>2. Init => alive \in BOOLEAN
    BY DEF Init, Implicit!Init, Implicit!InitBase, Explicit!Init, Explicit!InitBase
  <2> QED
    BY <2>1, <2>2, CountedInit, AddUpMeans, InOrderInit DEF ImplicitInv
<1>2. (Counted /\ AddsUp /\ InOrder /\ ImplicitInv) /\ NotTooStale /\ [Next]_vars
        => (Counted /\ AddsUp /\ InOrder /\ ImplicitInv)'
  BY CountedNext, InOrderNext, ImplicitNext
<1> QED
  BY <1>1, <1>2, PTL DEF Spec

-----------------------------------------------------------------------------
(* What the invariant says of an implicit sub-queue, before its destructor *)
(* and after.                                                              *)
LEMMA IdleNow ==
  ASSUME Idle, NEW c \in Consumer
  PROVE  /\ ~At(c, "read") /\ ~At(c, "block") /\ ~At(c, "recycle")
  BY DEF Idle, NoCall, At

LEMMA TypesNow ==
  ASSUME Counted, ImplicitInv, ~isExplicit
  PROVE  TypeOK
<1>1. /\ alive \in BOOLEAN /\ Plain
      /\ next \in [Block -> BlockOrNil] /\ dequeued \in [Block -> 0 .. BLOCK_SIZE]
      /\ elements \in [Block -> [Slot -> Index \cup {Nil}]]
      /\ pool \subseteq Block /\ tailBlock \in BlockOrNil
      /\ \A h \in 1 .. Len(index) : index[h].front \in 0 .. setup.indexSize - 1
  <2>1. CASE alive
    <3>1. PICK z, num, f, blk, t, w, ch : Settled(z, num, f, blk, t, w, ch)
      BY <2>1 DEF ImplicitInv, Fitting
    <3> QED
      BY <2>1, <3>1, ShapeNow DEF ImplicitInv
  <2>2. CASE ~alive
    <3>1. Vacant \in [Slot -> Index \cup {Nil}]
      BY DEF Vacant
    <3> QED
      BY <2>2, <3>1 DEF ImplicitInv, Emptied
  <2> QED
    BY <2>1, <2>2
<1>2. {tailIndex, headIndex, dequeueOptimisticCount, dequeueOvercommit} \subseteq Index
      /\ enqueued \in 0 .. setup.elements
  BY CountedFacts DEF Counted
<1>3. Cardinality(Block) \in Nat /\ setup.indexSize \in Nat
  BY ProducerBaseAssumption, FS_CardinalityType, CountedFacts, SetupFacts
<1>4. pr.slots \in 0 .. Cardinality(Block) /\ pr.front \in 0 .. setup.indexSize
  <2>1. pr.slots = 0 /\ pr.front = 0
    BY <1>1 DEF Plain
  <2> QED
    BY <1>3, <2>1
<1>5. \A h \in 1 .. Len(index) : index[h].front \in -1 .. setup.indexSize - 1
  BY <1>1, <1>3
<1> QED
  BY <1>1, <1>2, <1>4, <1>5 DEF TypeOK

LEMMA EntryNow ==
  ASSUME Counted, InOrder, ImplicitInv
  PROVE  FindsItsEntry
<1>1. ASSUME NEW c \in Consumer, ~isExplicit, At(c, "block")
      PROVE  Implicit!EntryAt(c, deq[c].pos).key = BlockBase(deq[c].at)
  <2>1. alive
    BY <1>1, IdleNow DEF ImplicitInv, Emptied
  <2>2. PICK z, num, f, blk, t, w, ch : Settled(z, num, f, blk, t, w, ch)
    BY <1>1, <2>1 DEF ImplicitInv, Fitting
  <2> QED
    BY <1>1, <2>2, BlockFound
<1> QED
  BY <1>1 DEF FindsItsEntry

LEMMA ElementsNow ==
  ASSUME Counted, InOrder, ImplicitInv, ~isExplicit
  PROVE  FindsItsElements
<1>1. ASSUME NEW c \in Consumer, At(c, "read")
      PROVE  Contents(c) = Expected(c)
  <2>1. alive
    BY <1>1, IdleNow DEF ImplicitInv, Emptied
  <2>2. PICK z, num, f, blk, t, w, ch : Settled(z, num, f, blk, t, w, ch)
    BY <2>1 DEF ImplicitInv, Fitting
  <2> QED
    BY <1>1, <2>2, FoundElements DEF At
<1> QED
  BY <1>1 DEF FindsItsElements

LEMMA RecycledNow ==
  ASSUME Counted, ImplicitInv, ~isExplicit
  PROVE  RecycledOnce
<1>1. CASE alive
  <2>1. PICK z, num, f, blk, t, w, ch : Settled(z, num, f, blk, t, w, ch)
    BY <1>1 DEF ImplicitInv, Fitting
  <2>2. Owned(setup.blocks, pool, Loose(Tip(enqueued), w, ch), blk, deq)
        /\ Stored(setup.start, elements, dequeued, blk, PresentNow, GoneNow)
    BY <2>1 DEF Settled
  <2>3. setup.blocks \subseteq Block
    BY CountedFacts, SetupFacts
  <2>4. ASSUME NEW c \in Consumer, At(c, "recycle")
        PROVE  deq[c].block \notin pool /\ elements[deq[c].block] = [j \in Slot |-> Nil]
    <3>1. /\ deq[c].block \in Block /\ deq[c].block \notin pool
          /\ \A m \in DOMAIN blk : blk[m] # deq[c].block
      BY <2>2, <2>3, <2>4 DEF Owned, Recycles, At
    <3> QED
      BY <2>2, <3>1 DEF Stored, Vacant
  <2>5. ASSUME NEW b \in pool
        PROVE  elements[b] = [j \in Slot |-> Nil]
    <3>1. b \in Block /\ \A m \in DOMAIN blk : blk[m] # b
      BY <2>2, <2>3 DEF Owned
    <3> QED
      BY <2>2, <3>1 DEF Stored, Vacant
  <2> QED
    BY <2>4, <2>5 DEF RecycledOnce
<1>2. CASE ~alive
  <2>1. Idle /\ elements = [b \in Block |-> Vacant] /\ pool \subseteq Block
    BY <1>2 DEF ImplicitInv, Emptied
  <2> QED
    BY <2>1, IdleNow DEF RecycledOnce, Vacant
<1> QED
  BY <1>1, <1>2

LEMMA DestructorNow ==
  ASSUME Counted, InOrder, ImplicitInv, ~isExplicit
  PROVE  DestructorIsExact
<1>1. ASSUME alive, Idle
      PROVE  /\ FreedBlocks = setup.blocks \ pool /\ IsInjective(Implicit!Freed)
             /\ Destroyed = {p \in Block \X Slot : elements[p[1]][p[2]] # Nil}
  <2>1. PICK z, num, f, blk, t, w, ch : Settled(z, num, f, blk, t, w, ch)
    BY <1>1 DEF ImplicitInv, Fitting
  <2> QED
    BY <1>1, <2>1, FreedExactly, DestroyedExactly DEF FreedBlocks, Destroyed
<1> QED
  BY <1>1 DEF DestructorIsExact

-----------------------------------------------------------------------------
(* The counters, the block index and the blocks of an implicit sub-queue   *)
(* (ImplicitProducer in concurrentqueue.h) fit together through any        *)
(* interleaving of its producer with any number of consumers, for every    *)
(* block size, number of blocks, size of the index and width of index_t:   *)
(* a lookup hits the entry of its block also in an index that has been     *)
(* replaced or whose newest entries are being taken back, and a block goes *)
(* back to the free list once, when nothing is left in it.                 *)
THEOREM ImplicitIsSound == Spec /\ []NotTooStale => [](~isExplicit => SubQueueInv)
<1>1. Counted /\ AddsUp /\ InOrder /\ ImplicitInv => (~isExplicit => SubQueueInv)
  BY AddUpMeans, TypesNow, EntryNow, RecycledNow DEF SubQueueInv
<1> QED
  BY <1>1, ImplicitAlways, PTL

(* The block that dequeue and dequeue_bulk found through the index holds   *)
(* the elements that the call has claimed, until the call moves them out:  *)
(* it is neither recycled nor given to other elements before.              *)
THEOREM ImplicitFindsItsElements == Spec /\ []NotTooStale => [](~isExplicit => FindsItsElements)
<1>1. Counted /\ AddsUp /\ InOrder /\ ImplicitInv => (~isExplicit => FindsItsElements)
  BY ElementsNow
<1> QED
  BY <1>1, ImplicitAlways, PTL

(* ~ImplicitProducer, whenever no call is under way, destroys exactly the  *)
(* elements that nobody took and gives back every block that is not in the *)
(* free list, each once.                                                   *)
THEOREM ImplicitDestructorIsExact == Spec /\ []NotTooStale => [](~isExplicit => DestructorIsExact)
<1>1. Counted /\ AddsUp /\ InOrder /\ ImplicitInv => (~isExplicit => DestructorIsExact)
  BY DestructorNow
<1> QED
  BY <1>1, ImplicitAlways, PTL

-----------------------------------------------------------------------------
(* An implicit sub-queue is a queue: what a call has in its hands, from    *)
(* its claim on, is the row of the elements that it has claimed.           *)
Hand(d) ==
  IF "got" \in DOMAIN d
  THEN d.got \o Row(IF d.pc \in {"unlink", "recycle"} THEN StopIndex(d.at, d.end) ELSE d.at, d.end)
  ELSE <<>>
hands == [c \in Consumer |-> Taken(c)]

LEMMA TakenIs ==
  /\ \A c : Taken(c) = Hand(deq[c])
  /\ \A c : Taken(c)' = Hand(deq'[c])
<1>1. ASSUME NEW c PROVE Taken(c) = Hand(deq[c])
  BY DEF Taken, Hand, At, Stop
<1>2. ASSUME NEW c PROVE Taken(c)' = Hand(deq'[c])
  BY DEF Taken, Hand, At, Stop
<1> QED
  BY <1>1, <1>2

(* A call that has claimed has its elements; what is moved out of a block  *)
(* last is still in its hands when it gives the block back.                *)
Gathered(d) ==
  /\ "got" \in DOMAIN d <=> Taking(d)
  /\ Taking(d) => d.got \in Seq(Index)
  /\ d.pc \in {"unlink", "recycle"} => d.got # <<>>
  /\ d.pc \in {"header", "base"} => d.got = <<>>
Gathering == \A c \in Consumer : Gathered(deq[c])

LEMMA RowsJoin ==
  ASSUME SetupOK, NEW a \in Int, NEW s \in Int, NEW e \in Int, a <= s, s <= e, e - a < Modulus
  PROVE  /\ Row(Idx(a), Idx(s)) \in Seq(Index) /\ Row(Idx(s), Idx(e)) \in Seq(Index)
         /\ Len(Row(Idx(a), Idx(s))) = s - a
         /\ Row(Idx(a), Idx(e)) = Row(Idx(a), Idx(s)) \o Row(Idx(s), Idx(e))
<1>1. PICK i, j : i = s - a /\ j = e - s /\ i \in Nat /\ j \in Nat /\ i + j = e - a
                  /\ s = a + i
  OBVIOUS
<1>2. Modulus \in Nat /\ s - a < Modulus /\ e - s < Modulus
  BY SetupFacts
<1>3. PICK p, q, r : /\ p = Row(Idx(a), Idx(s)) /\ q = Row(Idx(s), Idx(e))
                     /\ r = Row(Idx(a), Idx(e))
                     /\ p = [k \in 1 .. i |-> Idx(a + k - 1)]
                     /\ q = [k \in 1 .. j |-> Idx(s + k - 1)]
                     /\ r = [k \in 1 .. i + j |-> Idx(a + k - 1)]
  <2>1. a <= e
    OBVIOUS
  <2> QED
    BY <1>1, <1>2, <2>1, RowIs
<1>4. \A x \in Int : Idx(x) \in Index
  BY OffsetFacts
<1>5. p \in Seq(Index) /\ q \in Seq(Index) /\ r \in Seq(Index)
      /\ Len(p) = i /\ Len(q) = j /\ Len(r) = i + j
  <2>1. p \in [1 .. i -> Index] /\ q \in [1 .. j -> Index] /\ r \in [1 .. i + j -> Index]
    BY <1>1, <1>3, <1>4
  <2>2. p \in Seq(Index) /\ q \in Seq(Index) /\ r \in Seq(Index)
    <3>1. i + j \in Nat
      BY <1>1
    <3> QED
      BY <1>1, <2>1, <3>1, SeqDef
  <2>3. DOMAIN p = 1 .. i /\ DOMAIN q = 1 .. j /\ DOMAIN r = 1 .. i + j
    BY <1>3
  <2> QED
    BY <1>1, <2>2, <2>3, LenProperties
<1>6. p \o q \in Seq(Index) /\ Len(p \o q) = i + j
      /\ \A k \in 1 .. i + j : (p \o q)[k] = IF k <= i THEN p[k] ELSE q[k - i]
  BY <1>5, ConcatProperties
<1>7. ASSUME NEW k \in 1 .. i + j PROVE (p \o q)[k] = r[k]
  <2>1. CASE k <= i
    <3>1. k \in 1 .. i
      BY <1>1, <2>1
    <3> QED
      BY <1>3, <1>6, <2>1, <3>1
  <2>2. CASE ~(k <= i)
    <3>1. k - i \in 1 .. j /\ s + (k - i) - 1 = a + k - 1
      BY <1>1, <2>2
    <3>2. q[k - i] = Idx(s + (k - i) - 1)
      BY <1>3, <3>1
    <3> QED
      BY <1>3, <1>6, <2>2, <3>1, <3>2
  <2> QED
    BY <2>1, <2>2
<1>8. p \o q = r
  BY <1>5, <1>6, <1>7, SeqEqual
<1> QED
  BY <1>1, <1>3, <1>5, <1>8

(* The hands of one call change.                                           *)
LEMMA HandsChange ==
  ASSUME Counted, NEW c \in Consumer, NEW d, Becomes(c, d)
  PROVE  /\ hands' = [hands EXCEPT ![c] = Hand(d)]
         /\ hands[c] = Hand(deq[c])
         /\ Hand(d) = Hand(deq[c]) => hands' = hands
<1>1. deq'[c] = d /\ \A x \in Consumer : x # c => deq'[x] = deq[x]
  BY DEF Counted, Becomes
<1>2. \A x \in Consumer : hands[x] = Hand(deq[x])
  BY TakenIs DEF hands
<1>3. hands' = [x \in Consumer |-> Taken(x)']
  BY DEF hands
<1>4. \A x \in Consumer : Taken(x)' = Hand(deq'[x])
  BY TakenIs
<1>5. hands' = [x \in Consumer |-> Hand(deq'[x])]
  BY <1>3, <1>4
<1>6. hands = [x \in Consumer |-> hands[x]]
  BY DEF hands
<1>7. hands' = [x \in Consumer |-> IF x = c THEN Hand(d) ELSE hands[x]]
  BY <1>1, <1>2, <1>5
<1> QED
  BY <1>2, <1>6, <1>7

LEMMA HandsKept ==
  ASSUME deq' = deq
  PROVE  hands' = hands /\ (Gathering => Gathering')
<1>1. \A x \in Consumer : Taken(x)' = Hand(deq[x]) /\ Taken(x) = Hand(deq[x])
  BY TakenIs
<1>2. hands' = [x \in Consumer |-> Taken(x)']
  BY DEF hands
<1>3. hands' = hands
  BY <1>1, <1>2 DEF hands
<1>4. Gathering => Gathering'
  BY DEF Gathering, Gathered, Taking, LookingPcs, Index
<1> QED
  BY <1>3, <1>4

LEMMA GatheringOn ==
  ASSUME Counted, Gathering, NEW c \in Consumer, NEW d, Becomes(c, d), Gathered(d)
  PROVE  Gathering'
<1>1. deq'[c] = d /\ \A x \in Consumer : x # c => deq'[x] = deq[x]
  BY DEF Counted, Becomes
<1>2. ASSUME NEW x \in Consumer PROVE Gathered(deq'[x])
  BY <1>1 DEF Gathering
<1>3. Gathering' <=> \A x \in Consumer : Gathered(deq'[x])
  BY DEF Gathering, Gathered, Taking, LookingPcs, Index
<1> QED
  BY <1>2, <1>3

(* The steps of a consumer up to its claim take nothing; the claim takes   *)
(* the first elements of the queue.                                        *)
LEMMA CountingTakes ==
  ASSUME Counted, Gathering, NEW c \in Consumer,
         \/ \E max \in setup.dequeue : Dequeue(c, max)
         \/ LoadOvercommit(c) \/ TestOptimistic(c) \/ Reserve(c) \/ Recheck(c) \/ Overcommit(c)
  PROVE  /\ UNCHANGED <<headIndex, tailIndex, hands>> /\ Gathering'
<1>1. \E d : Becomes(c, d) /\ ~Taking(d) /\ "got" \notin DOMAIN d /\ ~Taking(deq[c])
  <2> USE DEF Taking, LookingPcs
  <2>1. CASE \E max \in setup.dequeue : Dequeue(c, max)
    <3>1. PICK max \in setup.dequeue : Dequeue(c, max)
      BY <2>1
    <3> QED
      BY <3>1, DequeueCounts
  <2>2. CASE LoadOvercommit(c)
    BY <2>2, LoadOvercommitCounts
  <2>3. CASE TestOptimistic(c)
    BY <2>3, TestOptimisticCounts DEF NoCall
  <2>4. CASE Reserve(c)
    BY <2>4, ReserveCounts
  <2>5. CASE Recheck(c)
    BY <2>5, RecheckCounts
  <2>6. CASE Overcommit(c)
    BY <2>6, OvercommitCounts DEF NoCall
  <2> QED
    BY <2>1, <2>2, <2>3, <2>4, <2>5, <2>6
<1>2. PICK d : Becomes(c, d) /\ ~Taking(d) /\ "got" \notin DOMAIN d /\ ~Taking(deq[c])
  BY <1>1
<1>3. Gathered(d) /\ Hand(d) = <<>> /\ Hand(deq[c]) = <<>>
  <2>1. Gathered(deq[c])
    BY DEF Gathering
  <2>2. "got" \notin DOMAIN deq[c]
    BY <1>2, <2>1 DEF Gathered
  <2>3. Hand(d) = <<>> /\ Hand(deq[c]) = <<>>
    BY <1>2, <2>2 DEF Hand
  <2> QED
    BY <1>2, <2>3 DEF Gathered, Taking, LookingPcs
<1>4. hands' = hands /\ Gathering'
  BY <1>2, <1>3, HandsChange, GatheringOn
<1>5. headIndex' = headIndex /\ tailIndex' = tailIndex
  BY DEF Dequeue, LoadOvercommit, TestOptimistic, Reserve, Recheck, Overcommit, counters
<1> QED
  BY <1>4, <1>5

LEMMA ClaimTakes ==
  ASSUME Counted, InOrder, Gathering, NEW c \in Consumer, Claim(c)
  PROVE  Queue!Take(c) /\ Gathering'
<1>1. PICK d : /\ Becomes(c, d) /\ deq[c].pc = "claim"
               /\ d = [pc |-> "header", at |-> headIndex,
                       end |-> Plus(headIndex, deq[c].count), got |-> <<>>]
  BY ClaimCounts
<1>2. PICK n, h, k : /\ n = deq[c].count /\ n \in Nat /\ n >= 1 /\ n <= Length
                     /\ h = HeadNo /\ h \in Int /\ headIndex = Idx(h)
                     /\ k = Length /\ k \in Nat /\ k < Modulus /\ k = Minus(tailIndex, headIndex)
                     /\ n <= k /\ n < Modulus /\ Modulus \in Nat
  <2>1. deq[c].count \in Nat \ {0} /\ deq[c].count <= Length
    BY <1>1, ClaimIsThere
  <2>2. /\ HeadNo \in Nat /\ headIndex = Idx(HeadNo)
        /\ Length < Modulus /\ Length = Minus(tailIndex, headIndex) /\ Length \in Nat
    BY LengthFacts DEF InOrder, HeadNo
  <2>3. Modulus \in Nat
    BY CountedFacts
  <2> QED
    BY <2>1, <2>2, <2>3
<1>3. SetupOK
  BY CountedFacts
<1>4. Plus(headIndex, n) = Idx(h + n)
  <2>1. n \in Int /\ h \in Int
    BY <1>2
  <2> QED
    BY <1>2, <1>3, <2>1, OffsetFacts
<1>5. PICK r : /\ r = Row(headIndex, Plus(headIndex, n)) /\ r \in Seq(Index)
               /\ r = [j \in 1 .. n |-> Idx(h + j - 1)]
  <2>1. h \in Int /\ h + n \in Int /\ h <= h + n /\ (h + n) - h < Modulus /\ (h + n) - h = n
        /\ h <= h
    BY <1>2
  <2>2. Row(Idx(h), Idx(h + n)) = [j \in 1 .. n |-> Idx(h + j - 1)]
    BY <1>3, <2>1, RowIs
  <2>3. Row(Idx(h), Idx(h + n)) \in Seq(Index)
    BY <1>3, <2>1, RowsJoin
  <2> QED
    BY <1>2, <1>4, <2>2, <2>3
<1>6. Hand(d) = r
  <2>1. Hand(d) = <<>> \o r
    BY <1>1, <1>2, <1>5 DEF Hand
  <2> QED
    BY <1>5, <2>1, ConcatEmptySeq
<1>7. r = Queue!Row(headIndex, n)
  <2>1. ASSUME NEW j \in 1 .. n PROVE Idx(h + j - 1) = (headIndex + j - 1) % Modulus
    <3>1. j - 1 \in Int /\ h + (j - 1) = h + j - 1
      BY <1>2
    <3>2. Plus(headIndex, j - 1) = Idx(h + j - 1)
      BY <1>2, <1>3, <3>1, OffsetFacts
    <3>3. headIndex \in Int
      BY CountedFacts DEF Index
    <3>4. headIndex + (j - 1) = headIndex + j - 1
      BY <3>1, <3>3
    <3> QED
      BY <3>2, <3>4 DEF Plus
  <2> QED
    BY <1>5, <2>1 DEF Queue!Row
<1>8. hands[c] = <<>> /\ hands' = [hands EXCEPT ![c] = r]
  <2>1. "got" \notin DOMAIN deq[c]
    BY <1>1 DEF Gathering, Gathered, Taking, LookingPcs
  <2>2. Hand(deq[c]) = <<>>
    BY <2>1 DEF Hand
  <2> QED
    BY <1>1, <1>6, <2>2, HandsChange
<1>9. headIndex' = (headIndex + n) % Modulus /\ tailIndex' = tailIndex
  BY <1>2 DEF Claim, Plus
<1>10. n \in 1 .. (tailIndex - headIndex) % Modulus
  BY <1>2 DEF Minus
<1>11. Gathering'
  <2>1. Gathered(d)
    <3>1. <<>> \in Seq(Index)
      OBVIOUS
    <3> QED
      BY <1>1, <3>1 DEF Gathered, Taking, LookingPcs
  <2> QED
    BY <1>1, <2>1, GatheringOn
<1>12. Queue!Take(c)
  BY <1>7, <1>8, <1>9, <1>10 DEF Queue!Take, hands
<1> QED
  BY <1>11, <1>12

(* The lookups keep what the call has.                                     *)
LEMMA LookupTakes ==
  ASSUME Counted, Gathering, NEW c \in Consumer,
         \/ LoadHeader(c)
         \/ \E size, base : At(c, "base") /\ LoadBase(c, size, base)
         \/ \E block : At(c, "block") /\ LoadBlock(c, block)
         \/ Implicit!Unlink(c) /\ {"pc", "at", "end", "got"} \subseteq DOMAIN deq[c]
  PROVE  /\ UNCHANGED <<headIndex, tailIndex, hands>> /\ Gathering'
<1>1. Gathered(deq[c])
  BY DEF Gathering
<1>2. ASSUME NEW d, Becomes(c, d), "got" \in DOMAIN d, d.got = deq[c].got,
             d.at = deq[c].at, d.end = deq[c].end, d.pc \in LookingPcs, deq[c].pc \in LookingPcs,
             d.pc \in {"unlink", "recycle"} <=> deq[c].pc \in {"unlink", "recycle"},
             d.pc \in {"header", "base"} => deq[c].pc \in {"header", "base"}
      PROVE  hands' = hands /\ Gathering'
  <2>1. Hand(d) = Hand(deq[c])
    BY <1>1, <1>2 DEF Hand, Gathered, Taking
  <2>2. Gathered(d)
    BY <1>1, <1>2 DEF Gathered, Taking
  <2> QED
    BY <1>2, <2>1, <2>2, HandsChange, GatheringOn
<1>3. CASE LoadHeader(c)
  <2>1. PICK d : /\ d = [pc |-> "base", at |-> deq[c].at, end |-> deq[c].end, got |-> <<>>,
                         header |-> Len(index), front |-> Header.front]
                 /\ Becomes(c, d) /\ deq[c].pc = "header"
    BY <1>3 DEF LoadHeader, Go, Becomes, At
  <2>2. deq[c].got = <<>>
    BY <1>1, <2>1 DEF Gathered
  <2>3. hands' = hands /\ Gathering'
    BY <1>2, <2>1, <2>2 DEF LookingPcs
  <2> QED
    BY <1>3, <2>3 DEF LoadHeader, counters
<1>4. CASE \E size, base : At(c, "base") /\ LoadBase(c, size, base)
  <2>1. PICK d, h, p :
          /\ d = [pc |-> "block", at |-> deq[c].at, end |-> deq[c].end, got |-> <<>>,
                  header |-> h, pos |-> p]
          /\ Becomes(c, d) /\ deq[c].pc = "base"
    BY <1>4 DEF LoadBase, Go, Becomes, At
  <2>2. deq[c].got = <<>>
    BY <1>1, <2>1 DEF Gathered
  <2>3. hands' = hands /\ Gathering'
    BY <1>2, <2>1, <2>2 DEF LookingPcs
  <2> QED
    BY <1>4, <2>3 DEF LoadBase, counters
<1>5. CASE \E block : At(c, "block") /\ LoadBlock(c, block)
  <2>1. PICK d, h, p, b :
          /\ d = [pc |-> "read", at |-> deq[c].at, end |-> deq[c].end, got |-> deq[c].got,
                  header |-> h, pos |-> p, block |-> b]
          /\ Becomes(c, d) /\ deq[c].pc = "block"
    BY <1>5 DEF LoadBlock, Go, Becomes, At
  <2>2. hands' = hands /\ Gathering'
    BY <1>2, <2>1 DEF LookingPcs
  <2> QED
    BY <1>5, <2>2 DEF LoadBlock, counters
<1>6. CASE Implicit!Unlink(c) /\ {"pc", "at", "end", "got"} \subseteq DOMAIN deq[c]
  <2>1. PICK d : d = [deq[c] EXCEPT !.pc = "recycle"] /\ Becomes(c, d) /\ deq[c].pc = "unlink"
    BY <1>6 DEF Implicit!Unlink, Implicit!Go, Becomes, Implicit!At
  <2>2. /\ "got" \in DOMAIN d /\ d.got = deq[c].got /\ d.at = deq[c].at
        /\ d.end = deq[c].end /\ d.pc = "recycle"
    BY <1>6, <2>1
  <2>3. hands' = hands /\ Gathering'
    BY <1>2, <2>1, <2>2 DEF LookingPcs
  <2> QED
    BY <1>6, <2>3 DEF Implicit!Unlink, Implicit!counters, counters
<1> QED
  BY <1>3, <1>4, <1>5, <1>6

(* A call goes on with its next block, or returns with what it has.        *)
LEMMA NextTakes ==
  ASSUME Counted, Gathering, NEW c \in Consumer, deq[c].pc \in {"read", "unlink", "recycle"},
         NEW got \in Seq(Index), got # <<>>, NEW size, Becomes(c, Implicit!NextBlock(c, size, got)),
         Row(Stop(c), deq[c].end) \in Seq(Index),
         Hand(deq[c]) = got \o Row(Stop(c), deq[c].end), UNCHANGED <<headIndex, tailIndex>>
  PROVE  /\ Queue!Return(c) \/ UNCHANGED <<headIndex, tailIndex, hands>>
         /\ Gathering'
<1>1. CASE Stop(c) = deq[c].end
  <2>1. Becomes(c, NoCall)
    BY <1>1, SharedOnes DEF Implicit!NextBlock, Implicit!NoCall, NoCall
  <2>2. Hand(NoCall) = <<>> /\ Gathered(NoCall)
    BY DEF Hand, NoCall, Gathered, Taking, LookingPcs
  <2>3. Hand(deq[c]) # <<>>
    BY ConcatEqualIffEmpty
  <2>4. hands' = [hands EXCEPT ![c] = <<>>] /\ hands[c] # <<>>
    BY <2>1, <2>2, <2>3, HandsChange
  <2>5. Gathering'
    BY <2>1, <2>2, GatheringOn
  <2>6. Queue!Return(c)
    BY <2>4 DEF Queue!Return, hands
  <2> QED
    BY <2>5, <2>6
<1>2. CASE Stop(c) # deq[c].end
  <2>1. PICK d : /\ Becomes(c, d) /\ "got" \in DOMAIN d /\ d.pc = "block"
                 /\ d.got = got /\ d.at = Stop(c) /\ d.end = deq[c].end
    <3>1. PICK p : Implicit!NextBlock(c, size, got)
                     = [pc |-> "block", at |-> Stop(c), end |-> deq[c].end, got |-> got,
                        header |-> deq[c].header, pos |-> p]
      BY <1>2, SharedOnes DEF Implicit!NextBlock
    <3>2. PICK d : d = [pc |-> "block", at |-> Stop(c), end |-> deq[c].end, got |-> got,
                        header |-> deq[c].header, pos |-> p] /\ Becomes(c, d)
      BY <3>1
    <3>3. /\ "got" \in DOMAIN d /\ d.pc = "block"
          /\ d.got = got /\ d.at = Stop(c) /\ d.end = deq[c].end
      BY <3>2
    <3> QED
      BY <3>2, <3>3
  <2>2. Hand(d) = Hand(deq[c])
    BY <2>1 DEF Hand
  <2>3. Gathered(d)
    BY <2>1 DEF Gathered, Taking, LookingPcs
  <2> QED
    BY <2>1, <2>2, <2>3, HandsChange, GatheringOn
<1> QED
  BY <1>1, <1>2

LEMMA Joined ==
  ASSUME NEW S, NEW s \in Seq(S), NEW t \in Seq(S), NEW u \in Seq(S)
  PROVE  (s \o t) \o u = s \o (t \o u)
  BY ConcatAssociative

(* The elements that leave a block are those that the call expects there.  *)
LEMMA MovingTakes ==
  ASSUME Counted, InOrder, Gathering, NEW z, NEW num, NEW f, NEW blk, NEW t, NEW w, NEW ch,
         Settled(z, num, f, blk, t, w, ch), NEW c \in Consumer, Implicit!SetEmpty(c)
  PROVE  /\ Queue!Return(c) \/ UNCHANGED <<headIndex, tailIndex, hands>>
         /\ Gathering'
<1>1. deq[c].pc = "read"
  BY DEF Implicit!SetEmpty, Implicit!At
<1>2. Contents(c) = Row(deq[c].at, Stop(c))
  BY <1>1, FoundElements DEF Expected
<1>3. PICK g, p, q, r : /\ g = deq[c].got /\ p = Row(deq[c].at, Stop(c))
                        /\ q = Row(Stop(c), deq[c].end) /\ r = Row(deq[c].at, deq[c].end)
                        /\ g \in Seq(Index) /\ p \in Seq(Index) /\ q \in Seq(Index)
                        /\ r = p \o q /\ p # <<>> /\ "got" \in DOMAIN deq[c]
  <2>1. Taking(deq[c])
    BY <1>1 DEF Taking, LookingPcs
  <2>2. PICK a, e, s \in Int :
           /\ deq[c].at = Idx(a) /\ deq[c].end = Idx(e)
           /\ 0 <= a /\ a < s /\ s <= e /\ e < Modulus /\ Stop(c) = Idx(s)
    BY <2>1, StopOf
  <2>3. a <= s /\ s <= e /\ e - a < Modulus /\ s - a # 0
    BY <2>2, CountedFacts
  <2>4. /\ Row(Idx(a), Idx(s)) \in Seq(Index) /\ Row(Idx(s), Idx(e)) \in Seq(Index)
        /\ Len(Row(Idx(a), Idx(s))) # 0
        /\ Row(Idx(a), Idx(e)) = Row(Idx(a), Idx(s)) \o Row(Idx(s), Idx(e))
    BY <2>2, <2>3, CountedFacts, RowsJoin
  <2>5. Row(Idx(a), Idx(s)) # <<>>
    BY <2>4, EmptySeq
  <2>6. Gathered(deq[c])
    BY DEF Gathering
  <2> QED
    BY <2>1, <2>2, <2>4, <2>5, <2>6 DEF Gathered
<1>4. PICK o : /\ o = g \o p /\ o \in Seq(Index) /\ o # <<>>
               /\ Hand(deq[c]) = o \o q
  <2>1. Hand(deq[c]) = g \o (p \o q)
    BY <1>1, <1>3 DEF Hand
  <2>2. (g \o p) \o q = g \o (p \o q)
    <3>1. g \in Seq(Index) /\ p \in Seq(Index) /\ q \in Seq(Index)
      BY <1>3
    <3>2. \A S : \A x, y, v \in Seq(S) : (x \o y) \o v = x \o (y \o v)
      BY Joined
    <3> QED
      BY <3>1, <3>2
  <2>3. g \o p \in Seq(Index)
    BY <1>3, ConcatProperties
  <2>4. g \o p # <<>>
    BY <1>3, ConcatEqualIffEmpty
  <2> QED
    BY <2>1, <2>2, <2>3, <2>4
<1>5. PICK d, size : /\ Becomes(c, d)
                     /\ \/ d = [deq[c] EXCEPT !.pc = "unlink", !.got = o]
                        \/ d = Implicit!NextBlock(c, size, o)
  BY <1>2, <1>3, <1>4, SharedOnes DEF Implicit!SetEmpty, Implicit!Go, Becomes
<1>6. UNCHANGED <<headIndex, tailIndex>>
  BY DEF Implicit!SetEmpty, Implicit!counters
<1>7. CASE d = [deq[c] EXCEPT !.pc = "unlink", !.got = o]
  <2>1. {"at", "end"} \subseteq DOMAIN deq[c] /\ "pc" \in DOMAIN deq[c]
    <3>1. LookedUp(setup.start, deq[c], Rings(index), entry, z, num, blk, GoneNow)
      BY DEF Settled, Consuming
    <3> QED
      BY <1>1, <3>1, CountedFacts DEF LookedUp, Counting
  <2>2. /\ "got" \in DOMAIN d /\ d.pc = "unlink" /\ d.got = o
        /\ d.at = deq[c].at /\ d.end = deq[c].end
    BY <1>3, <1>7, <2>1
  <2>3. Hand(d) = Hand(deq[c])
    BY <1>3, <1>4, <2>2 DEF Hand, Stop
  <2>4. Gathered(d)
    BY <1>4, <2>2 DEF Gathered, Taking, LookingPcs
  <2> QED
    BY <1>5, <1>6, <2>3, <2>4, HandsChange, GatheringOn
<1>8. CASE d = Implicit!NextBlock(c, size, o)
  BY <1>1, <1>3, <1>4, <1>5, <1>6, <1>8, NextTakes
<1> QED
  BY <1>5, <1>7, <1>8

LEMMA RecyclingTakes ==
  ASSUME Counted, InOrder, Gathering, NEW z, NEW num, NEW f, NEW blk, NEW t, NEW w, NEW ch,
         Settled(z, num, f, blk, t, w, ch), NEW c \in Consumer, Implicit!Recycle(c)
  PROVE  /\ Queue!Return(c) \/ UNCHANGED <<headIndex, tailIndex, hands>>
         /\ Gathering'
<1>1. deq[c].pc = "recycle" /\ Taking(deq[c])
  BY DEF Implicit!Recycle, Implicit!At, Taking, LookingPcs
<1>2. Row(Stop(c), deq[c].end) \in Seq(Index)
  <2>1. PICK e, s \in Int : /\ deq[c].end = Idx(e) /\ s <= e /\ Stop(c) = Idx(s)
                            /\ e < Modulus /\ 0 < s
    <3>1. PICK a, e, s \in Int :
             /\ deq[c].end = Idx(e) /\ 0 <= a /\ a < s /\ s <= e /\ e < Modulus /\ Stop(c) = Idx(s)
      BY <1>1, StopOf, ZenonT(40)
    <3>2. 0 < s
      BY <3>1
    <3> QED
      BY <3>1, <3>2
  <2>2. s <= s /\ e - s < Modulus
    BY <2>1, CountedFacts
  <2> QED
    BY <2>1, <2>2, CountedFacts, RowsJoin
<1>3. deq[c].got \in Seq(Index) /\ deq[c].got # <<>> /\ "got" \in DOMAIN deq[c]
  BY <1>1 DEF Gathering, Gathered
<1>4. Hand(deq[c]) = deq[c].got \o Row(Stop(c), deq[c].end)
  BY <1>1, <1>3 DEF Hand, Stop
<1>5. \E size : Becomes(c, Implicit!NextBlock(c, size, deq[c].got))
  BY DEF Implicit!Recycle, Implicit!Go, Becomes
<1>6. UNCHANGED <<headIndex, tailIndex>>
  BY DEF Implicit!Recycle, Implicit!counters
<1> QED
  BY <1>1, <1>2, <1>3, <1>4, <1>5, <1>6, NextTakes

LEMMA ConsumingTakes ==
  ASSUME Counted, InOrder, Gathering, NEW z, NEW num, NEW f, NEW blk, NEW t, NEW w, NEW ch,
         Settled(z, num, f, blk, t, w, ch), NEW c \in Consumer,
         Implicit!Consume(c) \/ \E max \in setup.dequeue : Dequeue(c, max)
  PROVE  /\ Queue!Next \/ UNCHANGED <<headIndex, tailIndex, hands>>
         /\ Gathering'
<1>1. \/ (\E max \in setup.dequeue : Dequeue(c, max))
      \/ LoadOvercommit(c) \/ TestOptimistic(c) \/ Reserve(c) \/ Recheck(c) \/ Overcommit(c)
      \/ Claim(c)
      \/ LoadHeader(c) \/ Implicit!SetEmpty(c) \/ Implicit!Unlink(c) \/ Implicit!Recycle(c)
      \/ \E size, base : At(c, "base") /\ LoadBase(c, size, base)
      \/ \E block : At(c, "block") /\ LoadBlock(c, block)
  BY ImplicitConsumes DEF Count
<1>2. Implicit!Unlink(c) => {"pc", "at", "end", "got"} \subseteq DOMAIN deq[c]
  <2>1. SUFFICES ASSUME deq[c].pc = "unlink" PROVE {"pc", "at", "end", "got"} \subseteq DOMAIN deq[c]
    BY DEF Implicit!Unlink, Implicit!At
  <2>2. LookedUp(setup.start, deq[c], Rings(index), entry, z, num, blk, GoneNow)
    BY DEF Settled, Consuming
  <2>3. Gathered(deq[c]) /\ Counting(deq[c])
    BY CountedFacts DEF Gathering
  <2> QED
    BY <2>1, <2>2, <2>3 DEF LookedUp, Counting, Gathered, Taking, LookingPcs
<1>3. CASE Claim(c)
  BY <1>3, ClaimTakes DEF Queue!Next
<1>4. CASE Implicit!SetEmpty(c)
  BY <1>4, MovingTakes DEF Queue!Next
<1>5. CASE Implicit!Recycle(c)
  BY <1>5, RecyclingTakes DEF Queue!Next
<1>6. CASE \/ LoadHeader(c) \/ Implicit!Unlink(c)
           \/ \E size, base : At(c, "base") /\ LoadBase(c, size, base)
           \/ \E block : At(c, "block") /\ LoadBlock(c, block)
  BY <1>2, <1>6, LookupTakes
<1>7. CASE \/ (\E max \in setup.dequeue : Dequeue(c, max))
           \/ LoadOvercommit(c) \/ TestOptimistic(c) \/ Reserve(c) \/ Recheck(c) \/ Overcommit(c)
  BY <1>7, CountingTakes
<1> QED
  BY <1>1, <1>3, <1>4, <1>5, <1>6, <1>7

LEMMA ProducingPuts ==
  ASSUME Counted, Produces
  PROVE  Queue!Put \/ UNCHANGED <<headIndex, tailIndex, hands>>
<1>1. hands' = hands /\ headIndex' = headIndex
  BY HandsKept DEF Produces
<1>2. CASE enq.pc = "publish" /\ tailIndex' = Plus(tailIndex, enq.n)
  <2>1. enq.n \in Nat \ {0} /\ enq.n <= Modulus
    <3>1. enq.n \in setup.enqueue /\ enqueued + enq.n <= setup.elements
      BY <1>2 DEF Counted, Enqueuing
    <3>2. enq.n \in Nat \ {0}
      BY <3>1, CountedFacts, SetupFacts
    <3>3. setup.elements \in Nat
      BY CountedFacts, SetupMore
    <3> QED
      BY <3>1, <3>2, <3>3, CountedFacts
  <2>2. enq.n \in 1 .. Modulus
    BY <2>1, CountedFacts
  <2> QED
    BY <1>1, <1>2, <2>2 DEF Queue!Put, Plus, hands
<1> QED
  BY <1>1, <1>2 DEF Produces

LEMMA QueueStep ==
  ASSUME Counted, InOrder, ImplicitInv, Gathering, ~isExplicit, [Next]_vars
  PROVE  /\ Queue!Next \/ UNCHANGED <<headIndex, tailIndex, hands>>
         /\ Gathering'
<1>1. CASE ~alive
  <2>1. UNCHANGED vars
    BY <1>1, EmptiedStays DEF ImplicitInv
  <2> QED
    BY <2>1, HandsKept DEF vars, counters
<1>2. CASE alive
  <2>1. PICK z, num, f, blk, t, w, ch : Settled(z, num, f, blk, t, w, ch)
    BY <1>2 DEF ImplicitInv, Fitting
  <2>2. CASE Produces
    BY <2>2, ProducingPuts, HandsKept DEF Produces, Queue!Next
  <2>3. ASSUME NEW c \in Consumer,
               Implicit!Consume(c) \/ \E max \in setup.dequeue : Dequeue(c, max)
        PROVE  (Queue!Next \/ UNCHANGED <<headIndex, tailIndex, hands>>) /\ Gathering'
    BY <2>1, <2>3, ConsumingTakes
  <2>4. CASE Destroy \/ UNCHANGED vars
    <3>1. UNCHANGED <<headIndex, tailIndex, deq>>
      BY <2>4 DEF Destroy, vars, counters
    <3> QED
      BY <3>1, HandsKept
  <2>5. \/ Produces
        \/ \E c \in Consumer :
             Implicit!Consume(c) \/ \E max \in setup.dequeue : Dequeue(c, max)
        \/ Destroy \/ UNCHANGED vars
    <3>1. ASSUME NEW n \in setup.enqueue, Call(n) PROVE Produces
      BY <3>1, CallsCount
    <3> QED
      BY <3>1, ProducerSteps DEF Next, Consume
  <2> QED
    BY <2>2, <2>3, <2>4, <2>5
<1> QED
  BY <1>1, <1>2

(* An implicit sub-queue implements ElementQueue: through any interleaving *)
(* of enqueue, enqueue_bulk, dequeue and dequeue_bulk, the elements come   *)
(* out in the order they went in, each in the hands of exactly one call,   *)
(* and a call gets elements in a row.                                      *)
THEOREM ImplicitIsAQueue == ~isExplicit /\ Spec /\ []NotTooStale => ImplementsQueue
<1>1. Init => Queue!Init /\ Gathering
  <2> SUFFICES ASSUME Init PROVE Queue!Init /\ Gathering
    OBVIOUS
  <2>1. deq = [c \in Consumer |-> NoCall] /\ tailIndex = headIndex
    BY DEF Init, Implicit!Init, Implicit!InitBase, Explicit!Init, Explicit!InitBase,
       Implicit!NoCall, Explicit!NoCall, NoCall
  <2>2. headIndex \in 0 .. Modulus - 1
    BY CountedInit, CountedFacts DEF Index
  <2>3. Hand(NoCall) = <<>> /\ Gathered(NoCall)
    BY DEF Hand, NoCall, Gathered, Taking, LookingPcs
  <2>4. ASSUME NEW c \in Consumer PROVE Taken(c) = <<>> /\ Gathered(deq[c])
    BY <2>1, <2>3, TakenIs
  <2> QED
    BY <2>1, <2>2, <2>4 DEF Queue!Init, Gathering
<1>2. Counted /\ ~isExplicit /\ [Next]_vars => ~isExplicit'
  BY SetupStays DEF isExplicit
<1>3. Counted /\ InOrder /\ ImplicitInv /\ ~isExplicit /\ Gathering /\ [Next]_vars
        => Gathering' /\ [Queue!Next]_<<headIndex, tailIndex, hands>>
  BY QueueStep
<1> QED
  BY <1>1, <1>2, <1>3, ImplicitAlways, PTL DEF Spec, ImplementsQueue, Queue!Spec, hands

=============================================================================
