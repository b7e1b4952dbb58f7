--------------------------- MODULE SubQueueProofs ---------------------------
(***************************************************************************)
(* Theorems about SubQueue, for any number of consumers, blocks and        *)
(* elements, any size of blocks and any width of index_t.  First the       *)
(* counters and the tail, for both kinds of sub-queue.  Then the block     *)
(* index of the implicit kind, its invariant Settled, the steps of the     *)
(* consumers and the first steps of the producer; SubQueueBlocksProofs     *)
(* goes on from there.                                                     *)
(***************************************************************************)
EXTENDS SubQueue, TLAPS, FiniteSetTheorems, WellFoundedInduction

LEMMA Smallest ==
  ASSUME NEW S \in SUBSET Nat, S # {}
  PROVE  \E n \in S : \A m \in S : n <= m
<1> DEFINE T == {0 .. n : n \in S}
           R == StrictSubsetOrdering(Nat)
<1>1. T \subseteq FiniteSubsetsOf(Nat) /\ T # {}
  <2>1. ASSUME NEW n \in S PROVE 0 .. n \in FiniteSubsetsOf(Nat)
    <3>1. IsFiniteSet(0 .. n)
      BY FS_Interval
    <3> QED
      BY <3>1 DEF FiniteSubsetsOf
  <2> QED
    BY <2>1
<1> HIDE DEF T
<1>2. PICK x \in T : \A y \in T : <<y, x>> \notin R
  BY <1>1, FS_StrictSubsetOrderingWellFounded, WFMin
<1>3. PICK n \in S : x = 0 .. n
  BY DEF T
<1>4. ASSUME NEW m \in S PROVE n <= m
  <2>1. 0 .. m \in T
    BY DEF T
  <2>2. <<0 .. m, 0 .. n>> \notin R
    BY <1>2, <1>3, <2>1
  <2>3. ~(0 .. m \subseteq 0 .. n /\ 0 .. m # 0 .. n)
    <3> DEFINE q == <<0 .. m, 0 .. n>>
    <3>1. q \in (SUBSET Nat) \X (SUBSET Nat) /\ q[1] = 0 .. m /\ q[2] = 0 .. n
      OBVIOUS
    <3> HIDE DEF q
    <3> QED
      BY <2>2, <3>1 DEF StrictSubsetOrdering, q
  <2>4. CASE m < n
    <3>1. 0 .. m \subseteq 0 .. n /\ n \in 0 .. n /\ n \notin 0 .. m
      BY <2>4
    <3> QED
      BY <2>3, <3>1
  <2> QED
    BY <2>4
<1> QED
  BY <1>4

-----------------------------------------------------------------------------
(* Arithmetic of index_t.                                                  *)
LEMMA ModFacts ==
  ASSUME NEW a \in Int, NEW m \in Nat \ {0}
  PROVE  /\ a % m \in 0 .. m - 1 /\ a \div m \in Int
         /\ a = m * (a \div m) + (a % m)
  OBVIOUS

LEMMA ModUnique ==
  ASSUME NEW m \in Nat \ {0}, NEW q \in Int, NEW r \in 0 .. m - 1
  PROVE  (m * q + r) % m = r
  OBVIOUS

LEMMA ModShift ==
  ASSUME NEW a \in Int, NEW q \in Int, NEW m \in Nat \ {0}
  PROVE  (m * q + a) % m = a % m
<1>1. PICK r, p : r = a % m /\ p = a \div m
  OBVIOUS
<1>2. r \in 0 .. m - 1 /\ p \in Int /\ a = m * p + r
  BY <1>1, ModFacts
<1>3. m * q + a = m * (q + p) + r
  BY <1>2
<1>4. q + p \in Int
  BY <1>2
<1>5. (m * (q + p) + r) % m = r
  BY <1>2, <1>4, ModUnique
<1> QED
  BY <1>1, <1>3, <1>5

LEMMA ModAdd ==
  ASSUME NEW a \in Int, NEW b \in Int, NEW m \in Nat \ {0}
  PROVE  ((a % m) + b) % m = (a + b) % m
<1>1. PICK r, p : r = a % m /\ p = a \div m
  OBVIOUS
<1>2. r \in 0 .. m - 1 /\ p \in Int /\ a = m * p + r
  BY <1>1, ModFacts
<1>3. a + b = m * p + (r + b) /\ r + b \in Int
  BY <1>2
<1>4. (m * p + (r + b)) % m = (r + b) % m
  BY <1>2, <1>3, ModShift
<1> QED
  BY <1>1, <1>3, <1>4

LEMMA ModSub ==
  ASSUME NEW a \in Int, NEW b \in Int, NEW m \in Nat \ {0}
  PROVE  (b - (a % m)) % m = (b - a) % m
<1>1. PICK r, p : r = a % m /\ p = a \div m
  OBVIOUS
<1>2. r \in 0 .. m - 1 /\ p \in Int /\ a = m * p + r
  BY <1>1, ModFacts
<1>3. b - r = m * p + (b - a) /\ b - a \in Int
  BY <1>2
<1>4. (m * p + (b - a)) % m = (b - a) % m
  BY <1>2, <1>3, ModShift
<1> QED
  BY <1>1, <1>3, <1>4

(* The initial values of a sub-queue are among the setups.                 *)
SetupOK == setup \in Setups

LEMMA SetupFacts ==
  ASSUME SetupOK
  PROVE  /\ Modulus \in Nat \ {0} /\ setup.start \in Index
         /\ BLOCK_SIZE \in Nat \ {0, 1}
         /\ setup.elements \in 0 .. Modulus - 1
         /\ setup.isExplicit \in BOOLEAN
         /\ setup.consumers \subseteq Consumer /\ setup.blocks \subseteq Block
         /\ setup.enqueue \subseteq Nat \ {0} /\ setup.dequeue \subseteq Nat \ {0}
         /\ setup.indexSize \in Nat
  BY ProducerBaseAssumption DEF SetupOK, Index

LEMMA IndexTyped ==
  ASSUME SetupOK, NEW a \in Int, NEW b \in Int
  PROVE  Plus(a, b) \in Index /\ Minus(a, b) \in Index
<1>1. Modulus \in Nat \ {0} /\ a + b \in Int /\ a - b \in Int
  BY SetupFacts
<1> QED
  BY <1>1, ModFacts DEF Plus, Minus, Index

(* Sums and differences of sums and differences.                           *)
LEMMA IndexArithmetic ==
  ASSUME SetupOK, NEW a \in Int, NEW b \in Int, NEW d \in Int
  PROVE  /\ Plus(Plus(a, b), d) = Plus(a, b + d)
         /\ Plus(Minus(a, b), d) = Plus(a, d - b)
         /\ Minus(Plus(a, b), d) = Plus(a, b - d)
         /\ Minus(Minus(a, b), d) = Minus(a, b + d)
         /\ Minus(a, Plus(b, d)) = Plus(a, (-b) - d)
         /\ Minus(a, Minus(b, d)) = Plus(a, d - b)
<1>1. Modulus \in Nat \ {0} /\ a + b \in Int /\ a - b \in Int /\ b + d \in Int /\ b - d \in Int
  BY SetupFacts
<1>2. (((a + b) % Modulus) + d) % Modulus = (a + (b + d)) % Modulus
  <2>1. (((a + b) % Modulus) + d) % Modulus = ((a + b) + d) % Modulus
    BY <1>1, ModAdd
  <2>2. (a + b) + d = a + (b + d)
    OBVIOUS
  <2> QED
    BY <2>1, <2>2
<1>3. (((a - b) % Modulus) + d) % Modulus = (a + (d - b)) % Modulus
  <2>1. (((a - b) % Modulus) + d) % Modulus = ((a - b) + d) % Modulus
    BY <1>1, ModAdd
  <2>2. (a - b) + d = a + (d - b)
    OBVIOUS
  <2> QED
    BY <2>1, <2>2
<1>4. (((a + b) % Modulus) - d) % Modulus = (a + (b - d)) % Modulus
  <2>1. (((a + b) % Modulus) + (-d)) % Modulus = ((a + b) + (-d)) % Modulus
    <3>1. -d \in Int
      OBVIOUS
    <3> QED
      BY <1>1, <3>1, ModAdd
  <2>2. (a + b) + (-d) = a + (b - d) /\ (a + b) % Modulus \in Int
    BY <1>1, ModFacts
  <2>3. ((a + b) % Modulus) + (-d) = ((a + b) % Modulus) - d
    BY <2>2
  <2> QED
    BY <2>1, <2>2, <2>3
<1>5. (((a - b) % Modulus) - d) % Modulus = (a - (b + d)) % Modulus
  <2>1. (((a - b) % Modulus) + (-d)) % Modulus = ((a - b) + (-d)) % Modulus
    <3>1. -d \in Int
      OBVIOUS
    <3> QED
      BY <1>1, <3>1, ModAdd
  <2>2. (a - b) + (-d) = a - (b + d) /\ (a - b) % Modulus \in Int
    BY <1>1, ModFacts
  <2>3. ((a - b) % Modulus) + (-d) = ((a - b) % Modulus) - d
    BY <2>2
  <2> QED
    BY <2>1, <2>2, <2>3
<1>6. (a - ((b + d) % Modulus)) % Modulus = (a + ((-b) - d)) % Modulus
  <2>1. (a - ((b + d) % Modulus)) % Modulus = (a - (b + d)) % Modulus
    BY <1>1, ModSub
  <2>2. a - (b + d) = a + ((-b) - d)
    OBVIOUS
  <2> QED
    BY <2>1, <2>2
<1>7. (a - ((b - d) % Modulus)) % Modulus = (a + (d - b)) % Modulus
  <2>1. (a - ((b - d) % Modulus)) % Modulus = (a - (b - d)) % Modulus
    BY <1>1, ModSub
  <2>2. a - (b - d) = a + (d - b)
    OBVIOUS
  <2> QED
    BY <2>1, <2>2
<1> QED
  BY <1>2, <1>3, <1>4, <1>5, <1>6, <1>7 DEF Plus, Minus

LEMMA PlusPlus ==
  ASSUME SetupOK, NEW a \in Int, NEW b \in Int, NEW d \in Int
  PROVE  Plus(Plus(a, b), d) = Plus(a, b + d)
  BY IndexArithmetic

LEMMA MinusPlus ==
  ASSUME SetupOK, NEW a \in Int, NEW b \in Int, NEW d \in Int
  PROVE  Plus(Minus(a, b), d) = Plus(a, d - b)
  BY IndexArithmetic

LEMMA PlusMinus ==
  ASSUME SetupOK, NEW a \in Int, NEW b \in Int, NEW d \in Int
  PROVE  Minus(Plus(a, b), d) = Plus(a, b - d)
  BY IndexArithmetic

LEMMA MinusMinus ==
  ASSUME SetupOK, NEW a \in Int, NEW b \in Int, NEW d \in Int
  PROVE  Minus(Minus(a, b), d) = Minus(a, b + d)
  BY IndexArithmetic

LEMMA LessPlus ==
  ASSUME SetupOK, NEW a \in Int, NEW b \in Int, NEW d \in Int
  PROVE  Minus(a, Plus(b, d)) = Minus(a, b + d)
<1>1. Minus(a, Plus(b, d)) = Plus(a, (-b) - d)
  BY IndexArithmetic
<1>2. a + ((-b) - d) = a - (b + d)
  OBVIOUS
<1> QED
  BY <1>1, <1>2 DEF Plus, Minus

LEMMA LessMinus ==
  ASSUME SetupOK, NEW a \in Int, NEW b \in Int, NEW d \in Int
  PROVE  Minus(a, Minus(b, d)) = Plus(a, d - b)
  BY IndexArithmetic

-----------------------------------------------------------------------------
(* Sums over the consumers: f is the sum of r over each set of them.       *)
Pick(s) == CHOOSE x \in s : TRUE
IsSum(r, f) ==
  f = [s \in SUBSET Consumer |-> IF s = {} THEN 0 ELSE r[Pick(s)] + f[s \ {Pick(s)}]]

LEMMA PickFacts ==
  ASSUME NEW s \in SUBSET Consumer, s # {}
  PROVE  /\ Pick(s) \in s /\ Pick(s) \in Consumer
         /\ s \ {Pick(s)} \in SUBSET Consumer
         /\ Cardinality(s \ {Pick(s)}) = Cardinality(s) - 1
         /\ Cardinality(s \ {Pick(s)}) \in Nat
<1>1. Pick(s) \in s
  BY DEF Pick
<1>2. IsFiniteSet(s)
  BY ProducerBaseAssumption, FS_Subset
<1>3. IsFiniteSet(s \ {Pick(s)})
  BY <1>2, FS_Subset
<1> QED
  BY <1>1, <1>2, <1>3, FS_RemoveElement, FS_CardinalityType

LEMMA SubsetsFinite ==
  ASSUME NEW s \in SUBSET Consumer
  PROVE  /\ IsFiniteSet(s) /\ Cardinality(s) \in Nat
         /\ Cardinality(s) <= Cardinality(Consumer) /\ Cardinality(Consumer) \in Nat
         /\ Cardinality(s) = 0 <=> s = {}
  BY ProducerBaseAssumption, FS_Subset, FS_CardinalityType, FS_EmptySet

LEMMA SumExists ==
  ASSUME NEW r
  PROVE  \E f : IsSum(r, f)
<1> DEFINE Upto(k) == {s \in SUBSET Consumer : Cardinality(s) <= k}
           Fine(k, f) == f = [s \in Upto(k) |->
                                IF s = {} THEN 0 ELSE r[Pick(s)] + f[s \ {Pick(s)}]]
           S == {k \in Nat : ~\E f : Fine(k, f)}
<1>1. S = {}
  <2>1. SUFFICES ASSUME S # {} PROVE FALSE
    OBVIOUS
  <2>2. PICK k \in S : \A l \in S : k <= l
    <3>1. S \in SUBSET Nat
      OBVIOUS
    <3> HIDE DEF S
    <3> QED
      BY <2>1, <3>1, Smallest
  <2>3. k # 0
    <3>1. SUFFICES ASSUME k = 0 PROVE FALSE
      OBVIOUS
    <3>2. PICK f : f = [s \in Upto(0) |-> 0]
      OBVIOUS
    <3>3. \A s \in Upto(0) : s = {}
      BY SubsetsFinite
    <3>4. Fine(0, f)
      BY <3>2, <3>3
    <3> QED
      BY <2>2, <3>1, <3>4
  <2>4. PICK l \in Nat : k = l + 1 /\ l \notin S
    <3>1. k - 1 \in Nat /\ k = (k - 1) + 1 /\ ~(k <= k - 1)
      BY <2>2, <2>3
    <3>2. k - 1 \notin S
      BY <2>2, <3>1
    <3> QED
      BY <3>1, <3>2
  <2>5. PICK g : Fine(l, g)
    BY <2>4
  <2>6. \A s \in Upto(l) : g[s] = IF s = {} THEN 0 ELSE r[Pick(s)] + g[s \ {Pick(s)}]
    BY <2>5
  <2>7. PICK f : f = [s \in Upto(k) |->
                        IF s = {} THEN 0 ELSE r[Pick(s)] + g[s \ {Pick(s)}]]
    OBVIOUS
  <2>8. \A s \in Upto(l) : s \in Upto(k) /\ f[s] = g[s]
    <3>1. TAKE s \in Upto(l)
    <3>2. Cardinality(s) <= k
      BY <2>4, SubsetsFinite
    <3>3. s \in Upto(k)
      BY <3>2
    <3> QED
      BY <2>6, <2>7, <3>3
  <2>9. \A s \in Upto(k) : s # {} => s \ {Pick(s)} \in Upto(l)
    <3>1. TAKE s \in Upto(k)
    <3>2. SUFFICES ASSUME s # {} PROVE s \ {Pick(s)} \in Upto(l)
      OBVIOUS
    <3>3. Cardinality(s \ {Pick(s)}) <= l
      BY <2>4, <3>2, SubsetsFinite, PickFacts
    <3> QED
      BY <3>3
  <2>10. f = [s \in Upto(k) |-> IF s = {} THEN 0 ELSE r[Pick(s)] + f[s \ {Pick(s)}]]
    <3> HIDE DEF Upto
    <3>1. ASSUME NEW s \in Upto(k)
          PROVE  f[s] = IF s = {} THEN 0 ELSE r[Pick(s)] + f[s \ {Pick(s)}]
      <4>1. s # {} => f[s \ {Pick(s)}] = g[s \ {Pick(s)}]
        BY <2>8, <2>9
      <4> QED
        BY <2>7, <4>1
    <3>2. f = [s \in Upto(k) |-> f[s]]
      BY <2>7
    <3> QED
      BY <3>1, <3>2
  <2> QED
    BY <2>2, <2>10
<1>2. Cardinality(Consumer) \in Nat
  BY SubsetsFinite
<1>3. PICK f : Fine(Cardinality(Consumer), f)
  BY <1>1, <1>2
<1>4. Upto(Cardinality(Consumer)) = SUBSET Consumer
  BY SubsetsFinite
<1> QED
  BY <1>3, <1>4 DEF IsSum

LEMMA SumUnfolds ==
  ASSUME NEW r, NEW f, IsSum(r, f), NEW s \in SUBSET Consumer
  PROVE  f[s] = IF s = {} THEN 0 ELSE r[Pick(s)] + f[s \ {Pick(s)}]
  BY DEF IsSum

LEMMA SumTyped ==
  ASSUME NEW r \in [Consumer -> Nat], NEW f, IsSum(r, f)
  PROVE  \A s \in SUBSET Consumer : f[s] \in Nat
<1>0. \A s \in SUBSET Consumer :
        f[s] = IF s = {} THEN 0 ELSE r[Pick(s)] + f[s \ {Pick(s)}]
  BY SumUnfolds
<1> DEFINE S == {k \in Nat : \E s \in SUBSET Consumer : Cardinality(s) = k /\ f[s] \notin Nat}
<1>1. SUFFICES ASSUME NEW s0 \in SUBSET Consumer, f[s0] \notin Nat PROVE FALSE
  OBVIOUS
<1>2. Cardinality(s0) \in S
  BY <1>1, SubsetsFinite
<1>3. PICK k \in S : \A l \in S : k <= l
  <2>1. S \in SUBSET Nat /\ S # {}
    BY <1>2
  <2> HIDE DEF S
  <2> QED
    BY <2>1, Smallest
<1>4. PICK s \in SUBSET Consumer : Cardinality(s) = k /\ f[s] \notin Nat
  BY <1>3
<1>5. s # {}
  <2>1. SUFFICES ASSUME s = {} PROVE FALSE
    OBVIOUS
  <2>2. f[s] = 0
    BY <1>0, <2>1
  <2> QED
    BY <1>4, <2>2
<1>6. PICK u \in SUBSET Consumer : u = s \ {Pick(s)} /\ Cardinality(u) = k - 1 /\ Cardinality(u) \in Nat
  BY <1>4, <1>5, PickFacts
<1>7. f[u] \in Nat
  <2>1. ~(k <= k - 1)
    BY <1>3
  <2>2. k - 1 \notin S
    BY <1>3, <2>1
  <2> QED
    BY <1>6, <2>2
<1>8. f[s] = r[Pick(s)] + f[u] /\ r[Pick(s)] \in Nat
  BY <1>5, <1>6, <1>0, PickFacts
<1> QED
  BY <1>4, <1>7, <1>8

(* A sum changes by as much as one of its terms.                           *)
LEMMA SumChanges ==
  ASSUME NEW r \in [Consumer -> Nat], NEW q \in [Consumer -> Nat],
         NEW f, IsSum(r, f), NEW g, IsSum(q, g), NEW c \in Consumer,
         \A x \in Consumer \ {c} : q[x] = r[x]
  PROVE  g[Consumer] = f[Consumer] + (q[c] - r[c])
<1>0. \A s \in SUBSET Consumer :
        f[s] = IF s = {} THEN 0 ELSE r[Pick(s)] + f[s \ {Pick(s)}]
  BY SumUnfolds
<1>00. \A s \in SUBSET Consumer :
        g[s] = IF s = {} THEN 0 ELSE q[Pick(s)] + g[s \ {Pick(s)}]
  BY DEF IsSum
<1> DEFINE Right(s) == g[s] = f[s] + (IF c \in s THEN q[c] - r[c] ELSE 0)
           S == {k \in Nat : \E s \in SUBSET Consumer : Cardinality(s) = k /\ ~Right(s)}
<1>1. SUFFICES ASSUME ~Right(Consumer) PROVE FALSE
  OBVIOUS
<1>2. Cardinality(Consumer) \in S
  BY <1>1, SubsetsFinite
<1>3. PICK k \in S : \A l \in S : k <= l
  <2>1. S \in SUBSET Nat /\ S # {}
    BY <1>2
  <2> HIDE DEF S
  <2> QED
    BY <2>1, Smallest
<1>4. PICK s \in SUBSET Consumer : Cardinality(s) = k /\ ~Right(s)
  BY <1>3
<1>5. s # {}
  <2>1. SUFFICES ASSUME s = {} PROVE FALSE
    OBVIOUS
  <2>2. f[s] = 0 /\ g[s] = 0 /\ c \notin s
    BY <1>0, <1>00, <2>1
  <2> QED
    BY <1>4, <2>2
<1>6. PICK u \in SUBSET Consumer : u = s \ {Pick(s)} /\ Cardinality(u) = k - 1 /\ Cardinality(u) \in Nat
  BY <1>4, <1>5, PickFacts
<1>7. Right(u)
  <2>1. ~(k <= k - 1)
    BY <1>3
  <2>2. k - 1 \notin S
    BY <1>3, <2>1
  <2> QED
    BY <1>6, <2>2
<1>8. PICK p \in Consumer : p = Pick(s) /\ p \in s
  BY <1>5, PickFacts
<1>9. f[s] = r[p] + f[u] /\ g[s] = q[p] + g[u]
  BY <1>0, <1>00, <1>5, <1>6, <1>8
<1>10. f[u] \in Nat /\ g[u] \in Nat /\ r[p] \in Nat /\ q[p] \in Nat /\ r[c] \in Nat /\ q[c] \in Nat
  BY <1>8, SumTyped
<1>11. Right(s)
  <2>1. CASE p = c
    BY <1>6, <1>7, <1>8, <1>9, <1>10, <2>1
  <2>2. CASE p # c
    <3>1. q[p] = r[p] /\ (c \in u <=> c \in s)
      BY <1>6, <1>8, <2>2
    <3> QED
      BY <1>7, <1>9, <1>10, <3>1
  <2> QED
    BY <2>1, <2>2
<1> QED
  BY <1>4, <1>11

LEMMA SumOfNothing ==
  ASSUME NEW r \in [Consumer -> Nat], NEW f, IsSum(r, f),
         \A c \in Consumer : r[c] = 0
  PROVE  f[Consumer] = 0
<1>0. \A s \in SUBSET Consumer :
        f[s] = IF s = {} THEN 0 ELSE r[Pick(s)] + f[s \ {Pick(s)}]
  BY SumUnfolds, ZenonT(40)
<1> DEFINE S == {k \in Nat : \E s \in SUBSET Consumer : Cardinality(s) = k /\ f[s] # 0}
<1>1. SUFFICES ASSUME f[Consumer] # 0 PROVE FALSE
  OBVIOUS
<1>2. Cardinality(Consumer) \in S
  BY <1>1, SubsetsFinite
<1>3. PICK k \in S : \A l \in S : k <= l
  <2>1. S \in SUBSET Nat /\ S # {}
    BY <1>2
  <2> HIDE DEF S
  <2> QED
    BY <2>1, Smallest
<1>4. PICK s \in SUBSET Consumer : Cardinality(s) = k /\ f[s] # 0
  BY <1>3
<1>5. s # {}
  <2>1. SUFFICES ASSUME s = {} PROVE FALSE
    OBVIOUS
  <2>2. f[s] = 0
    BY <1>0, <2>1
  <2> QED
    BY <1>4, <2>2
<1>6. PICK u \in SUBSET Consumer : u = s \ {Pick(s)} /\ Cardinality(u) = k - 1 /\ Cardinality(u) \in Nat
  BY <1>4, <1>5, PickFacts
<1>7. f[u] = 0
  <2>1. ~(k <= k - 1)
    BY <1>3
  <2>2. k - 1 \notin S
    BY <1>3, <2>1
  <2> QED
    BY <1>6, <2>2
<1>8. f[s] = r[Pick(s)] + f[u] /\ r[Pick(s)] = 0
  BY <1>5, <1>6, <1>0, PickFacts
<1> QED
  BY <1>4, <1>7, <1>8

-----------------------------------------------------------------------------
(* The counters.                                                           *)
LookingPcs == {"header", "base", "block", "read", "unlink", "recycle"}

(* A call that is counting: what it has read and decided.                  *)
Counting(d) ==
  /\ "pc" \in DOMAIN d
  /\ d.pc = "idle" => d = NoCall
  /\ d.pc \in {"idle", "overcommit", "optimistic", "reserve", "recheck", "return", "claim"}
              \cup LookingPcs
  /\ d.pc = "overcommit" => d.max \in Nat \ {0} /\ d.tail \in Index
  /\ d.pc = "optimistic" => d.max \in Nat \ {0} /\ d.tail \in Index /\ d.over \in Index
  /\ d.pc = "reserve" => d.over \in Index /\ d.want \in Nat \ {0}
  /\ d.pc = "recheck" => d.my \in Index /\ d.want \in Nat \ {0}
  /\ d.pc = "return" => d.count \in Nat /\ d.excess \in Nat \ {0}
  /\ d.pc = "claim" => d.count \in Nat \ {0}

(* The elements of the call of the producer will have a place in the count *)
(* of the elements.                                                        *)
Enqueuing(e) ==
  /\ "pc" \in DOMAIN e
  /\ e.pc = "idle" => e = NoCall
  /\ e.pc # "idle" =>
       /\ "n" \in DOMAIN e /\ e.n \in setup.enqueue
       /\ enqueued + e.n <= setup.elements

Counted ==
  /\ SetupOK
  /\ headIndex \in Index /\ dequeueOptimisticCount \in Index /\ dequeueOvercommit \in Index
  /\ enqueued \in 0 .. setup.elements /\ tailIndex = Plus(setup.start, enqueued)
  /\ DOMAIN deq = Consumer /\ deq = [c \in Consumer |-> deq[c]]
  /\ \A c \in Consumer : Counting(deq[c])
  /\ Enqueuing(enq)

LEMMA CountedFacts ==
  ASSUME Counted
  PROVE  /\ SetupOK /\ Modulus \in Nat \ {0} /\ tailIndex \in Index /\ Index \subseteq Nat
         /\ headIndex \in Index /\ dequeueOptimisticCount \in Index
         /\ dequeueOvercommit \in Index
         /\ enqueued \in Nat /\ enqueued <= setup.elements /\ setup.elements < Modulus
         /\ \A c \in Consumer : Counting(deq[c])
  <1>1. SetupOK /\ setup.start \in Int /\ enqueued \in Int
    BY SetupFacts DEF Counted, Index
  <1>2. tailIndex \in Index
    BY <1>1, IndexTyped DEF Counted
  <1> QED
    BY <1>1, <1>2, SetupFacts DEF Counted, Index

(* Both kinds of sub-queue count alike.                                    *)
LEMMA ImplicitConsumes ==
  ASSUME NEW c \in Consumer, Implicit!Consume(c)
  PROVE  \/ Count(c) \/ LoadHeader(c) \/ Implicit!SetEmpty(c) \/ Implicit!Unlink(c)
         \/ Implicit!Recycle(c)
         \/ At(c, "base") /\ LoadBase(c, Implicit!capacity(Implicit!Opened(c)),
                                      Implicit!EntryAt(c, deq[c].front).key)
         \/ At(c, "block") /\ LoadBlock(c, Implicit!EntryAt(c, deq[c].pos).value)
<1>1. Implicit!Count(c) <=> Count(c)
  BY DEF Implicit!Count, Count, Implicit!LoadOvercommit, LoadOvercommit,
         Implicit!TestOptimistic, TestOptimistic, Implicit!Reserve, Reserve,
         Implicit!Recheck, Recheck, Implicit!Overcommit, Overcommit, Implicit!Claim, Claim,
         Implicit!At, At, Implicit!Go, Go, Implicit!Plus, Plus, Implicit!Minus, Minus,
         Implicit!circular_less_than, circular_less_than, Implicit!NoCall, NoCall,
         Implicit!counters, counters, Implicit!memory, memory,
         Implicit!blockIndex, blockIndex, Implicit!producer, producer
<1>2. Implicit!LoadHeader(c) <=> LoadHeader(c)
  BY DEF Implicit!LoadHeader, LoadHeader, Implicit!At, At, Implicit!Go, Go,
         Implicit!Header, Header,
         Implicit!counters, counters, Implicit!memory, memory,
         Implicit!blockIndex, blockIndex, Implicit!producer, producer
<1>3. \A size, base : Implicit!LoadBase(c, size, base) <=> LoadBase(c, size, base)
  BY DEF Implicit!LoadBase, LoadBase, Implicit!At, At, Implicit!Go, Go,
         Implicit!Position, Position, Implicit!Offset, Offset, Implicit!BlockBase, BlockBase,
         Implicit!Minus, Minus,
         Implicit!counters, counters, Implicit!memory, memory,
         Implicit!blockIndex, blockIndex, Implicit!producer, producer
<1>4. \A block : Implicit!LoadBlock(c, block) <=> LoadBlock(c, block)
  BY DEF Implicit!LoadBlock, LoadBlock, Implicit!At, At, Implicit!Go, Go,
         Implicit!counters, counters, Implicit!memory, memory,
         Implicit!blockIndex, blockIndex, Implicit!producer, producer
<1>5. \A l : Implicit!At(c, l) <=> At(c, l)
  BY DEF Implicit!At, At
<1> QED
  BY <1>1, <1>2, <1>3, <1>4, <1>5 DEF Implicit!Consume

LEMMA ExplicitConsumes ==
  ASSUME NEW c \in Consumer, Explicit!Consume(c)
  PROVE  \/ Count(c) \/ LoadHeader(c) \/ Explicit!SetEmpty(c)
         \/ At(c, "base") /\ LoadBase(c, Explicit!Size(Explicit!Opened(c)),
                                      Explicit!Opened(c).slots[deq[c].front].base)
         \/ At(c, "block") /\ LoadBlock(c, Explicit!Opened(c).slots[deq[c].pos].block)
<1>1. Explicit!Count(c) <=> Count(c)
  BY DEF Explicit!Count, Count, Explicit!LoadOvercommit, LoadOvercommit,
         Explicit!TestOptimistic, TestOptimistic, Explicit!Reserve, Reserve,
         Explicit!Recheck, Recheck, Explicit!Overcommit, Overcommit, Explicit!Claim, Claim,
         Explicit!At, At, Explicit!Go, Go, Explicit!Plus, Plus, Explicit!Minus, Minus,
         Explicit!circular_less_than, circular_less_than, Explicit!NoCall, NoCall,
         Explicit!counters, counters, Explicit!memory, memory,
         Explicit!blockIndex, blockIndex, Explicit!producer, producer
<1>2. Explicit!LoadHeader(c) <=> LoadHeader(c)
  BY DEF Explicit!LoadHeader, LoadHeader, Explicit!At, At, Explicit!Go, Go,
         Explicit!Header, Header,
         Explicit!counters, counters, Explicit!memory, memory,
         Explicit!blockIndex, blockIndex, Explicit!producer, producer
<1>3. \A size, base : Explicit!LoadBase(c, size, base) <=> LoadBase(c, size, base)
  BY DEF Explicit!LoadBase, LoadBase, Explicit!At, At, Explicit!Go, Go,
         Explicit!Position, Position, Explicit!Offset, Offset, Explicit!BlockBase, BlockBase,
         Explicit!Minus, Minus,
         Explicit!counters, counters, Explicit!memory, memory,
         Explicit!blockIndex, blockIndex, Explicit!producer, producer
<1>4. \A block : Explicit!LoadBlock(c, block) <=> LoadBlock(c, block)
  BY DEF Explicit!LoadBlock, LoadBlock, Explicit!At, At, Explicit!Go, Go,
         Explicit!counters, counters, Explicit!memory, memory,
         Explicit!blockIndex, blockIndex, Explicit!producer, producer
<1>5. \A l : Explicit!At(c, l) <=> At(c, l)
  BY DEF Explicit!At, At
<1> QED
  BY <1>1, <1>2, <1>3, <1>4, <1>5 DEF Explicit!Consume

(* A step of a call that looks for its elements: it counts nothing.        *)
Looks(c, d) ==
  /\ deq[c].pc \in LookingPcs /\ deq' = [deq EXCEPT ![c] = d] /\ Counting(d)
  /\ d.pc \in LookingPcs \cup {"idle"}
  /\ UNCHANGED <<setup, counters, producer, alive>>

LEMMA LooksFor ==
  ASSUME Counted, NEW c \in Consumer
  PROVE  /\ LoadHeader(c) => \E d : Looks(c, d)
         /\ \A size, base : LoadBase(c, size, base) => \E d : Looks(c, d)
         /\ \A block : LoadBlock(c, block) => \E d : Looks(c, d)
         /\ Implicit!SetEmpty(c) => \E d : Looks(c, d)
         /\ Implicit!Unlink(c) => \E d : Looks(c, d)
         /\ Implicit!Recycle(c) => \E d : Looks(c, d)
         /\ Explicit!SetEmpty(c) => \E d : Looks(c, d)
<1>0. Counting(deq[c])
  BY DEF Counted
<1>1. ASSUME NEW size, NEW got
      PROVE  /\ Counting(Implicit!NextBlock(c, size, got))
             /\ Implicit!NextBlock(c, size, got).pc \in LookingPcs \cup {"idle"}
             /\ Counting(Explicit!NextBlock(c, size, got))
             /\ Explicit!NextBlock(c, size, got).pc \in LookingPcs \cup {"idle"}
  BY DEF Implicit!NextBlock, Explicit!NextBlock, Counting, LookingPcs, NoCall, Implicit!NoCall,
         Explicit!NoCall
<1>2. LoadHeader(c) => \E d : Looks(c, d)
  <2>1. SUFFICES ASSUME LoadHeader(c) PROVE \E d : Looks(c, d)
    OBVIOUS
  <2>2. PICK d : /\ Go(c, d) /\ "pc" \in DOMAIN d /\ d.pc = "base"
    BY <2>1 DEF LoadHeader
  <2> QED
    BY <2>1, <2>2 DEF Looks, Counting, LookingPcs, LoadHeader, Go, At, counters, producer
<1>3. ASSUME NEW size, NEW base, LoadBase(c, size, base) PROVE \E d : Looks(c, d)
  <2>2. PICK d : /\ Go(c, d) /\ "pc" \in DOMAIN d /\ d.pc = "block"
    BY <1>3 DEF LoadBase
  <2> QED
    BY <1>3, <2>2 DEF Looks, Counting, LookingPcs, LoadBase, Go, At, counters, producer
<1>4. ASSUME NEW block, LoadBlock(c, block) PROVE \E d : Looks(c, d)
  <2>2. PICK d : /\ Go(c, d) /\ "pc" \in DOMAIN d /\ d.pc = "read"
    BY <1>4 DEF LoadBlock
  <2> QED
    BY <1>4, <2>2 DEF Looks, Counting, LookingPcs, LoadBlock, Go, At, counters, producer
<1>5. ASSUME Implicit!SetEmpty(c) PROVE \E d : Looks(c, d)
  <2>1. PICK d, got : /\ Go(c, d)
                      /\ \/ d = [deq[c] EXCEPT !.pc = "unlink", !.got = got]
                         \/ d = Implicit!NextBlock(c, Implicit!capacity(Implicit!Opened(c)), got)
    BY <1>5 DEF Implicit!SetEmpty, Implicit!Go, Go
  <2>2. Counting(d) /\ d.pc \in LookingPcs \cup {"idle"}
    <3>1. CASE d = [deq[c] EXCEPT !.pc = "unlink", !.got = got]
      <4>1. "pc" \in DOMAIN d /\ d.pc = "unlink"
        BY <1>0, <3>1 DEF Counting
      <4> QED
        BY <4>1 DEF Counting, LookingPcs
    <3> QED
      BY <1>1, <2>1, <3>1
  <2> QED
    BY <1>5, <2>1, <2>2 DEF Looks, LookingPcs, Implicit!SetEmpty, Go, Implicit!At,
       counters, producer, Implicit!counters, Implicit!producer
<1>6. ASSUME Implicit!Unlink(c) PROVE \E d : Looks(c, d)
  <2>1. PICK d : Go(c, d) /\ d = [deq[c] EXCEPT !.pc = "recycle"]
    BY <1>6 DEF Implicit!Unlink, Implicit!Go, Go
  <2>2. "pc" \in DOMAIN d /\ d.pc = "recycle"
    BY <1>0, <2>1 DEF Counting
  <2> QED
    BY <1>6, <2>1, <2>2 DEF Looks, Counting, LookingPcs, Implicit!Unlink, Go, Implicit!At,
       counters, producer, Implicit!counters, Implicit!producer
<1>7. ASSUME Implicit!Recycle(c) PROVE \E d : Looks(c, d)
  <2>1. PICK d : Go(c, d) /\ Counting(d) /\ d.pc \in LookingPcs \cup {"idle"}
    BY <1>1, <1>7 DEF Implicit!Recycle, Implicit!Go, Go
  <2> QED
    BY <1>7, <2>1 DEF Looks, LookingPcs, Implicit!Recycle, Go, Implicit!At,
       counters, producer, Implicit!counters, Implicit!producer
<1>8. ASSUME Explicit!SetEmpty(c) PROVE \E d : Looks(c, d)
  <2>1. PICK d : Go(c, d) /\ Counting(d) /\ d.pc \in LookingPcs \cup {"idle"}
    BY <1>1, <1>8 DEF Explicit!SetEmpty, Explicit!Go, Go
  <2> QED
    BY <1>8, <2>1 DEF Looks, LookingPcs, Explicit!SetEmpty, Go, Explicit!At,
       counters, producer, Explicit!counters, Explicit!producer
<1> QED
  BY <1>2, <1>3, <1>4, <1>5, <1>6, <1>7, <1>8

LEMMA ConsumerSteps ==
  ASSUME Counted, NEW c \in Consumer, Consume(c)
  PROVE  Count(c) \/ \E d : Looks(c, d)
  BY ImplicitConsumes, ExplicitConsumes, LooksFor DEF Consume

(* What a step of the producer does to the counters.                       *)
Produces ==
  /\ UNCHANGED <<setup, headIndex, dequeueOptimisticCount, dequeueOvercommit, deq, alive>>
  /\ Enqueuing(enq)'
  /\ \/ UNCHANGED <<tailIndex, enqueued>>
     \/ enq.pc = "publish" /\ tailIndex' = Plus(tailIndex, enq.n) /\ enqueued' = enqueued + enq.n

(* An outcome of a step of the producer that is not the last of its call.  *)
SameSize(e) == "pc" \in DOMAIN e /\ e.pc # "idle" /\ "n" \in DOMAIN e /\ e.n = enq.n
GoesOn == 
  /\ UNCHANGED <<setup, counters, deq, enqueued, alive>>
  /\ enq' = NoCall \/ (enq.pc # "idle" /\ SameSize(enq'))

LEMMA GoesOnProduces == ASSUME Counted, GoesOn PROVE Produces
<1>1. CASE enq' = NoCall
  BY <1>1 DEF GoesOn, Produces, Enqueuing, NoCall, counters
<1>2. CASE enq.pc # "idle" /\ SameSize(enq')
  BY <1>2 DEF GoesOn, Produces, Enqueuing, NoCall, counters, SameSize, Counted
<1> QED
  BY <1>1, <1>2 DEF GoesOn

LEMMA CallsCount ==
  ASSUME Counted, NEW n \in setup.enqueue, Call(n)
  PROVE  Produces
<1>1. /\ UNCHANGED <<setup, counters, deq, enqueued, alive>>
      /\ enqueued + n <= setup.elements
  BY DEF Call, Implicit!Enqueue, Explicit!Enqueue, counters, Implicit!counters,
         Explicit!counters
<1>2. "pc" \in DOMAIN enq' /\ "n" \in DOMAIN enq' /\ enq'.n = n /\ enq'.pc # "idle"
  <2>1. CASE isExplicit
    BY <2>1 DEF Call, Explicit!Enqueue, Explicit!Filling
  <2>2. CASE ~isExplicit
    BY <2>2 DEF Call, Implicit!Enqueue, Implicit!Filling
  <2> QED
    BY <2>1, <2>2
<1> QED
  BY <1>1, <1>2 DEF Produces, Enqueuing, counters

LEMMA ImplicitProduces ==
  ASSUME Counted, Implicit!Produce
  PROVE  Produces
<1>0. Enqueuing(enq)
  BY DEF Counted
<1> USE DEF Implicit!Calling
<1>1. CASE Implicit!Room
  BY <1>0, <1>1, GoesOnProduces DEF Implicit!Room, GoesOn, SameSize, Enqueuing,
     Implicit!counters, counters
<1>2. CASE Implicit!Insert
  BY <1>0, <1>2, GoesOnProduces DEF Implicit!Insert, GoesOn, SameSize, Enqueuing,
     Implicit!counters, counters
<1>3. CASE Implicit!Grow
  BY <1>0, <1>3, GoesOnProduces DEF Implicit!Grow, GoesOn, SameSize, Enqueuing,
     Implicit!counters, counters
<1>4. CASE Implicit!StoreTail
  BY <1>0, <1>4, GoesOnProduces DEF Implicit!StoreTail, GoesOn, SameSize, Enqueuing,
     Implicit!counters, counters
<1>5. CASE Implicit!TakeBlock
  <2>1. UNCHANGED <<setup, counters, deq, enqueued, alive>> /\ enq.pc = "take"
    BY <1>5 DEF Implicit!TakeBlock, Implicit!counters, counters
  <2>2. \/ enq' = [enq EXCEPT !.pc = "undo"]
        \/ \E x, y, z : enq' = [pc |-> "construct", n |-> enq.n, at |-> y, last |-> z]
        \/ \E x, y : enq' = [enq EXCEPT !.pc = "room", !.base = x, !.first = y]
    BY <1>5 DEF Implicit!TakeBlock, Implicit!Filling
  <2>3. {"pc", "n"} \subseteq DOMAIN enq
    BY <1>0, <2>1 DEF Enqueuing
  <2>4. SameSize(enq')
    <3>1. CASE enq' = [enq EXCEPT !.pc = "undo"]
      BY <2>3, <3>1 DEF SameSize
    <3>2. CASE \E x, y, z : enq' = [pc |-> "construct", n |-> enq.n, at |-> y, last |-> z]
      BY <3>2 DEF SameSize
    <3>3. CASE \E x, y : enq' = [enq EXCEPT !.pc = "room", !.base = x, !.first = y]
      BY <2>3, <3>3 DEF SameSize
    <3> QED
      BY <2>2, <3>1, <3>2, <3>3
  <2> QED
    BY <2>1, <2>4, GoesOnProduces DEF GoesOn
<1>6. CASE Implicit!Undo
  BY <1>0, <1>6, GoesOnProduces DEF Implicit!Undo, GoesOn, SameSize, Enqueuing,
     Implicit!counters, counters
<1>7. CASE Implicit!Unindex
  BY <1>0, <1>7, GoesOnProduces DEF Implicit!Unindex, GoesOn, SameSize, Enqueuing,
     Implicit!counters, counters
<1>8. CASE Implicit!FreeChain
  BY <1>0, <1>8, GoesOnProduces DEF Implicit!FreeChain, GoesOn, SameSize, Enqueuing,
     Implicit!counters, counters, NoCall, Implicit!NoCall
<1>9. CASE Implicit!Construct
  BY <1>0, <1>9, GoesOnProduces DEF Implicit!Construct, GoesOn, SameSize, Enqueuing,
     Implicit!counters, counters
<1>10. CASE Implicit!Publish
  <2>1. /\ UNCHANGED <<setup, headIndex, dequeueOptimisticCount, dequeueOvercommit, deq, alive>>
        /\ enq.pc = "publish" /\ tailIndex' = Plus(tailIndex, enq.n)
        /\ enqueued' = enqueued + enq.n /\ enq' = NoCall
    BY <1>10 DEF Implicit!Publish, Implicit!End, Implicit!Plus, Plus, NoCall,
       Implicit!NoCall
  <2> QED
    BY <2>1 DEF Produces, Enqueuing, NoCall
<1> QED
  BY <1>1, <1>2, <1>3, <1>4, <1>5, <1>6, <1>7, <1>8, <1>9, <1>10 DEF Implicit!Produce

LEMMA ExplicitProduces ==
  ASSUME Counted, Explicit!Produce
  PROVE  Produces
<1>0. Enqueuing(enq)
  BY DEF Counted
<1> USE DEF Explicit!Calling
<1>1. CASE Explicit!Reuse
  BY <1>0, <1>1, GoesOnProduces DEF Explicit!Reuse, Explicit!Found, GoesOn, SameSize, Enqueuing,
     Explicit!counters, counters
<1>2. CASE Explicit!Room
  BY <1>0, <1>2, GoesOnProduces DEF Explicit!Room, Explicit!Fail, GoesOn, SameSize, Enqueuing,
     Explicit!counters, counters, NoCall, Explicit!NoCall
<1>3. CASE Explicit!Grow
  BY <1>0, <1>3, GoesOnProduces DEF Explicit!Grow, Explicit!Fail, GoesOn, SameSize, Enqueuing,
     Explicit!counters, counters, NoCall, Explicit!NoCall
<1>4. CASE Explicit!TakeBlock
  <2>1. UNCHANGED <<setup, counters, deq, enqueued, alive>> /\ enq.pc = "take"
    BY <1>4 DEF Explicit!TakeBlock, Explicit!counters, counters
  <2>2. \/ enq' = NoCall
        \/ \E x, y : enq' = [enq EXCEPT !.pc = IF Explicit!Base = Explicit!LastBase
                                               THEN "store" ELSE "room",
                                        !.base = x, !.first = y]
    BY <1>4 DEF Explicit!TakeBlock, Explicit!Found, Explicit!Fail, NoCall, Explicit!NoCall
  <2>3. enq' = NoCall \/ SameSize(enq')
    BY <1>0, <2>1, <2>2 DEF SameSize, Enqueuing
  <2> QED
    BY <2>1, <2>3, GoesOnProduces DEF GoesOn
<1>5. CASE Explicit!StoreFront
  BY <1>0, <1>5, GoesOnProduces DEF Explicit!StoreFront, Explicit!Filling, GoesOn, SameSize,
     Enqueuing, Explicit!counters, counters
<1>9. CASE Explicit!Construct
  BY <1>0, <1>9, GoesOnProduces DEF Explicit!Construct, GoesOn, SameSize, Enqueuing,
     Explicit!counters, counters
<1>10. CASE Explicit!Publish
  <2>1. /\ UNCHANGED <<setup, headIndex, dequeueOptimisticCount, dequeueOvercommit, deq, alive>>
        /\ enq.pc = "publish" /\ tailIndex' = Plus(tailIndex, enq.n)
        /\ enqueued' = enqueued + enq.n /\ enq' = NoCall
    BY <1>10 DEF Explicit!Publish, Explicit!End, Explicit!Plus, Plus, NoCall,
       Explicit!NoCall
  <2> QED
    BY <2>1 DEF Produces, Enqueuing, NoCall
<1> QED
  BY <1>1, <1>2, <1>3, <1>4, <1>5, <1>9, <1>10 DEF Explicit!Produce

(* The steps of the producer leave the counts of the consumers alone.      *)
LEMMA ProducerSteps ==
  ASSUME Counted, Produce
  PROVE  Produces
  BY ImplicitProduces, ExplicitProduces DEF Produce

-----------------------------------------------------------------------------
(* The counters and the calls fit together.                                *)
Total == MapThenSumSet(Reserved, Consumer)

(* Only the call of c changes, to d.                                       *)
Becomes(c, d) == deq' = [deq EXCEPT ![c] = d]

LEMMA CallsChange ==
  ASSUME Counted, NEW c \in Consumer, NEW d, Becomes(c, d), Counting(d), SetupOK'
  PROVE  /\ DOMAIN deq' = Consumer /\ deq' = [x \in Consumer |-> deq'[x]]
         /\ deq'[c] = d /\ \A x \in Consumer : x # c => deq'[x] = deq[x]
         /\ \A x \in Consumer : Counting(deq'[x])
<1>1. /\ DOMAIN deq' = Consumer /\ deq' = [x \in Consumer |-> deq'[x]]
      /\ deq'[c] = d /\ \A x \in Consumer : x # c => deq'[x] = deq[x]
  BY DEF Counted, Becomes
<1> QED
  BY <1>1 DEF Counted

LEMMA CountKept ==
  ASSUME Counted, NEW c \in Consumer, NEW d, Becomes(c, d), Counting(d),
         headIndex' \in Index, dequeueOptimisticCount' \in Index, dequeueOvercommit' \in Index,
         UNCHANGED <<setup, tailIndex, enqueued, enq>>
  PROVE  Counted'
<1>1. SetupOK'
  BY DEF SetupOK, Counted
<1>2. /\ DOMAIN deq' = Consumer /\ deq' = [x \in Consumer |-> deq'[x]]
      /\ \A x \in Consumer : Counting(deq'[x])
  BY <1>1, CallsChange
<1>3. (\A x \in Consumer : Counting(deq[x]))'
  BY <1>2 DEF Counting, LookingPcs, Index
<1>4. Enqueuing(enq)'
  BY DEF Counted, Enqueuing
<1>5. enqueued' \in 0 .. setup'.elements /\ tailIndex' = Plus(setup.start, enqueued)'
  BY DEF Counted, Plus
<1>6. headIndex' \in Index' /\ dequeueOptimisticCount' \in Index' /\ dequeueOvercommit' \in Index'
  BY DEF Index
<1> QED
  BY <1>1, <1>2, <1>3, <1>4, <1>5, <1>6 DEF Counted

(* What the steps of a call that counts do.                                *)
Rest == <<setup, tailIndex, enqueued, enq>>

LEMMA IndexClosed ==
  ASSUME Counted, NEW a \in Index, NEW b \in Index
  PROVE  /\ Minus(a, b) \in Index /\ Minus(a, b) \in Nat
         /\ Plus(a, b) \in Index /\ Plus(a, b) \in Nat
<1>1. a \in Int /\ b \in Int /\ SetupOK /\ Index \subseteq Nat
  BY CountedFacts
<1> QED
  BY <1>1, IndexTyped

LEMMA DequeueCounts ==
  ASSUME Counted, NEW c \in Consumer, NEW max \in setup.dequeue, Dequeue(c, max)
  PROVE  \E d : /\ Becomes(c, d) /\ Counting(d) /\ deq[c].pc = "idle"
                /\ d = [pc |-> "overcommit", max |-> max, tail |-> tailIndex]
<1>1. max \in Nat \ {0} /\ tailIndex \in Index
  BY CountedFacts, SetupFacts
<1> QED
  BY <1>1 DEF Dequeue, Go, At, Becomes, Counting, LookingPcs

LEMMA LoadOvercommitCounts ==
  ASSUME Counted, NEW c \in Consumer, LoadOvercommit(c)
  PROVE  \E d : /\ Becomes(c, d) /\ Counting(d) /\ deq[c].pc = "overcommit"
                /\ d = [pc |-> "optimistic", max |-> deq[c].max, tail |-> deq[c].tail,
                        over |-> dequeueOvercommit]
<1>1. Counting(deq[c]) /\ dequeueOvercommit \in Index
  BY CountedFacts
<1> QED
  BY <1>1 DEF LoadOvercommit, Go, At, Becomes, Counting, LookingPcs

LEMMA TestOptimisticCounts ==
  ASSUME Counted, NEW c \in Consumer, TestOptimistic(c)
  PROVE  \E d : /\ Becomes(c, d) /\ Counting(d) /\ deq[c].pc = "optimistic"
                /\ \/ d = NoCall
                   \/ \E want : d = [pc |-> "reserve", over |-> deq[c].over, want |-> want]
<1>1. Counting(deq[c]) /\ deq[c].pc = "optimistic"
  BY CountedFacts DEF TestOptimistic, At
<1>2. deq[c].max \in Nat \ {0} /\ deq[c].tail \in Index /\ deq[c].over \in Index
  BY <1>1 DEF Counting
<1>3. PICK x : x = Minus(deq[c].tail, Minus(dequeueOptimisticCount, deq[c].over))
  OBVIOUS
<1>4. x \in Nat
  <2>1. Minus(dequeueOptimisticCount, deq[c].over) \in Index
    BY <1>2, CountedFacts, IndexClosed
  <2> QED
    BY <1>2, <1>3, <2>1, IndexClosed
<1>5. circular_less_than(0, x) => x # 0
  <2>1. SUFFICES ASSUME x = 0 PROVE ~circular_less_than(0, x)
    OBVIOUS
  <2>2. PICK m : m = Modulus /\ m \in Nat \ {0}
    BY CountedFacts
  <2>3. 0 % m = 0 /\ m \div 2 >= 0
    BY <2>2
  <2>4. Minus(0, x) = 0
    BY <2>1, <2>2, <2>3 DEF Minus
  <2> QED
    BY <2>2, <2>3, <2>4 DEF circular_less_than
<1>6. CASE circular_less_than(0, x)
  <2>1. PICK w \in Nat \ {0} : w = IF x < deq[c].max THEN x ELSE deq[c].max
    BY <1>2, <1>4, <1>5, <1>6
  <2>2. Becomes(c, [pc |-> "reserve", over |-> deq[c].over, want |-> w])
    BY <1>3, <1>6, <2>1 DEF TestOptimistic, Go, Becomes
  <2> QED
    BY <1>1, <1>2, <2>1, <2>2 DEF Counting
<1>7. CASE ~circular_less_than(0, x)
  <2>1. Becomes(c, NoCall)
    BY <1>3, <1>7 DEF TestOptimistic, Go, Becomes
  <2> QED
    BY <1>1, <2>1 DEF Counting, NoCall
<1> QED
  BY <1>6, <1>7

LEMMA ReserveCounts ==
  ASSUME Counted, NEW c \in Consumer, Reserve(c)
  PROVE  \E d : /\ Becomes(c, d) /\ Counting(d) /\ deq[c].pc = "reserve"
                /\ deq[c].want \in Nat \ {0} /\ deq[c].over \in Index
                /\ d = [pc |-> "recheck", want |-> deq[c].want,
                        my |-> Minus(dequeueOptimisticCount, deq[c].over)]
<1>1. Counting(deq[c]) /\ deq[c].pc = "reserve"
  BY CountedFacts DEF Reserve, At
<1>2. deq[c].want \in Nat \ {0} /\ deq[c].over \in Index
  BY <1>1 DEF Counting
<1>3. Minus(dequeueOptimisticCount, deq[c].over) \in Index
  BY <1>2, CountedFacts, IndexClosed
<1> QED
  BY <1>1, <1>2, <1>3 DEF Reserve, Go, Becomes, Counting

(* How many of the elements that it wants a call gets.                     *)
Actual(c) ==
  LET found == Minus(tailIndex, deq[c].my)
  IN IF ~circular_less_than(0, found) THEN 0
     ELSE IF deq[c].want < found THEN deq[c].want ELSE found

LEMMA RecheckCounts ==
  ASSUME Counted, NEW c \in Consumer, Recheck(c)
  PROVE  \E d : /\ Becomes(c, d) /\ Counting(d) /\ deq[c].pc = "recheck"
                /\ deq[c].want \in Nat \ {0} /\ deq[c].my \in Index
                /\ Actual(c) \in 0 .. deq[c].want
                /\ \/ /\ Actual(c) < deq[c].want
                      /\ d = [pc |-> "return", count |-> Actual(c),
                              excess |-> deq[c].want - Actual(c)]
                   \/ /\ Actual(c) = deq[c].want
                      /\ d = [pc |-> "claim", count |-> Actual(c)]
<1>1. Counting(deq[c]) /\ deq[c].pc = "recheck"
  BY CountedFacts DEF Recheck, At
<1>2. deq[c].want \in Nat \ {0} /\ deq[c].my \in Index
  BY <1>1 DEF Counting
<1>3. Minus(tailIndex, deq[c].my) \in Nat
  BY <1>2, CountedFacts, IndexClosed
<1>4. PICK a : a = Actual(c) /\ a \in 0 .. deq[c].want
  BY <1>2, <1>3 DEF Actual
<1>5. Becomes(c, IF a < deq[c].want
                 THEN [pc |-> "return", count |-> a, excess |-> deq[c].want - a]
                 ELSE [pc |-> "claim", count |-> a])
  BY <1>4 DEF Recheck, Go, Becomes, Actual
<1>6. CASE a < deq[c].want
  <2>1. deq[c].want - a \in Nat \ {0} /\ a \in Nat
    BY <1>2, <1>4, <1>6
  <2>2. Becomes(c, [pc |-> "return", count |-> a, excess |-> deq[c].want - a])
    BY <1>5, <1>6
  <2>3. Counting([pc |-> "return", count |-> a, excess |-> deq[c].want - a])
    BY <2>1 DEF Counting
  <2> QED
    BY <1>1, <1>2, <1>4, <1>6, <2>2, <2>3
<1>7. CASE ~(a < deq[c].want)
  <2>1. a \in Nat \ {0} /\ a = deq[c].want
    BY <1>2, <1>4, <1>7
  <2>2. Becomes(c, [pc |-> "claim", count |-> a])
    BY <1>5, <1>7
  <2>3. Counting([pc |-> "claim", count |-> a])
    BY <2>1 DEF Counting
  <2> QED
    BY <1>1, <1>2, <1>4, <2>1, <2>2, <2>3
<1> QED
  BY <1>6, <1>7

LEMMA OvercommitCounts ==
  ASSUME Counted, NEW c \in Consumer, Overcommit(c)
  PROVE  \E d : /\ Becomes(c, d) /\ Counting(d) /\ deq[c].pc = "return"
                /\ deq[c].count \in Nat /\ deq[c].excess \in Nat \ {0}
                /\ \/ d = NoCall /\ deq[c].count = 0
                   \/ d = [pc |-> "claim", count |-> deq[c].count] /\ deq[c].count # 0
<1>1. Counting(deq[c]) /\ deq[c].pc = "return"
  BY CountedFacts DEF Overcommit, At
<1>2. deq[c].count \in Nat /\ deq[c].excess \in Nat \ {0}
  BY <1>1 DEF Counting
<1> QED
  BY <1>1, <1>2 DEF Overcommit, Go, Becomes, Counting, NoCall

LEMMA ClaimCounts ==
  ASSUME Counted, NEW c \in Consumer, Claim(c)
  PROVE  \E d : /\ Becomes(c, d) /\ Counting(d) /\ deq[c].pc = "claim"
                /\ deq[c].count \in Nat \ {0}
                /\ d = [pc |-> "header", at |-> headIndex,
                        end |-> Plus(headIndex, deq[c].count), got |-> <<>>]
<1>1. Counting(deq[c]) /\ deq[c].pc = "claim"
  BY CountedFacts DEF Claim, At
<1>2. deq[c].count \in Nat \ {0}
  BY <1>1 DEF Counting
<1> QED
  BY <1>1, <1>2 DEF Claim, Go, Becomes, Counting, LookingPcs

(* What a call holds of the reservations.                                  *)
Held(d) ==
  CASE d.pc = "recheck" -> d.want
    [] d.pc = "return" -> d.count + d.excess
    [] d.pc = "claim" -> d.count
    [] OTHER -> 0

LEMMA HeldFacts ==
  ASSUME NEW d, Counting(d)
  PROVE  /\ Held(d) \in Nat
         /\ d.pc = "recheck" => Held(d) = d.want
         /\ d.pc = "return" => Held(d) = d.count + d.excess
         /\ d.pc = "claim" => Held(d) = d.count
         /\ d.pc \notin {"recheck", "return", "claim"} => Held(d) = 0
  BY DEF Held, Counting

LEMMA ReservedIsHeld ==
  /\ \A c \in Consumer : Reserved(c) = Held(deq[c])
  /\ \A c \in Consumer : Reserved(c)' = Held(deq'[c])
<1>1. ASSUME NEW c \in Consumer PROVE Reserved(c) = Held(deq[c])
  BY DEF Reserved, Held, At
<1>2. ASSUME NEW c \in Consumer PROVE Reserved(c)' = Held(deq'[c])
  BY DEF Reserved, Held, At
<1> QED
  BY <1>1, <1>2

LEMMA TotalIsSum ==
        /\ \E f : /\ IsSum([c \in Consumer |-> Held(deq[c])], f)
                  /\ Total = f[Consumer]
        /\ \E f : /\ IsSum([c \in Consumer |-> Held(deq'[c])], f)
                  /\ Total' = f[Consumer]
<1> DEFINE Body(f) == [s \in SUBSET Consumer |->
             IF s = {} THEN 0
             ELSE Reserved(CHOOSE x \in s : TRUE) + f[s \ {CHOOSE x \in s : TRUE}]]
           BodyNext(f) == [s \in SUBSET Consumer |->
             IF s = {} THEN 0
             ELSE (Reserved(CHOOSE x \in s : TRUE))' + f[s \ {CHOOSE x \in s : TRUE}]]
<1>1. Total = (CHOOSE f : f = Body(f))[Consumer]
  BY DEF Total, MapThenSumSet, MapThenFoldSet
<1>2. Total' = (CHOOSE f : f = BodyNext(f))[Consumer]
  BY DEF Total, MapThenSumSet, MapThenFoldSet
<1>3. ASSUME NEW f PROVE f = Body(f) <=> IsSum([c \in Consumer |-> Held(deq[c])], f)
  <2>1. PICK r : r = [c \in Consumer |-> Held(deq[c])]
    OBVIOUS
  <2>2. ASSUME NEW s \in SUBSET Consumer, s # {}
        PROVE  Reserved(CHOOSE x \in s : TRUE) = r[Pick(s)]
    <3>1. PICK x \in Consumer : x = Pick(s)
      BY <2>2, PickFacts
    <3>2. Reserved(x) = r[x]
      BY <2>1, ReservedIsHeld
    <3> QED
      BY <3>1, <3>2 DEF Pick
  <2>3. ASSUME NEW s \in SUBSET Consumer
        PROVE  (IF s = {} THEN 0
                ELSE Reserved(CHOOSE x \in s : TRUE) + f[s \ {CHOOSE x \in s : TRUE}])
                 = IF s = {} THEN 0 ELSE r[Pick(s)] + f[s \ {Pick(s)}]
    <3>1. CASE s = {}
      BY <3>1
    <3>2. CASE s # {}
      <4>1. Reserved(CHOOSE x \in s : TRUE) = r[Pick(s)]
        BY <2>2, <3>2
      <4>2. (CHOOSE x \in s : TRUE) = Pick(s)
        BY DEF Pick
      <4> QED
        BY <3>2, <4>1, <4>2
    <3> QED
      BY <3>1, <3>2
  <2>4. Body(f) = [s \in SUBSET Consumer |-> IF s = {} THEN 0 ELSE r[Pick(s)] + f[s \ {Pick(s)}]]
    BY <2>3
  <2> HIDE DEF Body
  <2> QED
    BY <2>1, <2>4 DEF IsSum
<1>4. ASSUME NEW f PROVE f = BodyNext(f) <=> IsSum([c \in Consumer |-> Held(deq'[c])], f)
  <2>1. PICK r : r = [c \in Consumer |-> Held(deq'[c])]
    OBVIOUS
  <2>2. ASSUME NEW s \in SUBSET Consumer, s # {}
        PROVE  (Reserved(CHOOSE x \in s : TRUE))' = r[Pick(s)]
    <3>1. PICK x \in Consumer : x = Pick(s)
      BY <2>2, PickFacts
    <3>2. (Reserved(x))' = r[x]
      BY <2>1, ReservedIsHeld
    <3> QED
      BY <3>1, <3>2 DEF Pick
  <2>3. ASSUME NEW s \in SUBSET Consumer
        PROVE  (IF s = {} THEN 0
                ELSE (Reserved(CHOOSE x \in s : TRUE))' + f[s \ {CHOOSE x \in s : TRUE}])
                 = IF s = {} THEN 0 ELSE r[Pick(s)] + f[s \ {Pick(s)}]
    <3>1. CASE s = {}
      BY <3>1
    <3>2. CASE s # {}
      <4>1. (Reserved(CHOOSE x \in s : TRUE))' = r[Pick(s)]
        BY <2>2, <3>2
      <4>2. (CHOOSE x \in s : TRUE) = Pick(s)
        BY DEF Pick
      <4> QED
        BY <3>2, <4>1, <4>2
    <3> QED
      BY <3>1, <3>2
  <2>4. BodyNext(f) = [s \in SUBSET Consumer |-> IF s = {} THEN 0 ELSE r[Pick(s)] + f[s \ {Pick(s)}]]
    BY <2>3
  <2> HIDE DEF BodyNext
  <2> QED
    BY <2>1, <2>4 DEF IsSum
<1> HIDE DEF Body, BodyNext
<1>5. \E f : f = Body(f)
  BY <1>3, SumExists
<1>6. \E f : f = BodyNext(f)
  BY <1>4, SumExists
<1> QED
  BY <1>1, <1>2, <1>3, <1>4, <1>5, <1>6

LEMMA TotalChanges ==
  ASSUME Counted, NEW c \in Consumer, NEW d, Becomes(c, d), Counting(d), SetupOK'
  PROVE  /\ Total \in Nat /\ Total' \in Nat
         /\ Total' = Total + (Held(d) - Held(deq[c]))
<1>1. PICK r, f : /\ r = [x \in Consumer |-> Held(deq[x])] /\ IsSum(r, f)
                  /\ Total = f[Consumer]
  BY TotalIsSum
<1>2. PICK q, g : /\ q = [x \in Consumer |-> Held(deq'[x])] /\ IsSum(q, g)
                  /\ Total' = g[Consumer]
  BY TotalIsSum
<1>3. /\ deq'[c] = d /\ \A x \in Consumer : x # c => deq'[x] = deq[x]
      /\ \A x \in Consumer : Counting(deq'[x])
  BY CallsChange
<1>4. r \in [Consumer -> Nat] /\ q \in [Consumer -> Nat]
  <2>1. \A x \in Consumer : Held(deq[x]) \in Nat /\ Held(deq'[x]) \in Nat
    BY <1>3, CountedFacts, HeldFacts
  <2> QED
    BY <1>1, <1>2, <2>1
<1>5. q[c] = Held(d) /\ r[c] = Held(deq[c]) /\ \A x \in Consumer \ {c} : q[x] = r[x]
  BY <1>1, <1>2, <1>3
<1>6. g[Consumer] = f[Consumer] + (q[c] - r[c])
  BY <1>1, <1>2, <1>4, <1>5, SumChanges
<1>7. f[Consumer] \in Nat /\ g[Consumer] \in Nat
  BY <1>1, <1>2, <1>4, SumTyped
<1> QED
  BY <1>1, <1>2, <1>5, <1>6, <1>7

LEMMA TotalTyped == ASSUME Counted PROVE Total \in Nat
<1>1. PICK r, f : /\ r = [x \in Consumer |-> Held(deq[x])] /\ IsSum(r, f)
                  /\ Total = f[Consumer]
  BY TotalIsSum
<1>2. r \in [Consumer -> Nat]
  BY <1>1, CountedFacts, HeldFacts
<1> QED
  BY <1>1, <1>2, SumTyped

LEMMA TotalKept == ASSUME Counted, deq' = deq PROVE Total' = Total
<1>1. PICK r, f : /\ r = [x \in Consumer |-> Held(deq[x])] /\ IsSum(r, f)
                  /\ Total = f[Consumer]
  BY TotalIsSum
<1>2. PICK g : IsSum(r, g) /\ Total' = g[Consumer]
  BY <1>1, TotalIsSum
<1>3. r \in [Consumer -> Nat]
  BY <1>1, CountedFacts, HeldFacts
<1>4. CASE Consumer = {}
  <2>1. f[Consumer] = 0 /\ g[Consumer] = 0
    BY <1>1, <1>2, <1>3, <1>4, SumOfNothing
  <2> QED
    BY <1>1, <1>2, <2>1
<1>5. CASE Consumer # {}
  <2>1. PICK c \in Consumer : TRUE
    BY <1>5
  <2>2. g[Consumer] = f[Consumer] + (r[c] - r[c])
    BY <1>1, <1>2, <1>3, SumChanges
  <2>3. f[Consumer] \in Nat /\ r[c] \in Nat
    BY <1>1, <1>3, SumTyped
  <2> QED
    BY <1>1, <1>2, <2>2, <2>3
<1> QED
  BY <1>4, <1>5

(* The steps that change a call or a count.                                *)
Counts(c) == Count(c) \/ (\E max \in setup.dequeue : Dequeue(c, max)) \/ \E d : Looks(c, d)

LEMMA StepCases ==
  ASSUME Counted, [Next]_vars
  PROVE  \/ Produces
         \/ \E c \in Consumer : Counts(c)
         \/ Destroy
         \/ UNCHANGED vars
<1>1. ASSUME NEW n \in setup.enqueue, Call(n) PROVE Produces
  BY <1>1, CallsCount
<1>2. ASSUME NEW c \in Consumer, Consume(c) PROVE Counts(c)
  BY <1>2, ConsumerSteps DEF Counts
<1> QED
  BY <1>1, <1>2, ProducerSteps DEF Next, Counts

LEMMA CountedInit == ASSUME Init PROVE Counted /\ ReservationsAddUp
<1>1. PICK s \in Setups : InitBase(s)
  <2>1. CASE Implicit!Init
    <3>1. PICK s \in Setups : Implicit!InitBase(s)
      BY <2>1 DEF Implicit!Init
    <3> QED
      BY <3>1 DEF Implicit!InitBase, InitBase, Implicit!NoCall, NoCall, Implicit!Slot, Slot
  <2>2. CASE Explicit!Init
    <3>1. PICK s \in Setups : Explicit!InitBase(s)
      BY <2>2 DEF Explicit!Init
    <3> QED
      BY <3>1 DEF Explicit!InitBase, InitBase, Explicit!NoCall, NoCall, Explicit!Slot, Slot
  <2> QED
    BY <2>1, <2>2 DEF Init
<1>2. /\ SetupOK /\ tailIndex = setup.start /\ headIndex = setup.start
      /\ dequeueOptimisticCount = setup.start /\ dequeueOvercommit = 0
      /\ enq = NoCall /\ deq = [c \in Consumer |-> NoCall] /\ enqueued = 0
  BY <1>1 DEF InitBase, SetupOK
<1>3. PICK m, z : m = Modulus /\ z = setup.start /\ m \in Nat \ {0} /\ z \in 0 .. m - 1
  BY <1>2, SetupFacts DEF Index
<1>4. Plus(z, 0) = z /\ Minus(z, 0) = z
  <2>1. (m * 0 + z) % m = z
    BY <1>3, ModUnique
  <2>2. m * 0 + z = z /\ z + 0 = z /\ z - 0 = z
    BY <1>3
  <2> QED
    BY <1>3, <2>1, <2>2 DEF Plus, Minus
<1>5. Counting(NoCall) /\ NoCall.pc = "idle"
  BY DEF Counting, NoCall
<1>6. Counted
  <2>1. Enqueuing(enq)
    BY <1>2 DEF Enqueuing, NoCall
  <2>2. headIndex \in Index /\ dequeueOptimisticCount \in Index /\ dequeueOvercommit \in Index
    BY <1>2, <1>3 DEF Index
  <2>3. enqueued \in 0 .. setup.elements
    BY <1>2, SetupFacts
  <2> QED
    BY <1>2, <1>3, <1>4, <1>5, <2>1, <2>2, <2>3 DEF Counted
<1>7. Total = 0
  <2>1. PICK r, f : /\ r = [x \in Consumer |-> Held(deq[x])] /\ IsSum(r, f)
                    /\ Total = f[Consumer]
    BY TotalIsSum
  <2>2. r \in [Consumer -> Nat] /\ \A c \in Consumer : r[c] = 0
    BY <1>2, <1>5, <2>1, HeldFacts
  <2> QED
    BY <2>1, <2>2, SumOfNothing
<1>8. ReservationsAddUp
  BY <1>2, <1>3, <1>4, <1>7 DEF ReservationsAddUp, Total
<1> QED
  BY <1>6, <1>8

(* What the calls hold stays, or moves to the head or to what is           *)
(* overcommitted.                                                          *)
AddsUp == Minus(dequeueOptimisticCount, dequeueOvercommit) = Plus(headIndex, Total)

LEMMA AddUpMeans ==
  /\ ReservationsAddUp <=> AddsUp
  /\ ReservationsAddUp' <=> AddsUp'
  BY DEF ReservationsAddUp, AddsUp, Total

LEMMA HoldsAsMuch ==
  ASSUME Counted, AddsUp, NEW c \in Consumer, NEW d, Becomes(c, d), Counting(d),
         Held(d) = Held(deq[c]),
         UNCHANGED <<setup, counters, enqueued, enq>>
  PROVE  Counted' /\ AddsUp'
<1>1. Counted'
  BY CountKept, CountedFacts DEF counters
<1>2. Total' = Total
  <2>1. SetupOK' /\ Held(d) \in Nat
    BY <1>1, HeldFacts DEF Counted
  <2> QED
    BY <2>1, TotalChanges
<1> QED
  BY <1>1, <1>2 DEF AddsUp, counters, Minus, Plus

LEMMA CountStep ==
  ASSUME Counted, AddsUp, NEW c \in Consumer, Counts(c)
  PROVE  Counted' /\ AddsUp'
<1>0. PICK o, v, h, t : /\ o = dequeueOptimisticCount /\ v = dequeueOvercommit
                        /\ h = headIndex /\ t = Total
                        /\ o \in Int /\ v \in Int /\ h \in Int /\ t \in Int
                        /\ o \in Index /\ v \in Index /\ h \in Index
  BY CountedFacts, TotalTyped
<1>1. ASSUME NEW max \in setup.dequeue, Dequeue(c, max) PROVE Counted' /\ AddsUp'
  <2>1. PICK d : /\ Becomes(c, d) /\ Counting(d) /\ deq[c].pc = "idle"
                 /\ d = [pc |-> "overcommit", max |-> max, tail |-> tailIndex]
    BY <1>1, DequeueCounts
  <2>2. Held(d) = 0 /\ Held(deq[c]) = 0
    BY <2>1, CountedFacts, HeldFacts
  <2>3. UNCHANGED <<setup, counters, enqueued, enq>>
    BY <1>1 DEF Dequeue, producer
  <2> QED
    BY <2>1, <2>2, <2>3, HoldsAsMuch
<1>2. ASSUME NEW d, Looks(c, d) PROVE Counted' /\ AddsUp'
  <2>1. /\ Becomes(c, d) /\ Counting(d) /\ deq[c].pc \in LookingPcs
        /\ d.pc \in LookingPcs \cup {"idle"}
        /\ UNCHANGED <<setup, counters, enqueued, enq>>
    BY <1>2 DEF Looks, Becomes, producer
  <2>2. Held(d) = 0 /\ Held(deq[c]) = 0
    BY <2>1, CountedFacts, HeldFacts DEF LookingPcs
  <2> QED
    BY <2>1, <2>2, HoldsAsMuch
<1>3. CASE LoadOvercommit(c)
  <2>1. PICK d : /\ Becomes(c, d) /\ Counting(d) /\ deq[c].pc = "overcommit"
                 /\ d = [pc |-> "optimistic", max |-> deq[c].max, tail |-> deq[c].tail,
                         over |-> dequeueOvercommit]
    BY <1>3, LoadOvercommitCounts
  <2>2. Held(d) = 0 /\ Held(deq[c]) = 0
    BY <2>1, CountedFacts, HeldFacts
  <2>3. UNCHANGED <<setup, counters, enqueued, enq>>
    BY <1>3 DEF LoadOvercommit, producer
  <2> QED
    BY <2>1, <2>2, <2>3, HoldsAsMuch
<1>4. CASE TestOptimistic(c)
  <2>1. PICK d : /\ Becomes(c, d) /\ Counting(d) /\ deq[c].pc = "optimistic"
                 /\ \/ d = NoCall
                    \/ \E want : d = [pc |-> "reserve", over |-> deq[c].over, want |-> want]
    BY <1>4, TestOptimisticCounts
  <2>2. Held(d) = 0 /\ Held(deq[c]) = 0
    BY <2>1, CountedFacts, HeldFacts DEF NoCall
  <2>3. UNCHANGED <<setup, counters, enqueued, enq>>
    BY <1>4 DEF TestOptimistic, producer
  <2> QED
    BY <2>1, <2>2, <2>3, HoldsAsMuch
<1>5. CASE Recheck(c)
  <2>1. PICK d : /\ Becomes(c, d) /\ Counting(d) /\ deq[c].pc = "recheck"
                 /\ deq[c].want \in Nat \ {0} /\ deq[c].my \in Index
                 /\ Actual(c) \in 0 .. deq[c].want
                 /\ \/ /\ Actual(c) < deq[c].want
                       /\ d = [pc |-> "return", count |-> Actual(c),
                               excess |-> deq[c].want - Actual(c)]
                    \/ /\ Actual(c) = deq[c].want
                       /\ d = [pc |-> "claim", count |-> Actual(c)]
    BY <1>5, RecheckCounts
  <2>2. Held(d) = deq[c].want /\ Held(deq[c]) = deq[c].want
    <3>1. Held(deq[c]) = deq[c].want
      BY <2>1, CountedFacts, HeldFacts
    <3>2. CASE d = [pc |-> "return", count |-> Actual(c), excess |-> deq[c].want - Actual(c)]
      <4>1. Held(d) = d.count + d.excess
        BY <2>1, <3>2, HeldFacts
      <4> QED
        BY <2>1, <3>1, <3>2, <4>1
    <3>3. CASE Actual(c) = deq[c].want /\ d = [pc |-> "claim", count |-> Actual(c)]
      BY <2>1, <3>1, <3>3, HeldFacts
    <3> QED
      BY <2>1, <3>2, <3>3
  <2>3. UNCHANGED <<setup, counters, enqueued, enq>>
    BY <1>5 DEF Recheck, producer
  <2> QED
    BY <2>1, <2>2, <2>3, HoldsAsMuch
<1>6. CASE Reserve(c)
  <2>1. PICK d : /\ Becomes(c, d) /\ Counting(d) /\ deq[c].pc = "reserve"
                 /\ deq[c].want \in Nat \ {0} /\ deq[c].over \in Index
                 /\ d = [pc |-> "recheck", want |-> deq[c].want,
                         my |-> Minus(dequeueOptimisticCount, deq[c].over)]
    BY <1>6, ReserveCounts
  <2>2. PICK w : w = deq[c].want /\ w \in Int
    BY <2>1
  <2>9. SetupOK
    BY CountedFacts
  <2>3. Held(d) = w /\ Held(deq[c]) = 0
    BY <2>1, <2>2, CountedFacts, HeldFacts
  <2>4. /\ UNCHANGED <<setup, tailIndex, headIndex, dequeueOvercommit, enqueued, enq>>
        /\ dequeueOptimisticCount' = Plus(o, w)
    BY <1>0, <1>6, <2>2 DEF Reserve, producer
  <2>5. Plus(o, w) \in Index
    BY <1>0, <2>2, <2>9, IndexTyped
  <2>6. Counted'
    BY <1>0, <2>1, <2>4, <2>5, CountKept
  <2>7. Total' = t + w
    <3>1. SetupOK'
      BY <2>6 DEF Counted
    <3>2. Total' = Total + (Held(d) - Held(deq[c]))
      BY <2>1, <3>1, TotalChanges
    <3> QED
      BY <1>0, <2>2, <2>3, <3>2
  <2>8. Minus(Plus(o, w), v) = Plus(h, t + w)
    <3>1. Minus(o, v) = Plus(h, t)
      BY <1>0 DEF AddsUp
    <3>2. Minus(Plus(o, w), v) = Plus(o, w - v)
      BY <1>0, <2>2, <2>9, PlusMinus
    <3>3. Plus(Minus(o, v), w) = Plus(o, w - v)
      BY <1>0, <2>2, <2>9, MinusPlus
    <3>4. Plus(Plus(h, t), w) = Plus(h, t + w)
      BY <1>0, <2>2, <2>9, PlusPlus, ZenonT(40)
    <3> QED
      BY <3>1, <3>2, <3>3, <3>4
  <2> QED
    BY <1>0, <2>4, <2>6, <2>7, <2>8 DEF AddsUp, Minus, Plus
<1>7. CASE Overcommit(c)
  <2>1. PICK d : /\ Becomes(c, d) /\ Counting(d) /\ deq[c].pc = "return"
                 /\ deq[c].count \in Nat /\ deq[c].excess \in Nat \ {0}
                 /\ \/ d = NoCall /\ deq[c].count = 0
                    \/ d = [pc |-> "claim", count |-> deq[c].count] /\ deq[c].count # 0
    BY <1>7, OvercommitCounts
  <2>2. PICK w, e : w = deq[c].count /\ w \in Int /\ e = deq[c].excess /\ e \in Int
    BY <2>1
  <2>9. SetupOK
    BY CountedFacts
  <2>3. Held(d) = w /\ Held(deq[c]) = w + e
    <3>1. Held(deq[c]) = w + e
      BY <2>1, <2>2, CountedFacts, HeldFacts
    <3>2. CASE d = NoCall /\ deq[c].count = 0
      BY <2>1, <2>2, <3>1, <3>2, HeldFacts DEF NoCall
    <3>3. CASE d = [pc |-> "claim", count |-> deq[c].count]
      BY <2>1, <2>2, <3>1, <3>3, HeldFacts
    <3> QED
      BY <2>1, <3>2, <3>3
  <2>4. /\ UNCHANGED <<setup, tailIndex, headIndex, dequeueOptimisticCount, enqueued, enq>>
        /\ dequeueOvercommit' = Plus(v, e)
    BY <1>0, <1>7, <2>2 DEF Overcommit, producer
  <2>5. Plus(v, e) \in Index
    BY <1>0, <2>2, <2>9, IndexTyped
  <2>6. Counted'
    BY <1>0, <2>1, <2>4, <2>5, CountKept
  <2>7. Total' \in Nat /\ Total' = t - e
    <3>1. SetupOK'
      BY <2>6 DEF Counted
    <3>2. Total' \in Nat /\ Total' = Total + (Held(d) - Held(deq[c]))
      BY <2>1, <3>1, TotalChanges
    <3> QED
      BY <1>0, <2>2, <2>3, <3>2
  <2>8. Minus(o, Plus(v, e)) = Plus(h, t - e)
    <3>1. Minus(o, v) = Plus(h, t)
      BY <1>0 DEF AddsUp
    <3>2. Minus(o, Plus(v, e)) = Minus(o, v + e)
      <4>1. e \in Int /\ o \in Int /\ v \in Int
        BY <1>0, <2>2
      <4> QED
        BY <2>9, <4>1, LessPlus
    <3>3. Plus(Minus(o, v), -e) = Plus(o, (-e) - v)
      <4>1. -e \in Int /\ o \in Int /\ v \in Int
        BY <1>0, <2>2
      <4> QED
        BY <2>9, <4>1, MinusPlus
    <3>4. Plus(Plus(h, t), -e) = Plus(h, t + (-e))
      <4>1. -e \in Int /\ h \in Int /\ t \in Int
        BY <1>0, <2>2
      <4> QED
        BY <2>9, <4>1, PlusPlus
    <3>5. o - (v + e) = o + ((-e) - v) /\ t + (-e) = t - e
      BY <1>0, <2>2
    <3>6. Minus(o, v + e) = Plus(o, (-e) - v)
      BY <3>5 DEF Minus, Plus
    <3> QED
      BY <3>1, <3>2, <3>3, <3>4, <3>5, <3>6
  <2> QED
    BY <1>0, <2>4, <2>6, <2>7, <2>8 DEF AddsUp, Minus, Plus
<1>8. CASE Claim(c)
  <2>1. PICK d : /\ Becomes(c, d) /\ Counting(d) /\ deq[c].pc = "claim"
                 /\ deq[c].count \in Nat \ {0}
                 /\ d = [pc |-> "header", at |-> headIndex,
                         end |-> Plus(headIndex, deq[c].count), got |-> <<>>]
    BY <1>8, ClaimCounts
  <2>2. PICK w : w = deq[c].count /\ w \in Int
    BY <2>1
  <2>9. SetupOK
    BY CountedFacts
  <2>3. Held(d) = 0 /\ Held(deq[c]) = w
    BY <2>1, <2>2, CountedFacts, HeldFacts
  <2>4. /\ UNCHANGED <<setup, tailIndex, dequeueOptimisticCount, dequeueOvercommit, enqueued, enq>>
        /\ headIndex' = Plus(h, w)
    BY <1>0, <1>8, <2>2 DEF Claim, producer
  <2>5. Plus(h, w) \in Index
    BY <1>0, <2>2, <2>9, IndexTyped
  <2>6. Counted'
    BY <1>0, <2>1, <2>4, <2>5, CountKept
  <2>7. Total' \in Nat /\ Total' = t - w
    <3>1. SetupOK'
      BY <2>6 DEF Counted
    <3>2. Total' \in Nat /\ Total' = Total + (Held(d) - Held(deq[c]))
      BY <2>1, <3>1, TotalChanges
    <3> QED
      BY <1>0, <2>2, <2>3, <3>2
  <2>8. Plus(Plus(h, w), t - w) = Plus(h, t)
    <3>1. h \in Int /\ w \in Int /\ t - w \in Int /\ w + (t - w) = t
      BY <1>0, <2>2
    <3> QED
      BY <2>9, <3>1, PlusPlus, MinusPlus, PlusMinus, LessPlus
  <2> QED
    BY <1>0, <2>4, <2>6, <2>7, <2>8 DEF AddsUp, Minus, Plus
<1> QED
  BY <1>1, <1>2, <1>3, <1>4, <1>5, <1>6, <1>7, <1>8 DEF Counts, Count

LEMMA CountedNext ==
  ASSUME Counted, AddsUp, [Next]_vars
  PROVE  Counted' /\ AddsUp'
<1>1. CASE \E c \in Consumer : Counts(c)
  BY <1>1, CountStep
<1>2. CASE Produces
  <2>1. /\ UNCHANGED <<setup, headIndex, dequeueOptimisticCount, dequeueOvercommit, deq>>
        /\ Enqueuing(enq)'
    BY <1>2 DEF Produces
  <2>2. enqueued' \in 0 .. setup.elements /\ tailIndex' = Plus(setup.start, enqueued')
    <3>1. CASE UNCHANGED <<tailIndex, enqueued>>
      BY <3>1 DEF Counted
    <3>2. CASE /\ enq.pc = "publish" /\ tailIndex' = Plus(tailIndex, enq.n)
               /\ enqueued' = enqueued + enq.n
      <4>1. PICK s, n, k : /\ s = setup.start /\ n = enq.n /\ k = enqueued
                           /\ s \in Int /\ n \in Int /\ k \in Int /\ n >= 0 /\ k >= 0
                           /\ k + n <= setup.elements /\ setup.elements \in Nat
                           /\ tailIndex = Plus(s, k)
        <5>1. enq.n \in setup.enqueue /\ enqueued + enq.n <= setup.elements
          BY <3>2 DEF Counted, Enqueuing
        <5>2. SetupOK /\ enqueued \in 0 .. setup.elements /\ tailIndex = Plus(setup.start, enqueued)
          BY DEF Counted
        <5> QED
          BY <5>1, <5>2, SetupFacts DEF Index
      <4>0. SetupOK
        BY CountedFacts
      <4>2. Plus(Plus(s, k), n) = Plus(s, k + n)
        BY <4>0, <4>1, PlusPlus
      <4> QED
        BY <3>2, <4>1, <4>2
    <3> QED
      BY <1>2, <3>1, <3>2 DEF Produces
  <2>3. Total' = Total
    BY <2>1, TotalKept
  <2>4. AddsUp'
    BY <2>1, <2>3 DEF AddsUp, Minus, Plus
  <2>5. (\A c \in Consumer : Counting(deq[c]))'
    BY <2>1 DEF Counted, Counting, LookingPcs, Index
  <2>6. SetupOK'
    BY <2>1 DEF Counted, SetupOK
  <2>7. Counted'
    BY <2>1, <2>2, <2>5, <2>6 DEF Counted, Index, Plus
  <2> QED
    BY <2>4, <2>7
<1>3. CASE Destroy \/ UNCHANGED vars
  <2>1. UNCHANGED <<setup, counters, deq, enq, enqueued>>
    BY <1>3 DEF Destroy, vars, producer
  <2>2. Total' = Total
    BY <2>1, TotalKept
  <2>3. AddsUp'
    BY <2>1, <2>2 DEF AddsUp, Minus, Plus, counters
  <2>4. (\A c \in Consumer : Counting(deq[c]))'
    BY <2>1 DEF Counted, Counting, LookingPcs, Index
  <2>5. Enqueuing(enq)' /\ SetupOK'
    BY <2>1 DEF Counted, Enqueuing, SetupOK
  <2>6. Counted'
    BY <2>1, <2>4, <2>5 DEF Counted, counters, Index, Plus
  <2> QED
    BY <2>3, <2>6
<1> QED
  BY <1>1, <1>2, <1>3, StepCases

(* The counts of reservations agree with the head, whatever the consumers  *)
(* interleave: no step of dequeue or dequeue_bulk (2166) loses a           *)
(* reservation or counts one twice, in either kind of sub-queue, and what  *)
(* each call has read and decided has its type.                            *)
THEOREM CountersAddUp == Spec => [](Counted /\ ReservationsAddUp)
<1>1. Init => Counted /\ AddsUp
  BY CountedInit, AddUpMeans
<1>2. (Counted /\ AddsUp) /\ [Next]_vars => (Counted /\ AddsUp)'
  BY CountedNext
<1>3. Counted /\ AddsUp => Counted /\ ReservationsAddUp
  BY AddUpMeans
<1> QED
  BY <1>1, <1>2, <1>3, PTL DEF Spec

-----------------------------------------------------------------------------
(* Distances instead of wrapping indices.                                  *)
Idx(x) == Plus(setup.start, x)          \* the index of an element
Off(i) == Minus(i, setup.start)         \* how many elements are before it
Length == enqueued - Off(headIndex)

LEMMA SmallMod ==
  ASSUME SetupOK, NEW x \in Index, NEW q \in Int
  PROVE  /\ x % Modulus = x /\ (Modulus * q + x) % Modulus = x
         /\ (x + Modulus) % Modulus = x /\ (x - Modulus) % Modulus = x
<1>1. PICK m : m = Modulus /\ m \in Nat \ {0} /\ x \in 0 .. m - 1 /\ x \in Int
  BY SetupFacts DEF Index
<1>2. (m * q + x) % m = x
  BY <1>1, ModUnique
<1>3. (m * 0 + x) % m = x /\ m * 0 + x = x
  BY <1>1, ModUnique
<1>4. (m * 1 + x) % m = x /\ m * 1 + x = x + m
  BY <1>1, ModUnique
<1>5. (m * (-1) + x) % m = x /\ m * (-1) + x = x - m
  <2>1. -1 \in Int
    OBVIOUS
  <2> QED
    BY <1>1, <2>1, ModUnique
<1> QED
  BY <1>1, <1>2, <1>3, <1>4, <1>5

LEMMA OffsetFacts ==
  ASSUME SetupOK
  PROVE  /\ \A x \in Int : Idx(x) \in Index
         /\ \A i \in Index : Off(i) \in Index /\ Idx(Off(i)) = i
         /\ \A x \in Index : Off(Idx(x)) = x
         /\ \A x, n \in Int : Plus(Idx(x), n) = Idx(x + n)
         /\ \A x, y \in Int : x - y \in Index => Minus(Idx(x), Idx(y)) = x - y
         /\ \A x, y \in Int : Minus(Idx(x), Idx(y)) = (x - y) % Modulus
<1>1. PICK m, z : /\ m = Modulus /\ m \in Nat \ {0} /\ z = setup.start /\ z \in Index
                  /\ z \in Int /\ Index = 0 .. m - 1 /\ Index \subseteq Int
  BY SetupFacts DEF Index
<1>2. \A x \in Int : Idx(x) \in Index
  BY <1>1, IndexTyped DEF Idx
<1>3. \A x, y \in Int : Minus(Idx(x), Idx(y)) = (x - y) % Modulus
  <2>1. TAKE x, y \in Int
  <2>2. Plus(z, x) \in Int /\ Plus(z, y) \in Int
    BY <1>1, IndexTyped
  <2>3. Minus(Plus(z, x), Plus(z, y)) = Minus(Plus(z, x), z + y)
    BY <1>1, <2>2, LessPlus
  <2>4. Minus(Plus(z, x), z + y) = Plus(z, x - (z + y))
    <3>1. z + y \in Int
      BY <1>1
    <3> QED
      BY <1>1, <3>1, PlusMinus
  <2>5. z + (x - (z + y)) = x - y
    BY <1>1
  <2> QED
    BY <1>1, <2>3, <2>4, <2>5 DEF Idx, Plus
<1>4. \A x, y \in Int : x - y \in Index => Minus(Idx(x), Idx(y)) = x - y
  BY <1>3, SmallMod
<1>5. Idx(0) = z
  <2>1. z + 0 = z /\ z % Modulus = z
    BY <1>1, SmallMod
  <2> QED
    BY <1>1, <2>1 DEF Idx, Plus
<1>6. \A x \in Index : Off(Idx(x)) = x
  <2>1. TAKE x \in Index
  <2>2. x - 0 = x /\ x \in Int
    BY <1>1
  <2>3. Minus(Idx(x), Idx(0)) = x
    BY <1>4, <2>2
  <2> QED
    BY <1>1, <1>5, <2>3 DEF Off
<1>7. \A i \in Index : Off(i) \in Index /\ Idx(Off(i)) = i
  <2>1. TAKE i \in Index
  <2>2. Off(i) \in Index /\ i \in Int
    BY <1>1, IndexTyped DEF Off
  <2>3. Plus(z, Minus(i, z)) = i
    <3>1. Plus(Minus(i, z), z) = Plus(i, z - z)
      BY <1>1, <2>2, MinusPlus
    <3>2. i + (z - z) = i /\ i % Modulus = i
      BY <1>1, <2>2, SmallMod
    <3>3. z + Minus(i, z) = Minus(i, z) + z
      BY <1>1, <2>2 DEF Off
    <3> QED
      BY <3>1, <3>2, <3>3 DEF Plus
  <2> QED
    BY <1>1, <2>2, <2>3 DEF Idx, Off
<1>8. \A x, n \in Int : Plus(Idx(x), n) = Idx(x + n)
  BY <1>1, PlusPlus DEF Idx
<1> QED
  BY <1>2, <1>3, <1>4, <1>6, <1>7, <1>8

-----------------------------------------------------------------------------
(* No consumer goes past the tail.                                         *)

(* What the code takes for granted of the 2^64 values of a count: a call   *)
(* is not delayed, between its two reads of the counts, by half of them.   *)
NotTooStale ==
  \A c \in Consumer : At(c, "reserve") =>
    Total + Minus(dequeueOvercommit, deq[c].over) < Modulus \div 2

Holding(d) == d.pc \in {"recheck", "return", "claim"}

(* The reservations lie one after the other, in the order they were made:  *)
(* p is where each begins, counted from the head.                          *)
Fits(d, at, length, head) ==
  /\ d.pc \in {"return", "claim"} /\ d.count # 0 => at + d.count <= length
  /\ d.pc = "recheck" =>
       \/ at + d.want <= length
       \/ at <= Minus(d.my, head) /\ Minus(d.my, head) < Modulus \div 2

Apart(d, e, at, bt) == at + Held(d) <= bt \/ bt + Held(e) <= at

Placed(p) ==
  /\ p \in [Consumer -> Nat]
  /\ \A c \in Consumer : Holding(deq[c]) =>
       /\ p[c] + Held(deq[c]) <= Total
       /\ Fits(deq[c], p[c], Length, headIndex)
  /\ \A c, e \in Consumer : c # e /\ Holding(deq[c]) /\ Holding(deq[e]) =>
       Apart(deq[c], deq[e], p[c], p[e])

InOrder == Length \in Nat /\ \E p : Placed(p)

LEMMA LengthFacts ==
  ASSUME Counted, Length \in Nat
  PROVE  /\ Off(headIndex) \in Nat /\ enqueued \in Nat
         /\ Off(headIndex) + Length = enqueued
         /\ headIndex = Idx(Off(headIndex)) /\ tailIndex = Idx(enqueued)
         /\ Length < Modulus /\ Off(headIndex) < Modulus /\ enqueued < Modulus
         /\ Length = Minus(tailIndex, headIndex)
<1>1. PICK m, h, k : /\ m = Modulus /\ m \in Nat \ {0} /\ h = Off(headIndex) /\ k = enqueued
                     /\ k \in Nat /\ k < m /\ Index = 0 .. m - 1 /\ h \in Index
                     /\ headIndex = Idx(h) /\ tailIndex = Idx(k)
  <2>1. headIndex \in Index /\ SetupOK
    BY CountedFacts
  <2> QED
    <3>1. Off(headIndex) \in Index /\ Idx(Off(headIndex)) = headIndex
      BY <2>1, OffsetFacts
    <3>2. tailIndex = Idx(enqueued)
      BY DEF Counted, Idx
    <3>3. enqueued \in Nat /\ enqueued < Modulus /\ Modulus \in Nat \ {0}
      BY <2>1, CountedFacts, SetupFacts
    <3> QED
      BY <3>1, <3>2, <3>3 DEF Index
<1>2. Length = k - h /\ k - h \in Index /\ h \in Int /\ k \in Int
  BY <1>1 DEF Length
<1>3. Minus(Idx(k), Idx(h)) = k - h
  BY <1>2, CountedFacts, OffsetFacts
<1>4. h \in Nat /\ h + Length = k /\ Length < m /\ h < m
  <2>1. h \in 0 .. m - 1
    BY <1>1
  <2>2. h \in Nat /\ h < m /\ k \in Nat /\ k < m /\ m \in Nat
    BY <1>1, <2>1
  <2>3. h + (k - h) = k /\ k - h < m
    BY <2>2
  <2> QED
    BY <1>2, <2>2, <2>3
<1> QED
  BY <1>1, <1>2, <1>3, <1>4

(* Only one call changes and the others keep their places.                 *)
LEMMA PlacesKept ==
  ASSUME Counted, NEW p, Placed(p), NEW c \in Consumer, NEW d, Becomes(c, d), Counting(d),
         UNCHANGED <<setup, headIndex, enqueued>>, Total' = Total,
         Held(d) = Held(deq[c]), Holding(d) => Holding(deq[c]),
         Holding(d) => Fits(d, p[c], Length, headIndex), Length \in Nat
  PROVE  InOrder'
<1>1. /\ deq'[c] = d /\ \A x \in Consumer : x # c => deq'[x] = deq[x]
      /\ Length' = Length
  <2>1. SetupOK'
    BY CountedFacts DEF SetupOK
  <2> QED
    BY <2>1, CallsChange DEF Length, Off, Minus
<1>2. Placed(p)'
  <2>1. ASSUME NEW x \in Consumer, Holding(deq'[x])
        PROVE  /\ p[x] + Held(deq'[x]) <= Total'
               /\ Fits(deq'[x], p[x], Length', headIndex')
    <3>1. CASE x = c
      BY <1>1, <2>1, <3>1 DEF Placed
    <3>2. CASE x # c
      BY <1>1, <2>1, <3>2 DEF Placed
    <3> QED
      BY <3>1, <3>2
  <2>2. ASSUME NEW x \in Consumer, NEW y \in Consumer, x # y, Holding(deq'[x]), Holding(deq'[y])
        PROVE  Apart(deq'[x], deq'[y], p[x], p[y])
    <3>1. Held(deq'[x]) = Held(deq[x]) /\ Held(deq'[y]) = Held(deq[y])
      BY <1>1
    <3>2. Holding(deq[x]) /\ Holding(deq[y])
      BY <1>1, <2>2
    <3>3. Apart(deq[x], deq[y], p[x], p[y])
      BY <2>2, <3>2 DEF Placed
    <3> QED
      BY <3>1, <3>3 DEF Apart
  <2>3. (\A x \in Consumer : Holding(deq[x]) =>
           /\ p[x] + Held(deq[x]) <= Total
           /\ Fits(deq[x], p[x], Length, headIndex))'
    BY <2>1 DEF Holding, Held, Fits, Minus
  <2>4. (\A x, y \in Consumer : x # y /\ Holding(deq[x]) /\ Holding(deq[y]) =>
           Apart(deq[x], deq[y], p[x], p[y]))'
    BY <2>2 DEF Holding, Held, Apart
  <2> QED
    BY <2>3, <2>4 DEF Placed
<1> QED
  BY <1>1, <1>2 DEF InOrder

LEMMA MinusOfIndex ==
  ASSUME SetupOK, NEW a \in Index, NEW b \in Index
  PROVE  /\ b <= a => Minus(a, b) = a - b
         /\ a < b => Minus(a, b) = (a - b) + Modulus
<1>1. PICK m : m = Modulus /\ m \in Nat \ {0} /\ Index = 0 .. m - 1
  BY SetupFacts DEF Index
<1>2. a \in Int /\ b \in Int /\ a >= 0 /\ b >= 0 /\ a < m /\ b < m
  BY <1>1
<1>3. CASE b <= a
  <2>1. a - b \in Index
    BY <1>1, <1>2, <1>3
  <2> QED
    BY <1>2, <1>3, <2>1, SmallMod DEF Minus
<1>4. CASE a < b
  <2>1. (a - b) + m \in Index /\ ((a - b) + m) - m = a - b
    BY <1>1, <1>2, <1>4
  <2>2. (((a - b) + m) - m) % m = (a - b) + m
    BY <1>1, <2>1, SmallMod
  <2> QED
    BY <1>1, <1>2, <1>4, <2>1, <2>2 DEF Minus
<1> QED
  BY <1>2, <1>3, <1>4

LEMMA MinusLikewise ==
  ASSUME Counted, NEW a \in Index, NEW b \in Index, NEW h \in Index
  PROVE  Minus(a, b) = Minus(Minus(a, h), Minus(b, h))
<1>1. a \in Int /\ b \in Int /\ h \in Int /\ SetupOK
  BY CountedFacts
<1>2. Minus(a, h) \in Int
  BY <1>1, IndexTyped DEF Index
<1>3. Minus(Minus(a, h), Minus(b, h)) = Plus(Minus(a, h), h - b)
  BY <1>1, <1>2, LessMinus
<1>4. Plus(Minus(a, h), h - b) = Plus(a, (h - b) - h)
  <2>1. h - b \in Int
    BY <1>1
  <2> QED
    BY <1>1, <2>1, MinusPlus
<1>5. a + ((h - b) - h) = a - b
  BY <1>1
<1> QED
  BY <1>3, <1>4, <1>5 DEF Plus, Minus

LEMMA CircularLess ==
  ASSUME SetupOK, NEW x \in Index, circular_less_than(0, x)
  PROVE  x # 0 /\ x < Modulus - (Modulus \div 2)
<1>1. PICK m : m = Modulus /\ m \in Nat \ {0} /\ Index = 0 .. m - 1 /\ 0 \in Index
  BY SetupFacts DEF Index
<1>2. x \in Int /\ x >= 0 /\ x < m /\ m \div 2 \in Int /\ m \div 2 >= 0
  BY <1>1
<1>3. Minus(0, x) > m \div 2
  BY <1>1 DEF circular_less_than
<1>4. CASE x = 0
  <2>1. Minus(0, x) = 0 - 0
    BY <1>1, <1>4, MinusOfIndex
  <2> QED
    BY <1>2, <1>3, <2>1
<1>5. CASE x # 0
  <2>1. Minus(0, x) = (0 - x) + m
    BY <1>1, <1>2, <1>5, MinusOfIndex
  <2> QED
    BY <1>1, <1>2, <1>3, <1>5, <2>1
<1> QED
  BY <1>4, <1>5

(* The second look never takes more than there is.                         *)
LEMMA ActualFits ==
  ASSUME Counted, Length \in Nat, NEW c \in Consumer, deq[c].pc = "recheck",
         deq[c].want \in Nat \ {0}, deq[c].my \in Index,
         Actual(c) \in 0 .. deq[c].want, Actual(c) # 0,
         NEW at \in Nat, Fits(deq[c], at, Length, headIndex)
  PROVE  at + Actual(c) <= Length
<1>1. PICK a, w, l, m : /\ a = Actual(c) /\ w = deq[c].want /\ l = Length /\ m = Modulus
                        /\ a \in Nat \ {0} /\ w \in Nat /\ a <= w /\ l \in Nat /\ m \in Nat \ {0}
                        /\ Index = 0 .. m - 1 /\ l < m
  BY CountedFacts, LengthFacts DEF Index
<1>2. CASE at + w <= l
  BY <1>1, <1>2
<1>3. CASE ~(at + w <= l)
  <2>1. PICK y, x : /\ y = Minus(deq[c].my, headIndex) /\ at <= y /\ y < m \div 2
                    /\ x = Minus(tailIndex, deq[c].my) /\ y \in Index /\ x \in Index
    <3>1. at <= Minus(deq[c].my, headIndex) /\ Minus(deq[c].my, headIndex) < m \div 2
      BY <1>1, <1>3 DEF Fits
    <3>2. Minus(deq[c].my, headIndex) \in Index /\ Minus(tailIndex, deq[c].my) \in Index
      BY CountedFacts, IndexClosed
    <3> QED
      BY <3>1, <3>2
  <2>2. circular_less_than(0, x) /\ a <= x
    BY <1>1, <2>1 DEF Actual
  <2>3. x = Minus(l, y)
    <3>1. x = Minus(Minus(tailIndex, headIndex), Minus(deq[c].my, headIndex))
      BY <2>1, CountedFacts, MinusLikewise
    <3> QED
      BY <1>1, <2>1, <3>1, LengthFacts
  <2>4. l \in Index /\ y \in Int /\ y >= 0 /\ y < m /\ SetupOK
    BY <1>1, <2>1, CountedFacts
  <2>5. CASE y <= l
    <3>1. x = l - y
      BY <2>1, <2>3, <2>4, <2>5, MinusOfIndex
    <3> QED
      BY <1>1, <2>1, <2>2, <2>4, <3>1
  <2>6. CASE l < y
    <3>1. x = (l - y) + m
      BY <1>1, <2>1, <2>3, <2>4, <2>6, MinusOfIndex
    <3>2. x < m - (m \div 2)
      BY <1>1, <2>1, <2>2, <2>4, CircularLess
    <3>3. m \div 2 \in Int
      BY <1>1
    <3> QED
      BY <1>1, <2>1, <2>4, <2>6, <3>1, <3>2, <3>3
  <2> QED
    BY <1>1, <2>4, <2>5, <2>6
<1> QED
  BY <1>2, <1>3

(* The conditions on the places, with the values of a state.               *)
PlacedFor(p, dq, total, length, head) ==
  /\ p \in [Consumer -> Nat]
  /\ \A c \in Consumer : Holding(dq[c]) =>
       /\ p[c] + Held(dq[c]) <= total
       /\ Fits(dq[c], p[c], length, head)
  /\ \A c, e \in Consumer : c # e /\ Holding(dq[c]) /\ Holding(dq[e]) =>
       Apart(dq[c], dq[e], p[c], p[e])

LEMMA PlacedMeans ==
  ASSUME NEW p
  PROVE  /\ Placed(p) <=> PlacedFor(p, deq, Total, Length, headIndex)
         /\ Placed(p)' <=> PlacedFor(p, deq', Total', Length', headIndex')
  BY DEF Placed, PlacedFor, Holding, Held, Fits, Apart, Minus

LEMMA HoldingFacts ==
  ASSUME NEW d, Counting(d)
  PROVE  /\ Held(d) \in Nat /\ (Holding(d) <=> Held(d) # 0)
         /\ d.pc = "recheck" => d.want = Held(d)
         /\ d.pc = "claim" => d.count = Held(d)
         /\ d.pc = "return" => d.count \in Nat /\ d.excess \in Nat \ {0}
                               /\ d.count + d.excess = Held(d)
<1>1. CASE d.pc = "recheck"
  BY <1>1, HeldFacts DEF Holding, Counting
<1>2. CASE d.pc = "return"
  BY <1>2, HeldFacts DEF Holding, Counting
<1>3. CASE d.pc = "claim"
  BY <1>3, HeldFacts DEF Holding, Counting
<1>4. CASE d.pc \notin {"recheck", "return", "claim"}
  BY <1>4, HeldFacts DEF Holding
<1> QED
  BY <1>1, <1>2, <1>3, <1>4

(* A place that is nearer to the head is as good.                          *)
LEMMA FitsLower ==
  ASSUME Counted, NEW d, Counting(d), NEW at \in Nat, NEW bt \in Nat, bt <= at,
         NEW l \in Nat, NEW h \in Index, Fits(d, at, l, h)
  PROVE  Fits(d, bt, l, h)
<1>1. CASE d.pc = "recheck"
  <2>1. PICK w, y : w = d.want /\ w \in Nat /\ y = Minus(d.my, h) /\ y \in Nat
    <3>1. d.want \in Nat /\ d.my \in Index
      BY <1>1 DEF Counting
    <3> QED
      BY <3>1, IndexClosed
  <2>2. at + w <= l \/ (at <= y /\ y < Modulus \div 2)
    BY <1>1, <2>1 DEF Fits
  <2>3. bt + w <= l \/ (bt <= y /\ y < Modulus \div 2)
    <3>1. CASE at + w <= l
      BY <2>1, <3>1
    <3>2. CASE at <= y /\ y < Modulus \div 2
      <4>1. bt <= y
        BY <2>1, <3>2
      <4> QED
        BY <3>2, <4>1
    <3> QED
      BY <2>2, <3>1, <3>2
  <2> QED
    BY <1>1, <2>1, <2>3 DEF Fits
<1>2. CASE d.pc \in {"return", "claim"}
  <2>1. d.count \in Nat
    BY <1>2 DEF Counting
  <2> QED
    BY <1>2, <2>1 DEF Fits
<1> QED
  BY <1>1, <1>2 DEF Fits

(* What lies before the tail is there.                                     *)
LEMMA FitsAhead ==
  ASSUME NEW d, Counting(d), NEW at \in Nat, NEW l \in Nat, NEW h, at + Held(d) <= l
  PROVE  Fits(d, at, l, h)
<1>1. CASE d.pc = "recheck"
  <2>1. at + d.want <= l
    BY <1>1, HoldingFacts
  <2> QED
    BY <1>1, <2>1 DEF Fits
<1>2. CASE d.pc = "return"
  <2>1. PICK n, e, k : /\ n = d.count /\ e = d.excess /\ k = Held(d)
                       /\ n \in Nat /\ e \in Nat /\ n + e = k
    BY <1>2, HoldingFacts
  <2>2. at + n <= l
    BY <2>1
  <2> QED
    BY <1>2, <2>1, <2>2 DEF Fits
<1>3. CASE d.pc = "claim"
  <2>1. at + d.count <= l
    BY <1>3, HoldingFacts
  <2> QED
    BY <1>3, <2>1 DEF Fits
<1> QED
  BY <1>1, <1>2, <1>3 DEF Fits

(* When the head moves the places beyond move with it.                     *)
LEMMA FitsClaim ==
  ASSUME Counted, NEW d, Counting(d), NEW at \in Nat, NEW r \in Nat, r <= at,
         NEW l \in Nat, r <= l, NEW h \in Index, NEW g \in Index, g = Plus(h, r),
         Fits(d, at, l, h)
  PROVE  Fits(d, at - r, l - r, g)
<1>0. at - r \in Nat /\ l - r \in Nat
  OBVIOUS
<1>1. CASE d.pc = "recheck"
  <2>1. PICK w, y, m : /\ w = d.want /\ w \in Nat /\ y = Minus(d.my, h) /\ d.my \in Index
                       /\ y \in Index /\ y \in Nat /\ m = Modulus /\ m \in Nat \ {0}
                       /\ Index = 0 .. m - 1
    <3>1. d.my \in Index /\ d.want \in Nat
      BY <1>1 DEF Counting
    <3>2. Minus(d.my, h) \in Index /\ Minus(d.my, h) \in Nat
      BY <3>1, IndexClosed
    <3> QED
      BY <3>1, <3>2, CountedFacts DEF Index
  <2>2. at + w <= l \/ (at <= y /\ y < m \div 2)
    BY <1>1, <2>1 DEF Fits
  <2>3. CASE at + w <= l
    <3>1. (at - r) + w <= l - r
      BY <2>1, <2>3
    <3> QED
      BY <1>1, <2>1, <3>1 DEF Fits
  <2>4. CASE at <= y /\ y < m \div 2
    <3>1. Minus(d.my, g) = y - r
      <4>1. d.my \in Int /\ h \in Int /\ r \in Int /\ SetupOK
        BY <2>1, CountedFacts
      <4>2. Minus(d.my, Plus(h, r)) = Minus(d.my, h + r)
        BY <4>1, LessPlus
      <4>3. Minus(Minus(d.my, h), r) = Minus(d.my, h + r)
        BY <4>1, MinusMinus
      <4>4. r \in Index /\ r <= y
        BY <2>1, <2>4
      <4>5. Minus(y, r) = y - r
        BY <2>1, <4>1, <4>4, MinusOfIndex
      <4> QED
        BY <2>1, <4>2, <4>3, <4>5
    <3>2. at - r <= y - r /\ y - r < m \div 2
      <4>1. m \div 2 \in Int
        BY <2>1
      <4> QED
        BY <2>1, <2>4, <4>1
    <3> QED
      BY <1>1, <2>1, <3>1, <3>2 DEF Fits
  <2> QED
    BY <2>2, <2>3, <2>4
<1>2. CASE d.pc \in {"return", "claim"}
  <2>1. PICK n : n = d.count /\ n \in Nat
    BY <1>2 DEF Counting
  <2>2. n # 0 => at + n <= l
    BY <1>2, <2>1 DEF Fits
  <2>3. n # 0 => (at - r) + n <= l - r
    BY <2>1, <2>2
  <2> QED
    BY <1>2, <2>1, <2>3 DEF Fits
<1> QED
  BY <1>1, <1>2 DEF Fits

(* The places above c move down by r, which is taken from what c holds.    *)
Closed(p, c, r, size) ==
  [y \in Consumer |-> IF y # c /\ p[c] + size <= p[y] THEN p[y] - r ELSE p[y]]

ClosedUp(p, dq, total, c, r, k, q) ==
  /\ q \in [Consumer -> Nat] /\ q[c] = p[c]
  /\ \A y \in Consumer : y # c /\ Holding(dq[y]) =>
       \/ q[y] = p[y] - r /\ p[c] + k <= p[y]
       \/ q[y] = p[y] /\ p[y] + Held(dq[y]) <= p[c]
  /\ \A y \in Consumer : y # c /\ Holding(dq[y]) => q[y] + Held(dq[y]) <= total - r
  /\ \A y, z \in Consumer :
       y # z /\ y # c /\ z # c /\ Holding(dq[y]) /\ Holding(dq[z]) =>
         Apart(dq[y], dq[z], q[y], q[z])
  /\ \A y \in Consumer : y # c /\ Holding(dq[y]) =>
       \/ q[y] + Held(dq[y]) <= q[c]
       \/ q[c] + (k - r) <= q[y]

LEMMA ClosedFacts ==
  ASSUME NEW p, NEW dq, NEW total \in Nat, NEW length \in Nat, NEW head,
         PlacedFor(p, dq, total, length, head),
         \A y \in Consumer : Counting(dq[y]),
         NEW c \in Consumer, Holding(dq[c]), NEW r \in Nat, r <= Held(dq[c]),
         NEW k, k = Held(dq[c]), NEW q, q = Closed(p, c, r, k)
  PROVE  ClosedUp(p, dq, total, c, r, k, q)
<1>1. p \in [Consumer -> Nat] /\ k \in Nat /\ r \in Nat /\ r <= k
  BY HoldingFacts DEF PlacedFor
<1>2. \A y \in Consumer : p[y] \in Nat /\ Held(dq[y]) \in Nat
  BY <1>1, HoldingFacts
<1>3. \A y \in Consumer : q[y] = IF y # c /\ p[c] + k <= p[y] THEN p[y] - r ELSE p[y]
  BY DEF Closed
<1>4. q \in [Consumer -> Nat]
  <2>1. \A y \in Consumer : q[y] \in Nat
    <3>1. TAKE y \in Consumer
    <3>2. PICK a, b : a = p[y] /\ b = p[c] /\ a \in Nat /\ b \in Nat
      BY <1>2
    <3>3. b + k <= a => a - r \in Nat
      BY <1>1, <3>2
    <3> QED
      BY <1>3, <3>2, <3>3
  <2> QED
    BY <2>1 DEF Closed
<1>5. q[c] = p[c]
  BY <1>3
<1>6. ASSUME NEW y \in Consumer, y # c, Holding(dq[y])
      PROVE  /\ \/ q[y] = p[y] - r /\ p[c] + k <= p[y]
                \/ q[y] = p[y] /\ p[y] + Held(dq[y]) <= p[c]
             /\ q[y] + Held(dq[y]) <= total - r
             /\ \/ q[y] + Held(dq[y]) <= q[c]
                \/ q[c] + (k - r) <= q[y]
  <2>1. PICK a, b, e : /\ a = p[y] /\ b = p[c] /\ a \in Nat /\ b \in Nat
                       /\ e = Held(dq[y]) /\ e \in Nat
    BY <1>2
  <2>2. a + e <= b \/ b + k <= a
    <3>1. Apart(dq[y], dq[c], a, b)
      BY <1>6, <2>1 DEF PlacedFor
    <3> QED
      BY <2>1, <3>1 DEF Apart
  <2>3. a + e <= total /\ b + k <= total
    BY <1>6, <2>1 DEF PlacedFor
  <2>4. e # 0
    BY <1>6, <2>1, HoldingFacts
  <2>5. q[y] = IF b + k <= a THEN a - r ELSE a
    BY <1>3, <1>6, <2>1
  <2>6. CASE b + k <= a
    BY <1>1, <1>5, <2>1, <2>3, <2>5, <2>6
  <2>7. CASE ~(b + k <= a)
    BY <1>1, <1>5, <2>1, <2>2, <2>3, <2>5, <2>7
  <2> QED
    BY <2>6, <2>7
<1>7. ASSUME NEW y \in Consumer, NEW z \in Consumer, y # z, y # c, z # c,
             Holding(dq[y]), Holding(dq[z])
      PROVE  Apart(dq[y], dq[z], q[y], q[z])
  <2>1. PICK a, b, d, e, f, g, h :
               /\ a = p[y] /\ b = p[z] /\ d = p[c] /\ e = Held(dq[y]) /\ f = Held(dq[z])
               /\ g = q[y] /\ h = q[z]
               /\ a \in Nat /\ b \in Nat /\ d \in Nat /\ e \in Nat /\ f \in Nat
    BY <1>2
  <2>2. a + e <= b \/ b + f <= a
    BY <1>7, <2>1 DEF PlacedFor, Apart
  <2>3. /\ (g = a - r /\ d + k <= a) \/ (g = a /\ a + e <= d)
        /\ (h = b - r /\ d + k <= b) \/ (h = b /\ b + f <= d)
    BY <1>6, <1>7, <2>1
  <2>4. g + e <= h \/ h + f <= g
    BY <1>1, <2>1, <2>2, <2>3
  <2> QED
    BY <2>1, <2>4 DEF Apart
<1> QED
  BY <1>4, <1>5, <1>6, <1>7 DEF ClosedUp

(* The call of c becomes d and the places q.                               *)
LEMMA Moved ==
  ASSUME Counted, NEW c \in Consumer, NEW d, Becomes(c, d), Counting(d), SetupOK',
         NEW q \in [Consumer -> Nat], NEW l \in Nat, l = Length', NEW h, h = headIndex',
         Holding(d) => q[c] + Held(d) <= Total' /\ Fits(d, q[c], l, h),
         \A y \in Consumer : y # c /\ Holding(deq[y]) =>
           /\ q[y] + Held(deq[y]) <= Total'
           /\ Fits(deq[y], q[y], l, h)
           /\ Holding(d) => Apart(deq[y], d, q[y], q[c]),
         \A y, z \in Consumer :
           y # z /\ y # c /\ z # c /\ Holding(deq[y]) /\ Holding(deq[z]) =>
             Apart(deq[y], deq[z], q[y], q[z])
  PROVE  InOrder'
<1>1. deq'[c] = d /\ \A x \in Consumer : x # c => deq'[x] = deq[x]
  BY CallsChange
<1>2. ASSUME NEW x \in Consumer, Holding(deq'[x])
      PROVE  q[x] + Held(deq'[x]) <= Total' /\ Fits(deq'[x], q[x], l, h)
  <2>1. CASE x = c
    BY <1>1, <1>2, <2>1
  <2>2. CASE x # c
    <3>1. deq'[x] = deq[x]
      BY <1>1, <2>2
    <3> QED
      BY <1>2, <2>2, <3>1
  <2> QED
    BY <2>1, <2>2
<1>3. ASSUME NEW x \in Consumer, NEW y \in Consumer, x # y, Holding(deq'[x]), Holding(deq'[y])
      PROVE  Apart(deq'[x], deq'[y], q[x], q[y])
  <2>1. CASE x = c
    <3>1. deq'[x] = d /\ deq'[y] = deq[y] /\ y # c
      BY <1>1, <1>3, <2>1
    <3>2. Apart(deq[y], d, q[y], q[c])
      BY <1>3, <3>1
    <3> QED
      BY <2>1, <3>1, <3>2 DEF Apart
  <2>2. CASE y = c
    <3>1. deq'[y] = d /\ deq'[x] = deq[x] /\ x # c
      BY <1>1, <1>3, <2>2
    <3>2. Apart(deq[x], d, q[x], q[c])
      BY <1>3, <3>1
    <3> QED
      BY <2>2, <3>1, <3>2
  <2>3. CASE x # c /\ y # c
    <3>1. deq'[y] = deq[y] /\ deq'[x] = deq[x]
      BY <1>1, <2>3
    <3> QED
      BY <1>3, <2>3, <3>1
  <2> QED
    BY <2>1, <2>2, <2>3
<1>4. PlacedFor(q, deq', Total', Length', headIndex')
  BY <1>2, <1>3 DEF PlacedFor
<1>5. Placed(q)'
  BY <1>4, PlacedMeans
<1> QED
  BY <1>5 DEF InOrder

(* What is known before a step.                                            *)
LEMMA BeforeStep ==
  ASSUME Counted, NEW p, Placed(p)
  PROVE  /\ p \in [Consumer -> Nat] /\ \A y \in Consumer : p[y] \in Nat
         /\ \A y \in Consumer : Counting(deq[y]) /\ Held(deq[y]) \in Nat
         /\ \A y \in Consumer : Holding(deq[y]) =>
              p[y] + Held(deq[y]) <= Total /\ Fits(deq[y], p[y], Length, headIndex)
         /\ \A y, z \in Consumer : y # z /\ Holding(deq[y]) /\ Holding(deq[z]) =>
              Apart(deq[y], deq[z], p[y], p[z])
         /\ Total \in Nat /\ headIndex \in Index
  BY CountedFacts, HoldingFacts, TotalTyped DEF Placed

(* The new reservation is the last.                                        *)
LEMMA ReservePlaces ==
  ASSUME Counted, AddsUp, InOrder, NotTooStale, NEW c \in Consumer, Reserve(c)
  PROVE  InOrder'
<1>1. PICK d : /\ Becomes(c, d) /\ Counting(d) /\ deq[c].pc = "reserve"
               /\ deq[c].want \in Nat \ {0} /\ deq[c].over \in Index
               /\ d = [pc |-> "recheck", want |-> deq[c].want,
                       my |-> Minus(dequeueOptimisticCount, deq[c].over)]
  BY ReserveCounts
<1>2. PICK p : Placed(p)
  BY DEF InOrder
<1>3. PICK w, o, v, u, h, t, m :
        /\ w = deq[c].want /\ o = dequeueOptimisticCount /\ v = dequeueOvercommit
        /\ u = deq[c].over /\ h = headIndex /\ t = Total /\ m = Modulus
        /\ w \in Nat \ {0} /\ o \in Index /\ v \in Index /\ u \in Index /\ h \in Index /\ t \in Nat
        /\ o \in Int /\ v \in Int /\ u \in Int /\ h \in Int /\ t \in Int
        /\ m \in Nat \ {0} /\ Index = 0 .. m - 1
  BY <1>1, CountedFacts, TotalTyped DEF Index
<1>4. SetupOK /\ SetupOK'
  BY CountedFacts DEF Reserve, SetupOK
<1>5. Held(d) = w /\ Held(deq[c]) = 0
  BY <1>1, <1>3, CountedFacts, HeldFacts
<1>6. Total' = t + w
  <2>1. Total' = Total + (Held(d) - Held(deq[c]))
    BY <1>1, <1>4, TotalChanges
  <2> QED
    BY <1>3, <1>5, <2>1
<1>7. headIndex' = headIndex /\ Length' = Length /\ Length \in Nat
  BY DEF Reserve, Length, Off, Minus, producer, InOrder
<1>8. PICK s : s = Minus(v, u) /\ s \in Nat /\ t + s < m \div 2
  <2>1. Minus(v, u) \in Nat
    BY <1>3, IndexClosed
  <2> QED
    BY <1>1, <1>3, <2>1 DEF NotTooStale, At
<1>9. Minus(d.my, h) = t + s
  <2>1. d.my = Minus(o, u)
    BY <1>1, <1>3
  <2>2. Minus(Minus(o, u), h) = Minus(o, u + h)
    BY <1>3, <1>4, MinusMinus, ZenonT(40)
  <2>3. Minus(o, v) = Plus(h, t)
    BY <1>3 DEF AddsUp
  <2>11. PICK x : x = (v - u) - h /\ x \in Int
    BY <1>3
  <2>4. Plus(Minus(o, v), x) = Plus(o, x - v)
    <3>1. o \in Int /\ v \in Int /\ x \in Int /\ SetupOK
      BY <1>3, <1>4, <2>11
    <3> QED
      BY <3>1, MinusPlus
  <2>5. Plus(Plus(h, t), x) = Plus(h, t + x)
    <3>1. h \in Int /\ t \in Int /\ x \in Int /\ SetupOK
      BY <1>3, <1>4, <2>11
    <3> QED
      BY <3>1, PlusPlus
  <2>6. Plus(Minus(v, u), t) = Plus(v, t - u)
    BY <1>3, <1>4, MinusPlus, ZenonT(40)
  <2>7. o + (x - v) = o - (u + h) /\ h + (t + x) = v + (t - u) /\ s + t = t + s
    <3>1. /\ o \in Int /\ v \in Int /\ u \in Int /\ h \in Int /\ t \in Int /\ s \in Int
          /\ x = (v - u) - h
      BY <1>3, <1>8, <2>11
    <3> QED
      BY <3>1
  <2>8. Minus(o, u + h) = Plus(v, t - u)
    BY <2>3, <2>4, <2>5, <2>7 DEF Plus, Minus
  <2>9. (t + s) % m = t + s
    <3>1. m \div 2 <= m
      BY <1>3
    <3>2. t + s \in Index
      BY <1>3, <1>8, <3>1
    <3> QED
      BY <1>3, <1>4, <3>2, SmallMod
  <2>10. Plus(s, t) = t + s
    BY <1>3, <2>7, <2>9 DEF Plus
  <2> QED
    BY <1>8, <2>1, <2>2, <2>6, <2>8, <2>10
<1>10. Fits(d, t, Length, h)
  <2>1. t <= t + s
    BY <1>3, <1>8
  <2>2. t <= Minus(d.my, h) /\ Minus(d.my, h) < Modulus \div 2
    BY <1>3, <1>8, <1>9, <2>1
  <2>3. d.pc = "recheck"
    BY <1>1
  <2> QED
    BY <2>2, <2>3 DEF Fits
<1> DEFINE q == [p EXCEPT ![c] = t]
<1>11. q \in [Consumer -> Nat] /\ q[c] = t /\ \A y \in Consumer : y # c => q[y] = p[y]
  BY <1>2, <1>3, BeforeStep
<1> HIDE DEF q
<1>12. ASSUME NEW y \in Consumer, y # c, Holding(deq[y])
       PROVE  /\ q[y] + Held(deq[y]) <= Total'
              /\ Fits(deq[y], q[y], Length, h)
              /\ Apart(deq[y], d, q[y], q[c])
  <2>1. PICK a, k : a = p[y] /\ k = Held(deq[y]) /\ a \in Nat /\ k \in Nat /\ q[y] = a
                    /\ a + k <= t /\ Fits(deq[y], a, Length, h)
    BY <1>2, <1>3, <1>11, <1>12, BeforeStep
  <2>2. a + k <= t + w
    BY <1>3, <2>1
  <2> QED
    BY <1>6, <1>11, <2>1, <2>2 DEF Apart
<1>13. ASSUME NEW y \in Consumer, NEW z \in Consumer, y # z, y # c, z # c,
              Holding(deq[y]), Holding(deq[z])
       PROVE  Apart(deq[y], deq[z], q[y], q[z])
  BY <1>2, <1>11, <1>13, BeforeStep
<1>14. t + w <= Total'
  BY <1>3, <1>6
<1>15. PICK l : l = Length' /\ l \in Nat /\ l = Length
  BY <1>7
<1>16. /\ Holding(d) => q[c] + Held(d) <= Total' /\ Fits(d, q[c], l, h)
       /\ h = headIndex'
  BY <1>3, <1>5, <1>7, <1>10, <1>11, <1>14, <1>15
<1> QED
  BY <1>1, <1>4, <1>11, <1>12, <1>13, <1>15, <1>16, Moved

(* The second look: the reservation keeps its place.                       *)
LEMMA RecheckPlaces ==
  ASSUME Counted, InOrder, NEW c \in Consumer, Recheck(c)
  PROVE  InOrder'
<1>1. PICK d : /\ Becomes(c, d) /\ Counting(d) /\ deq[c].pc = "recheck"
               /\ deq[c].want \in Nat \ {0} /\ deq[c].my \in Index
               /\ Actual(c) \in 0 .. deq[c].want
               /\ \/ /\ Actual(c) < deq[c].want
                     /\ d = [pc |-> "return", count |-> Actual(c),
                             excess |-> deq[c].want - Actual(c)]
                  \/ /\ Actual(c) = deq[c].want
                     /\ d = [pc |-> "claim", count |-> Actual(c)]
  BY RecheckCounts
<1>2. PICK p : Placed(p)
  BY DEF InOrder
<1>3. Holding(deq[c])
  BY <1>1 DEF Holding
<1>4. p[c] \in Nat /\ Fits(deq[c], p[c], Length, headIndex)
  BY <1>2, <1>3, BeforeStep
<1>5. Actual(c) # 0 => p[c] + Actual(c) <= Length
  BY <1>1, <1>4, ActualFits DEF InOrder
<1>6. Fits(d, p[c], Length, headIndex)
  BY <1>1, <1>5 DEF Fits
<1>7. Held(deq[c]) = deq[c].want /\ Held(d) = deq[c].want
  <2>1. PICK w, a : w = deq[c].want /\ a = Actual(c) /\ w \in Nat /\ a \in Nat
    BY <1>1
  <2>2. Held(deq[c]) = w
    BY <1>1, <2>1, CountedFacts, HeldFacts
  <2>3. CASE d = [pc |-> "return", count |-> Actual(c), excess |-> deq[c].want - Actual(c)]
    <3>1. Held(d) = d.count + d.excess
      BY <1>1, <2>3, HeldFacts
    <3>2. a + (w - a) = w
      BY <2>1
    <3> QED
      BY <2>1, <2>2, <2>3, <3>1, <3>2
  <2>4. CASE Actual(c) = deq[c].want /\ d = [pc |-> "claim", count |-> Actual(c)]
    BY <1>1, <2>1, <2>2, <2>4, HeldFacts
  <2> QED
    BY <1>1, <2>3, <2>4
<1>8. UNCHANGED <<setup, headIndex, enqueued>>
  BY DEF Recheck, counters, producer
<1>9. SetupOK'
  BY <1>8, CountedFacts DEF SetupOK
<1>10. Total' = Total
  <2>1. Total' = Total + (Held(d) - Held(deq[c])) /\ Total \in Nat
    BY <1>1, <1>9, TotalChanges
  <2>2. Held(d) - Held(deq[c]) = 0
    BY <1>1, <1>7
  <2> QED
    BY <2>1, <2>2
<1> QED
  BY <1>1, <1>2, <1>3, <1>6, <1>7, <1>8, <1>10, PlacesKept DEF InOrder

(* A call that holds nothing, before or after.                             *)
LEMMA NothingPlaced ==
  ASSUME Counted, InOrder, NEW c \in Consumer, NEW d, Becomes(c, d), Counting(d),
         ~Holding(d), ~Holding(deq[c]), UNCHANGED <<setup, headIndex, enqueued>>
  PROVE  InOrder'
<1>1. PICK p : Placed(p)
  BY DEF InOrder
<1>2. Held(d) = 0 /\ Held(deq[c]) = 0
  BY CountedFacts, HeldFacts DEF Holding
<1>3. SetupOK'
  BY CountedFacts DEF SetupOK
<1>4. Total' = Total
  <2>1. Total' = Total + (Held(d) - Held(deq[c])) /\ Total \in Nat
    BY <1>3, TotalChanges
  <2> QED
    BY <1>2, <2>1
<1> QED
  BY <1>1, <1>2, <1>4, PlacesKept DEF InOrder

(* What is given up was reserved after what the call keeps: the places     *)
(* beyond close up.                                                        *)
LEMMA OvercommitPlaces ==
  ASSUME Counted, InOrder, NEW c \in Consumer, Overcommit(c)
  PROVE  InOrder'
<1>1. PICK d : /\ Becomes(c, d) /\ Counting(d) /\ deq[c].pc = "return"
               /\ deq[c].count \in Nat /\ deq[c].excess \in Nat \ {0}
               /\ \/ d = NoCall /\ deq[c].count = 0
                  \/ d = [pc |-> "claim", count |-> deq[c].count] /\ deq[c].count # 0
  BY OvercommitCounts
<1>2. PICK p : Placed(p)
  BY DEF InOrder
<1>3. PICK w, e, k, h, t, l :
        /\ w = deq[c].count /\ e = deq[c].excess /\ k = Held(deq[c]) /\ h = headIndex /\ t = Total
        /\ l = Length /\ w \in Nat /\ e \in Nat /\ k \in Nat /\ h \in Index /\ t \in Nat
        /\ l \in Nat /\ k = w + e
  BY <1>1, CountedFacts, HoldingFacts, TotalTyped DEF InOrder
<1>4. Holding(deq[c]) /\ e <= k
  BY <1>1, <1>3 DEF Holding
<1>5. Held(d) = w /\ (Holding(d) => d.pc = "claim" /\ d.count = w /\ w # 0)
  <2>1. CASE d = NoCall /\ deq[c].count = 0
    BY <1>1, <1>3, <2>1, HeldFacts DEF NoCall, Holding
  <2>2. CASE d = [pc |-> "claim", count |-> deq[c].count] /\ deq[c].count # 0
    BY <1>1, <1>3, <2>2, HeldFacts
  <2> QED
    BY <1>1, <2>1, <2>2
<1>6. UNCHANGED <<setup, headIndex, enqueued>>
  BY DEF Overcommit, producer
<1>7. SetupOK' /\ l = Length' /\ h = headIndex'
  BY <1>3, <1>6, CountedFacts DEF SetupOK, Length, Off, Minus
<1>8. Total' = t - e
  <2>1. Total' = Total + (Held(d) - Held(deq[c]))
    BY <1>1, <1>7, TotalChanges
  <2>2. Total' = t + (w - k)
    BY <1>3, <1>5, <2>1
  <2>3. t + (w - k) = t - e
    BY <1>3
  <2> QED
    BY <2>2, <2>3
<1>9. PlacedFor(p, deq, t, l, h)
  BY <1>2, <1>3, PlacedMeans
<1> DEFINE q == Closed(p, c, e, k)
<1>10.
         /\ q \in [Consumer -> Nat] /\ q[c] = p[c]
         /\ \A y \in Consumer : y # c /\ Holding(deq[y]) =>
              \/ q[y] = p[y] - e /\ p[c] + k <= p[y]
              \/ q[y] = p[y] /\ p[y] + Held(deq[y]) <= p[c]
         /\ \A y \in Consumer : y # c /\ Holding(deq[y]) => q[y] + Held(deq[y]) <= t - e
         /\ \A y, z \in Consumer :
              y # z /\ y # c /\ z # c /\ Holding(deq[y]) /\ Holding(deq[z]) =>
                Apart(deq[y], deq[z], q[y], q[z])
         /\ \A y \in Consumer : y # c /\ Holding(deq[y]) =>
              \/ q[y] + Held(deq[y]) <= q[c]
              \/ q[c] + (k - e) <= q[y]
  <2>1. k = Held(deq[c]) /\ \A y \in Consumer : Counting(deq[y])
    BY <1>3, CountedFacts
  <2>2. q = Closed(p, c, e, k)
    OBVIOUS
  <2> HIDE DEF q
  <2>3. h \in Index /\ e \in Nat /\ e <= Held(deq[c]) /\ t \in Nat /\ l \in Nat
    BY <1>3, <1>4
  <2>4. ClosedUp(p, deq, t, c, e, k, q)
    BY <1>4, <1>9, <2>1, <2>2, <2>3, ClosedFacts
  <2> QED
    BY <2>4 DEF ClosedUp
<1> HIDE DEF q
<1>11. ASSUME NEW y \in Consumer, y # c, Holding(deq[y])
       PROVE  /\ q[y] + Held(deq[y]) <= Total'
              /\ Fits(deq[y], q[y], l, h)
              /\ Holding(d) => Apart(deq[y], d, q[y], q[c])
  <2>1. q[y] + Held(deq[y]) <= Total'
    BY <1>8, <1>10, <1>11
  <2>2. PICK a, b : a = p[y] /\ b = q[y] /\ a \in Nat /\ b \in Nat /\ Fits(deq[y], a, l, h)
                    /\ Counting(deq[y])
    BY <1>2, <1>3, <1>10, <1>11, BeforeStep
  <2>3. b <= a
    BY <1>3, <1>10, <1>11, <2>2
  <2>4. Fits(deq[y], q[y], l, h)
    BY <1>3, <2>2, <2>3, FitsLower
  <2>5. k - e = w
    BY <1>3
  <2>6. Apart(deq[y], d, q[y], q[c])
    BY <1>5, <1>10, <1>11, <2>5 DEF Apart
  <2> QED
    BY <2>1, <2>4, <2>6
<1>12. Holding(d) => q[c] + Held(d) <= Total' /\ Fits(d, q[c], l, h)
  <2>1. SUFFICES ASSUME Holding(d) PROVE q[c] + w <= Total' /\ Fits(d, q[c], l, h)
    BY <1>5
  <2>2. PICK b : b = q[c] /\ b = p[c] /\ b \in Nat /\ b + k <= t /\ Fits(deq[c], b, l, h)
    BY <1>2, <1>3, <1>4, <1>10, BeforeStep
  <2>3. b + w <= t - e
    BY <1>3, <2>2
  <2>4. b + w <= l
    BY <1>1, <1>3, <1>5, <2>1, <2>2 DEF Fits
  <2>5. Fits(d, b, l, h)
    BY <1>5, <2>1, <2>4 DEF Fits
  <2> QED
    BY <1>8, <2>2, <2>3, <2>5
<1> QED
  BY <1>1, <1>3, <1>7, <1>10, <1>11, <1>12, Moved

(* What a call claims is there.                                            *)
LEMMA ClaimIsThere ==
  ASSUME Counted, InOrder, NEW c \in Consumer, deq[c].pc = "claim"
  PROVE  deq[c].count \in Nat \ {0} /\ deq[c].count <= Length
<1>1. PICK p : Placed(p)
  BY DEF InOrder
<1>2. PICK w, a, l : w = deq[c].count /\ a = p[c] /\ w \in Nat \ {0} /\ a \in Nat
                     /\ l = Length /\ l \in Nat
  BY <1>1, CountedFacts, BeforeStep DEF Counting, InOrder
<1>3. a + w <= l
  BY <1>1, <1>2, BeforeStep DEF Holding, Fits
<1> QED
  BY <1>2, <1>3

LEMMA HeadMoves ==
  ASSUME Counted, InOrder, NEW n \in Nat, n <= Length, headIndex' = Plus(headIndex, n),
         UNCHANGED <<setup, enqueued>>
  PROVE  Off(headIndex)' = Off(headIndex) + n /\ Length' = Length - n
<1>1. PICK f, l, k : /\ f = Off(headIndex) /\ l = Length /\ k = enqueued /\ f \in Nat /\ l \in Nat
                     /\ k \in Nat /\ f + l = k /\ k < Modulus /\ headIndex = Idx(f)
                     /\ Modulus \in Nat /\ Index = 0 .. Modulus - 1
  BY LengthFacts, CountedFacts DEF InOrder, Index
<1>2. f + n \in Index /\ f \in Int /\ n \in Int
  BY <1>1
<1>3. headIndex' = Idx(f + n)
  <2>1. SetupOK
    BY CountedFacts
  <2> QED
    BY <1>1, <1>2, <2>1, OffsetFacts
<1>4. Off(headIndex)' = f + n
  <2>1. Off(headIndex)' = Off(headIndex')
    BY DEF Off, Minus
  <2> QED
    BY <1>2, <1>3, <2>1, CountedFacts, OffsetFacts
<1>5. Length' = k - (f + n)
  BY <1>1, <1>4 DEF Length
<1>6. k - (f + n) = l - n
  BY <1>1
<1> QED
  BY <1>1, <1>4, <1>5, <1>6

(* The claim takes the first elements that are there, wherever the place   *)
(* of the call is: the places before it stay, those beyond come nearer.    *)
LEMMA ClaimPlaces ==
  ASSUME Counted, InOrder, NEW c \in Consumer, Claim(c)
  PROVE  InOrder'
<1>1. PICK d : /\ Becomes(c, d) /\ Counting(d) /\ deq[c].pc = "claim"
               /\ deq[c].count \in Nat \ {0}
               /\ d = [pc |-> "header", at |-> headIndex,
                       end |-> Plus(headIndex, deq[c].count), got |-> <<>>]
  BY ClaimCounts
<1>2. PICK p : Placed(p)
  BY DEF InOrder
<1>3. PICK w, h, g, t, l :
        /\ w = deq[c].count /\ h = headIndex /\ g = headIndex' /\ t = Total /\ l = Length
        /\ w \in Nat \ {0} /\ h \in Index /\ t \in Nat /\ l \in Nat
        /\ w = Held(deq[c]) /\ w <= l
  BY <1>1, CountedFacts, HoldingFacts, TotalTyped, ClaimIsThere DEF InOrder
<1>4. Holding(deq[c]) /\ ~Holding(d) /\ Held(d) = 0
  BY <1>1, HeldFacts DEF Holding
<1>5. UNCHANGED <<setup, enqueued>> /\ g = Plus(h, w)
  BY <1>3 DEF Claim, producer
<1>6. SetupOK' /\ Length' = l - w /\ g \in Index /\ l - w \in Nat
  <2>1. w \in Int /\ h \in Int
    BY <1>3, CountedFacts
  <2>2. g \in Index
    BY <1>5, <2>1, CountedFacts, IndexTyped
  <2>3. SetupOK'
    BY <1>5, CountedFacts DEF SetupOK
  <2>4. Length' = l - w
    BY <1>3, <1>5, HeadMoves
  <2> QED
    BY <1>3, <2>2, <2>3, <2>4
<1>8. Total' = t - w
  <2>1. Total' = Total + (Held(d) - Held(deq[c]))
    BY <1>1, <1>6, TotalChanges
  <2>2. Total' = t + (0 - w)
    BY <1>3, <1>4, <2>1
  <2> QED
    BY <1>3, <2>2
<1>9. PlacedFor(p, deq, t, l, h)
  BY <1>2, <1>3, PlacedMeans
<1>7. PICK held : held = w /\ held = Held(deq[c])
  BY <1>3
<1> DEFINE q == Closed(p, c, w, held)
<1>10.
         /\ q \in [Consumer -> Nat] /\ q[c] = p[c]
         /\ \A y \in Consumer : y # c /\ Holding(deq[y]) =>
              \/ q[y] = p[y] - w /\ p[c] + held <= p[y]
              \/ q[y] = p[y] /\ p[y] + Held(deq[y]) <= p[c]
         /\ \A y \in Consumer : y # c /\ Holding(deq[y]) => q[y] + Held(deq[y]) <= t - w
         /\ \A y, z \in Consumer :
              y # z /\ y # c /\ z # c /\ Holding(deq[y]) /\ Holding(deq[z]) =>
                Apart(deq[y], deq[z], q[y], q[z])
         /\ \A y \in Consumer : y # c /\ Holding(deq[y]) =>
              \/ q[y] + Held(deq[y]) <= q[c]
              \/ q[c] + (held - w) <= q[y]
  <2>1. held = Held(deq[c]) /\ \A y \in Consumer : Counting(deq[y])
    BY <1>7, CountedFacts
  <2>2. q = Closed(p, c, w, held)
    OBVIOUS
  <2> HIDE DEF q
  <2>3. h \in Index /\ w \in Nat /\ w <= Held(deq[c]) /\ t \in Nat /\ l \in Nat
    BY <1>3
  <2>4. Holding(deq[c])
    BY <1>4
  <2>5. ClosedUp(p, deq, t, c, w, held, q)
    BY <1>9, <2>1, <2>2, <2>3, <2>4, ClosedFacts
  <2> QED
    BY <2>5 DEF ClosedUp
<1> HIDE DEF q
<1>11. ASSUME NEW y \in Consumer, y # c, Holding(deq[y])
       PROVE  q[y] + Held(deq[y]) <= Total' /\ Fits(deq[y], q[y], l - w, g)
  <2>1. q[y] + Held(deq[y]) <= Total'
    BY <1>8, <1>10, <1>11
  <2>2. PICK a, b, k : /\ a = p[y] /\ b = p[c] /\ k = Held(deq[y]) /\ a \in Nat /\ b \in Nat
                       /\ k \in Nat /\ Counting(deq[y])
                       /\ Fits(deq[y], a, l, h) /\ Fits(deq[c], b, l, h)
    BY <1>2, <1>3, <1>4, <1>11, BeforeStep
  <2>3. b + w <= l
    BY <1>1, <1>3, <2>2 DEF Fits
  <2>4. CASE q[y] = a - w /\ b + w <= a
    <3>1. w <= a /\ w \in Nat /\ w <= l /\ l \in Nat /\ h \in Index
      BY <1>3, <2>2, <2>4
    <3>2. Fits(deq[y], a - w, l - w, g)
      BY <1>5, <1>6, <2>2, <3>1, FitsClaim
    <3> QED
      BY <2>1, <2>4, <3>2
  <2>5. CASE q[y] = a /\ a + k <= b
    <3>1. a + k <= l - w
      BY <1>3, <2>2, <2>3, <2>5
    <3>2. Fits(deq[y], a, l - w, g)
      BY <1>6, <2>2, <3>1, FitsAhead
    <3> QED
      BY <2>1, <2>5, <3>2
  <2>6. (q[y] = a - w /\ b + w <= a) \/ (q[y] = a /\ a + k <= b)
    BY <1>7, <1>10, <1>11, <2>2
  <2> QED
    BY <2>1, <2>4, <2>5, <2>6
<1>12. PICK ll : ll = l - w /\ ll \in Nat /\ ll = Length'
  BY <1>6
<1> QED
  BY <1>1, <1>3, <1>4, <1>6, <1>10, <1>11, <1>12, Moved

(* More elements make room for the same places.                            *)
LEMMA LongerPlaces ==
  ASSUME Counted, InOrder, UNCHANGED <<setup, headIndex, deq>>, NEW n \in Nat,
         enqueued' = enqueued + n
  PROVE  InOrder'
<1>1. PICK p : Placed(p)
  BY DEF InOrder
<1>2. PICK l : l = Length /\ l \in Nat /\ Length' = l + n
  <2>1. PICK f, k, l : /\ f = Off(headIndex) /\ k = enqueued /\ l = Length /\ l \in Nat
                       /\ f \in Nat /\ k \in Nat /\ l = k - f
    BY LengthFacts DEF InOrder, Length
  <2>2. Length' = (k + n) - f
    BY <2>1 DEF Length, Off, Minus
  <2> QED
    BY <2>1, <2>2
<1>3. Total' = Total
  BY TotalKept
<1>4. ASSUME NEW y \in Consumer, Holding(deq[y])
      PROVE  Fits(deq[y], p[y], l + n, headIndex)
  <2>1. PICK a, k : /\ a = p[y] /\ k = Held(deq[y]) /\ a \in Nat /\ k \in Nat /\ Counting(deq[y])
                    /\ Fits(deq[y], a, l, headIndex)
    BY <1>1, <1>2, <1>4, BeforeStep
  <2>2. CASE deq[y].pc = "recheck"
    <3>1. PICK w : w = deq[y].want /\ w \in Nat
      BY <2>1, <2>2 DEF Counting
    <3>2. a + w <= l => a + w <= l + n
      BY <1>2, <2>1, <3>1
    <3> QED
      BY <2>1, <2>2, <3>1, <3>2 DEF Fits
  <2>3. CASE deq[y].pc # "recheck"
    <3>1. PICK w : w = deq[y].count /\ w \in Nat
      BY <1>4, <2>1, <2>3 DEF Counting, Holding
    <3>2. a + w <= l => a + w <= l + n
      BY <1>2, <2>1, <3>1
    <3> QED
      BY <2>1, <2>3, <3>1, <3>2 DEF Fits
  <2> QED
    BY <2>2, <2>3
<1>5. PlacedFor(p, deq', Total', Length', headIndex')
  BY <1>1, <1>2, <1>3, <1>4 DEF Placed, PlacedFor
<1>6. Length' \in Nat
  BY <1>2
<1> QED
  BY <1>5, <1>6, PlacedMeans DEF InOrder

LEMMA InOrderInit == ASSUME Init PROVE InOrder
<1>1. Counted
  BY CountedInit
<1>2. headIndex = setup.start /\ enqueued = 0 /\ deq = [c \in Consumer |-> NoCall]
  <2>1. CASE Implicit!Init
    BY <2>1 DEF Implicit!Init, Implicit!InitBase, Implicit!NoCall, NoCall
  <2>2. CASE Explicit!Init
    BY <2>2 DEF Explicit!Init, Explicit!InitBase, Explicit!NoCall, NoCall
  <2> QED
    BY <2>1, <2>2 DEF Init
<1>3. Off(headIndex) = 0
  <2>1. PICK z : z = setup.start /\ z \in Index /\ z \in Int
    BY <1>1, CountedFacts, SetupFacts
  <2>2. Minus(z, z) = z - z
    BY <1>1, <2>1, CountedFacts, MinusOfIndex
  <2> QED
    BY <1>2, <2>1, <2>2 DEF Off
<1>4. Length = 0
  BY <1>2, <1>3 DEF Length
<1>5. \A c \in Consumer : ~Holding(deq[c])
  BY <1>2 DEF Holding, NoCall
<1>6. Placed([c \in Consumer |-> 0])
  BY <1>5 DEF Placed
<1> QED
  BY <1>4, <1>6 DEF InOrder

LEMMA InOrderNext ==
  ASSUME Counted, AddsUp, InOrder, NotTooStale, [Next]_vars
  PROVE  InOrder'
<1>1. ASSUME NEW c \in Consumer, Counts(c) PROVE InOrder'
  <2>1. ASSUME NEW max \in setup.dequeue, Dequeue(c, max) PROVE InOrder'
    <3>1. PICK d : /\ Becomes(c, d) /\ Counting(d) /\ deq[c].pc = "idle"
                   /\ d = [pc |-> "overcommit", max |-> max, tail |-> tailIndex]
      BY <2>1, DequeueCounts
    <3> QED
      BY <2>1, <3>1, NothingPlaced DEF Dequeue, counters, producer, Holding
  <2>2. ASSUME NEW d, Looks(c, d) PROVE InOrder'
    BY <2>2, NothingPlaced DEF Looks, Becomes, counters, producer, Holding, LookingPcs
  <2>3. CASE LoadOvercommit(c)
    <3>1. PICK d : /\ Becomes(c, d) /\ Counting(d) /\ deq[c].pc = "overcommit"
                   /\ d = [pc |-> "optimistic", max |-> deq[c].max, tail |-> deq[c].tail,
                           over |-> dequeueOvercommit]
      BY <2>3, LoadOvercommitCounts
    <3> QED
      BY <2>3, <3>1, NothingPlaced DEF LoadOvercommit, counters, producer, Holding
  <2>4. CASE TestOptimistic(c)
    <3>1. PICK d : /\ Becomes(c, d) /\ Counting(d) /\ deq[c].pc = "optimistic"
                   /\ \/ d = NoCall
                      \/ \E want : d = [pc |-> "reserve", over |-> deq[c].over, want |-> want]
      BY <2>4, TestOptimisticCounts
    <3> QED
      BY <2>4, <3>1, NothingPlaced DEF TestOptimistic, counters, producer, Holding, NoCall
  <2> QED
    BY <1>1, <2>1, <2>2, <2>3, <2>4, ReservePlaces, RecheckPlaces, OvercommitPlaces, ClaimPlaces
       DEF Counts, Count
<1>2. CASE Produces
  <2>1. CASE UNCHANGED enqueued
    <3>1. enqueued' = enqueued + 0
      BY <2>1, CountedFacts
    <3> QED
      BY <1>2, <3>1, LongerPlaces DEF Produces
  <2>2. CASE enq.pc = "publish" /\ enqueued' = enqueued + enq.n
    <3>1. enq.n \in Nat
      BY <2>2, CountedFacts, SetupFacts DEF Counted, Enqueuing
    <3> QED
      BY <1>2, <2>2, <3>1, LongerPlaces DEF Produces
  <2> QED
    BY <1>2, <2>1, <2>2 DEF Produces
<1>3. CASE Destroy \/ UNCHANGED vars
  <2>1. UNCHANGED <<setup, headIndex, deq>> /\ enqueued' = enqueued + 0
    BY <1>3, CountedFacts DEF Destroy, vars, counters, producer
  <2> QED
    BY <2>1, LongerPlaces
<1> QED
  BY <1>1, <1>2, <1>3, StepCases

(* The head never passes the tail, and no call is granted elements that    *)
(* are not there: the reservations lie one after the other, and what is    *)
(* granted of them is before the tail.  This holds as long as no call is   *)
(* delayed between its reads of the two counts by half of all counts.      *)
THEOREM NobodyPassesTheTail == Spec /\ []NotTooStale => []InOrder
<1>1. Init => Counted /\ AddsUp /\ InOrder
  BY CountedInit, AddUpMeans, InOrderInit
<1>2. (Counted /\ AddsUp /\ InOrder) /\ NotTooStale /\ [Next]_vars
        => (Counted /\ AddsUp /\ InOrder)'
  BY CountedNext, InOrderNext
<1> QED
  BY <1>1, <1>2, PTL DEF Spec

-----------------------------------------------------------------------------
(* Blocks of elements.                                                     *)
LEMMA DivFacts ==
  ASSUME NEW b \in Nat \ {0}, NEW x \in Int
  PROVE  /\ x \div b \in Int /\ x % b \in 0 .. b - 1 /\ (x \div b) * b \in Int
         /\ x = (x \div b) * b + (x % b)
         /\ (x \div b) * b <= x /\ x < (x \div b) * b + b
<1>1. PICK q, r : q = x \div b /\ r = x % b /\ q \in Int /\ r \in 0 .. b - 1 /\ x = b * q + r
  BY ModFacts, ZenonT(40)
<1>2. q * b = b * q /\ q * b \in Int
  BY <1>1
<1> QED
  BY <1>1, <1>2

LEMMA MulStep ==
  ASSUME NEW b \in Nat \ {0}, NEW m \in Int, NEW n \in Int
  PROVE  /\ m * b \in Int /\ n * b \in Int
         /\ (m + 1) * b = m * b + b /\ (m - 1) * b = m * b - b
         /\ (m + n) * b = m * b + n * b /\ (m - n) * b = m * b - n * b
         /\ m < n => m * b + b <= n * b
         /\ m <= n => m * b <= n * b
<1>1. m * b \in Int /\ n * b \in Int
  OBVIOUS
<1>2. /\ (m + 1) * b = m * b + b /\ (m - 1) * b = m * b - b
      /\ (m + n) * b = m * b + n * b /\ (m - n) * b = m * b - n * b
  OBVIOUS
<1>3. \A d \in Nat : (m + d) * b = m * b + d * b /\ d * b >= 0
  OBVIOUS
<1>4. ASSUME m <= n PROVE m * b <= n * b
  <2>1. PICK d \in Nat : n = m + d
    BY <1>4
  <2> QED
    BY <1>1, <1>3, <2>1
<1>5. ASSUME m < n PROVE m * b + b <= n * b
  <2>1. PICK d \in Nat : n = (m + 1) + d
    BY <1>5
  <2>2. ((m + 1) + d) * b = (m + 1) * b + d * b /\ d * b >= 0 /\ d * b \in Int
    OBVIOUS
  <2> QED
    BY <1>1, <1>2, <2>1, <2>2
<1> QED
  BY <1>1, <1>2, <1>4, <1>5

LEMMA DivIs ==
  ASSUME NEW b \in Nat \ {0}, NEW x \in Int, NEW m \in Int, m * b <= x, x < m * b + b
  PROVE  x \div b = m /\ x % b = x - m * b
<1>1. PICK q, r, y, w : q = x \div b /\ r = x % b /\ q \in Int /\ r \in 0 .. b - 1
                  /\ y = q * b /\ y \in Int /\ x = y + r /\ w = m * b /\ w \in Int
  <2>1. m * b \in Int
    OBVIOUS
  <2> QED
    BY <2>1, DivFacts
<1>2. q = m
  <2>1. q < m => y + b <= w
    BY <1>1, MulStep
  <2>2. m < q => w + b <= y
    BY <1>1, MulStep
  <2> QED
    BY <1>1, <2>1, <2>2
<1> QED
  BY <1>1, <1>2

LEMMA DivMono ==
  ASSUME NEW b \in Nat \ {0}, NEW x \in Int, NEW y \in Int, x <= y
  PROVE  x \div b <= y \div b
<1>1. PICK q, v, r, w : q = x \div b /\ v = y \div b /\ q \in Int /\ v \in Int
                  /\ r = q * b /\ w = v * b /\ r \in Int /\ w \in Int
                  /\ r <= x /\ y < w + b
  BY DivFacts
<1>2. v < q => w + b <= r
  BY <1>1, MulStep
<1> QED
  BY <1>1, <1>2

(* Remainders.                                                             *)
LEMMA ModZero ==
  ASSUME NEW m \in Nat \ {0}, NEW a \in Int, NEW b \in Int
  PROVE  /\ a % m = b % m <=> (a - b) % m = 0
         /\ (a - b) % m = 0 <=> \E q \in Int : a = b + m * q
<1>1. ASSUME (a - b) % m = 0 PROVE \E q \in Int : a = b + m * q
  <2>1. PICK q \in Int : a - b = m * q + 0
    <3>1. a - b \in Int
      OBVIOUS
    <3> QED
      BY <1>1, <3>1, ModFacts
  <2>2. m * q \in Int
    OBVIOUS
  <2>3. a = b + m * q
    BY <2>1, <2>2
  <2> QED
    BY <2>3
<1>2. ASSUME NEW q \in Int, a = b + m * q PROVE a % m = b % m /\ (a - b) % m = 0
  <2>1. m * q + b = a /\ a - b = m * q + 0 /\ m * q \in Int
    BY <1>2
  <2>2. (m * q + b) % m = b % m
    BY ModShift
  <2>3. (m * q + 0) % m = 0
    BY ModUnique
  <2> QED
    BY <2>1, <2>2, <2>3
<1>3. ASSUME a % m = b % m PROVE \E q \in Int : a = b + m * q
  <2>1. PICK r, x, y : x = a \div m /\ y = b \div m /\ r = a % m /\ x \in Int /\ y \in Int
                       /\ r \in Int /\ a = m * x + r /\ b = m * y + r
    <3>1. a = m * (a \div m) + (a % m) /\ a \div m \in Int /\ a % m \in Int
      OBVIOUS
    <3>2. b = m * (b \div m) + (b % m) /\ b \div m \in Int
      OBVIOUS
    <3> QED
      BY <1>3, <3>1, <3>2
  <2>2. m * (x - y) = m * x - m * y /\ m * x \in Int /\ m * y \in Int /\ x - y \in Int
    BY <2>1
  <2>3. a = b + m * (x - y)
    BY <2>1, <2>2
  <2> QED
    BY <2>2, <2>3
<1> QED
  BY <1>1, <1>2, <1>3

LEMMA ModNear ==
  ASSUME NEW m \in Nat \ {0}, NEW a \in Int, NEW b \in Int, (a - b) % m = 0,
         a - b < m, b - a < m
  PROVE  a = b
<1>1. PICK q \in Int : a = b + m * q
  BY ModZero
<1>2. PICK y : y = m * q /\ y \in Int /\ y = q * m
  OBVIOUS
<1>3. q < 0 => y + m <= 0
  BY <1>2, MulStep
<1>4. 0 < q => m <= y
  BY <1>2, MulStep
<1> QED
  BY <1>1, <1>2, <1>3, <1>4

(* The sizes: an index counts whole pairs of blocks, and the blocks that a *)
(* block index has room for take up half of its values at most.            *)
Half == Modulus \div 2
LEMMA SetupMore ==
  ASSUME SetupOK
  PROVE  /\ BLOCK_SIZE \in Nat \ {0} /\ BLOCK_SIZE > 1 /\ Modulus \in Nat \ {0}
         /\ Half \in Nat /\ Modulus = 2 * Half /\ BLOCK_SIZE <= Half
         /\ \E q \in Int : Modulus = q * BLOCK_SIZE
         /\ \E q \in Int : setup.start = q * BLOCK_SIZE
         /\ setup.indexSize \in Nat \ {0} /\ setup.indexSize * BLOCK_SIZE <= Half
         /\ INITIAL_INDEX_SIZE \in Nat \ {0} /\ INITIAL_INDEX_SIZE <= setup.indexSize
         /\ setup.elements \in Nat /\ setup.elements <= Modulus - BLOCK_SIZE
         /\ setup.start \in Index /\ setup.start \in Int
<1>1. PICK b, m : /\ b = BLOCK_SIZE /\ m = Modulus /\ b \in Nat \ {0} /\ b > 1 /\ m \in Nat \ {0}
                  /\ m % (2 * b) = 0
  BY ProducerBaseAssumption, SetupFacts
<1>2. /\ setup.start \in 0 .. Modulus - 1 /\ setup.start % BLOCK_SIZE = 0
      /\ setup.indexSize \in Nat /\ setup.indexSize >= INITIAL_INDEX_SIZE
      /\ setup.indexSize * BLOCK_SIZE <= Modulus \div 2
      /\ setup.elements \in 0 .. Modulus - BLOCK_SIZE /\ INITIAL_INDEX_SIZE \in Nat \ {0}
  BY ProducerBaseAssumption DEF SetupOK
<1>3. PICK q \in Int : m = (2 * b) * q
  <2>1. PICK d : d = 2 * b /\ d \in Nat \ {0} /\ m \in Int /\ m % d = 0
    BY <1>1
  <2>2. m = d * (m \div d) + (m % d) /\ m \div d \in Int
    BY <2>1, ModFacts
  <2>3. d * (m \div d) \in Int
    BY <2>1, <2>2
  <2>4. m = d * (m \div d)
    BY <2>1, <2>2, <2>3
  <2> QED
    BY <2>1, <2>2, <2>4
<1>4. PICK y : y = q * b /\ y \in Int /\ m = 2 * y
  <2>1. (2 * b) * q = 2 * (q * b) /\ q * b \in Int
    BY <1>1
  <2> QED
    BY <1>3, <2>1
<1>5. m \div 2 = y /\ y \in Nat
  BY <1>1, <1>4
<1>6. b <= y
  <2>1. q <= 0 => y <= 0
    <3>1. q <= 0 => q * b <= 0 * b /\ 0 * b = 0
      BY <1>1, MulStep
    <3> QED
      BY <1>4, <3>1
  <2>2. 0 < q => b <= y
    <3>1. 0 < q => 0 * b + b <= q * b /\ 0 * b = 0
      BY <1>1, MulStep
    <3> QED
      BY <1>1, <1>4, <3>1
  <2> QED
    BY <1>1, <1>4, <2>1, <2>2
<1>7. \E p \in Int : m = p * b
  <2>1. (q + q) * b = q * b + q * b /\ q + q \in Int
    BY <1>1, MulStep
  <2>2. m = (q + q) * b
    BY <1>4, <2>1
  <2> QED
    BY <2>1, <2>2
<1>8. \E p \in Int : setup.start = p * b
  <2>1. PICK s : s = setup.start /\ s \in Int /\ s % b = 0
    BY <1>1, <1>2
  <2>2. s = (s \div b) * b + 0 /\ s \div b \in Int /\ (s \div b) * b \in Int
    BY <1>1, <2>1, DivFacts
  <2> QED
    BY <2>1, <2>2
<1>9. /\ Half \in Nat /\ Modulus = 2 * Half /\ BLOCK_SIZE <= Half
      /\ setup.indexSize * BLOCK_SIZE <= Half
  BY <1>1, <1>2, <1>4, <1>5, <1>6 DEF Half
<1>10. /\ setup.indexSize \in Nat \ {0} /\ setup.start \in Index /\ setup.start \in Int
       /\ setup.elements \in Nat /\ setup.elements <= Modulus - BLOCK_SIZE
  <2>1. setup.start \in Index /\ setup.start \in Int
    BY <1>2 DEF Index
  <2>2. setup.indexSize \in Nat \ {0}
    BY <1>2
  <2>3. setup.elements \in Nat /\ setup.elements <= Modulus - BLOCK_SIZE
    BY <1>1, <1>2
  <2> QED
    BY <2>1, <2>2, <2>3
<1> QED
  BY <1>1, <1>2, <1>7, <1>8, <1>9, <1>10

LEMMA IdxBlock ==
  ASSUME SetupOK, NEW x \in Int
  PROVE  /\ Idx(x) % BLOCK_SIZE = x % BLOCK_SIZE
         /\ BlockBase(Idx(x)) = Idx((x \div BLOCK_SIZE) * BLOCK_SIZE)
<1>1. PICK b, m, s, i : /\ b = BLOCK_SIZE /\ m = Modulus /\ s = setup.start /\ i = Idx(x)
                     /\ b \in Nat \ {0} /\ m \in Nat \ {0} /\ s \in Int /\ i \in Int
                     /\ 0 <= i /\ i < m
  <2>1. Idx(x) \in 0 .. Modulus - 1
    BY OffsetFacts DEF Index
  <2> QED
    BY <2>1, SetupMore
<1>2. PICK mq, sq \in Int : m = mq * b /\ s = sq * b
  BY <1>1, SetupMore
<1>3. PICK t \in Int : i = (s + x) - m * t
  <2>1. i = (s + x) % m /\ s + x \in Int
    BY <1>1 DEF Idx, Plus
  <2>2. s + x = m * ((s + x) \div m) + i /\ (s + x) \div m \in Int
    BY <1>1, <2>1, ModFacts, ZenonT(40)
  <2>3. m * ((s + x) \div m) \in Int
    BY <1>1, <2>2
  <2>4. i = (s + x) - m * ((s + x) \div m)
    BY <1>1, <2>2, <2>3
  <2> QED
    BY <2>2, <2>4
<1>4. PICK q, r, y : q = x \div b /\ r = x % b /\ q \in Int /\ r \in 0 .. b - 1
                     /\ y = q * b /\ y \in Int /\ x = y + r
  <2>1. /\ x \div b \in Int /\ x % b \in 0 .. b - 1 /\ (x \div b) * b \in Int
        /\ x = (x \div b) * b + (x % b)
    BY <1>1, DivFacts
  <2> QED
    BY <2>1
<1>5. PICK p \in Int : s + y - m * t = p * b /\ p * b \in Int
  <2>1. (sq + q) * b = s + y /\ sq + q \in Int
    BY <1>1, <1>2, <1>4, MulStep
  <2>2. PICK u \in Int : u * b = m * t
    <3>1. mq * t \in Int /\ (mq * t) * b = m * t
      BY <1>1, <1>2
    <3> QED
      BY <3>1
  <2>3. PICK w \in Int : w * b = s + y
    BY <2>1
  <2>4. (w - u) * b = w * b - u * b /\ (w - u) * b \in Int /\ w - u \in Int
    BY <1>1, MulStep
  <2>5. (w - u) * b = s + y - m * t
    <3>1. u * b \in Int /\ w * b \in Int /\ m * t \in Int
      BY <1>1
    <3> QED
      BY <1>1, <1>4, <2>2, <2>3, <2>4, <3>1
  <2> QED
    BY <2>4, <2>5
<1>6. i = p * b + r
  <2>1. m * t \in Int
    BY <1>1
  <2> QED
    BY <1>1, <1>3, <1>4, <1>5, <2>1
<1>7. i \div b = p /\ i % b = r
  <2>1. p * b <= i /\ i < p * b + b /\ i - p * b = r
    BY <1>1, <1>4, <1>5, <1>6
  <2>2. i \div b = p /\ i % b = i - p * b
    BY <1>1, <2>1, DivIs
  <2> QED
    BY <2>1, <2>2
<1>8. i - r = Idx(y)
  <2>1. i - r \in Index
    <3>1. 0 <= p
      <4>1. p < 0 => p * b + b <= 0 * b /\ 0 * b = 0
        BY <1>1, MulStep
      <4> QED
        BY <1>1, <1>4, <1>5, <1>6, <4>1
    <3>2. 0 <= p * b
      <4>1. 0 * b <= p * b /\ 0 * b = 0
        BY <1>1, <3>1, MulStep
      <4> QED
        BY <4>1
    <3> QED
      BY <1>1, <1>4, <1>5, <1>6, <3>2 DEF Index
  <2>2. s + y = m * t + (i - r) /\ m * t \in Int
    BY <1>1, <1>3, <1>4
  <2>3. (m * t + (i - r)) % m = i - r
    BY <1>1, <2>1, SmallMod
  <2> QED
    BY <1>1, <2>2, <2>3 DEF Idx, Plus
<1> QED
  BY <1>1, <1>4, <1>7, <1>8 DEF BlockBase

(* The distance of two blocks that are not too far from each other.        *)
Near(m, n) == (m - n) * BLOCK_SIZE < Half /\ -Half <= (m - n) * BLOCK_SIZE

LEMMA OffsetIs ==
  ASSUME SetupOK, NEW m \in Int, NEW n \in Int, Near(m, n)
  PROVE  Offset(Idx(m * BLOCK_SIZE), Idx(n * BLOCK_SIZE)) = m - n
<1>1. PICK b, w, v : /\ b = BLOCK_SIZE /\ v = Half /\ b \in Nat \ {0} /\ v \in Nat
                     /\ Modulus = 2 * v /\ w = (m - n) * b /\ w \in Int /\ w < v /\ -v <= w
                     /\ m * b \in Int /\ n * b \in Int /\ m * b - n * b = w
  <2>1. BLOCK_SIZE \in Nat \ {0} /\ Half \in Nat /\ Modulus = 2 * Half
    BY SetupMore
  <2>2. /\ m * BLOCK_SIZE \in Int /\ n * BLOCK_SIZE \in Int
        /\ (m - n) * BLOCK_SIZE = m * BLOCK_SIZE - n * BLOCK_SIZE
    BY <2>1, MulStep
  <2> QED
    BY <2>1, <2>2 DEF Near
<1>2. PICK d : d = Minus(Idx(m * b), Idx(n * b)) /\ d = w % (2 * v) /\ d \in Int
  <2>1. Minus(Idx(m * b), Idx(n * b)) = (m * b - n * b) % Modulus
    BY <1>1, OffsetFacts
  <2>2. w % (2 * v) \in Int
    BY <1>1
  <2> QED
    BY <1>1, <2>1, <2>2
<1>3. (IF d < v THEN d ELSE d - 2 * v) = w
  <2>1. CASE 0 <= w
    <3>1. w \in Index
      BY <1>1, <2>1 DEF Index
    <3>2. w % Modulus = w
      BY <3>1, SmallMod
    <3> QED
      BY <1>1, <1>2, <3>2
  <2>2. CASE w < 0
    <3>1. w + Modulus \in Index
      BY <1>1, <2>2 DEF Index
    <3>2. ((w + Modulus) - Modulus) % Modulus = w + Modulus
      BY <3>1, SmallMod
    <3>3. (w + Modulus) - Modulus = w
      BY <1>1
    <3> QED
      BY <1>1, <1>2, <2>2, <3>2, <3>3
  <2> QED
    BY <1>1, <2>1, <2>2
<1>4. w \div b = m - n
  <2>1. m - n \in Int /\ (m - n) * b <= w /\ w < (m - n) * b + b
    BY <1>1
  <2> QED
    BY <1>1, <2>1, DivIs
<1>5. Offset(Idx(m * b), Idx(n * b)) = (IF d < v THEN d ELSE d - 2 * v) \div b
  BY <1>1, <1>2 DEF Offset, Half
<1> QED
  BY <1>1, <1>3, <1>4, <1>5

(* The elements from a to e that are in the block of a.                    *)
StopAt(a, e) ==
  IF e < (a \div BLOCK_SIZE) * BLOCK_SIZE + BLOCK_SIZE THEN e
  ELSE (a \div BLOCK_SIZE) * BLOCK_SIZE + BLOCK_SIZE

LEMMA StopAtFacts ==
  ASSUME SetupOK, NEW a \in Int, NEW e \in Int, a < e
  PROVE  /\ StopAt(a, e) \in Int /\ a < StopAt(a, e) /\ StopAt(a, e) <= e
         /\ StopAt(a, e) <= (a \div BLOCK_SIZE) * BLOCK_SIZE + BLOCK_SIZE
         /\ StopAt(a, e) - a <= BLOCK_SIZE
         /\ StopAt(a, e) = e \/ StopAt(a, e) = (a \div BLOCK_SIZE) * BLOCK_SIZE + BLOCK_SIZE
<1>1. PICK b, y : /\ b = BLOCK_SIZE /\ y = (a \div b) * b /\ b \in Nat \ {0}
                  /\ y \in Int /\ y <= a /\ a < y + b
  <2>1. BLOCK_SIZE \in Nat \ {0}
    BY SetupMore
  <2> QED
    BY <2>1, DivFacts
<1> QED
  BY <1>1 DEF StopAt

LEMMA StopIs ==
  ASSUME SetupOK, NEW a \in Int, NEW e \in Int, a < e,
         e <= (a \div BLOCK_SIZE) * BLOCK_SIZE + BLOCK_SIZE + Half
  PROVE  StopIndex(Idx(a), Idx(e)) = Idx(StopAt(a, e))
<1>1. PICK b, y, v : /\ b = BLOCK_SIZE /\ y = (a \div b) * b /\ b \in Nat \ {0} /\ v = Half
                     /\ y \in Int /\ y <= a /\ a < y + b /\ v \in Nat /\ b <= v
                     /\ Modulus = 2 * v /\ e <= y + b + v
  <2>1. BLOCK_SIZE \in Nat \ {0} /\ Half \in Nat /\ Modulus = 2 * Half /\ BLOCK_SIZE <= Half
    BY SetupMore
  <2>2. /\ (a \div BLOCK_SIZE) * BLOCK_SIZE \in Int /\ (a \div BLOCK_SIZE) * BLOCK_SIZE <= a
        /\ a < (a \div BLOCK_SIZE) * BLOCK_SIZE + BLOCK_SIZE
    BY <2>1, DivFacts
  <2> QED
    BY <2>1, <2>2
<1>2. Plus(BlockBase(Idx(a)), b) = Idx(y + b)
  <2>1. BlockBase(Idx(a)) = Idx(y)
    BY <1>1, IdxBlock
  <2> QED
    BY <1>1, <2>1, OffsetFacts
<1>3. Minus(Idx(e), Idx(y + b)) = (e - (y + b)) % Modulus
  <2>1. y + b \in Int
    BY <1>1
  <2> QED
    BY <2>1, OffsetFacts
<1>4. circular_less_than(Idx(e), Idx(y + b)) <=> e < y + b
  <2>1. CASE y + b <= e
    <3>1. e - (y + b) \in Index
      BY <1>1, <2>1 DEF Index
    <3>2. (e - (y + b)) % Modulus = e - (y + b)
      BY <3>1, SmallMod
    <3> QED
      BY <1>1, <1>3, <2>1, <3>2 DEF circular_less_than, Half
  <2>2. CASE e < y + b
    <3>1. (e - (y + b)) + Modulus \in Index
      BY <1>1, <2>2 DEF Index
    <3>2. (((e - (y + b)) + Modulus) - Modulus) % Modulus = (e - (y + b)) + Modulus
      BY <3>1, SmallMod
    <3>3. ((e - (y + b)) + Modulus) - Modulus = e - (y + b)
      BY <1>1
    <3>4. (e - (y + b)) + Modulus > v
      BY <1>1, <2>2
    <3> QED
      BY <1>1, <1>3, <2>2, <3>2, <3>3, <3>4 DEF circular_less_than, Half
  <2> QED
    BY <1>1, <2>1, <2>2
<1> QED
  BY <1>1, <1>2, <1>4 DEF StopIndex, StopAt

LEMMA RowIs ==
  ASSUME SetupOK, NEW a \in Int, NEW s \in Int, a <= s, s - a < Modulus
  PROVE  /\ Minus(Idx(s), Idx(a)) = s - a
         /\ Row(Idx(a), Idx(s)) = [j \in 1 .. s - a |-> Idx(a + j - 1)]
         /\ SlotsOf(Idx(a), Idx(s)) = {x % BLOCK_SIZE : x \in a .. s - 1}
<1>1. Modulus \in Nat \ {0} /\ s - a \in Index
  BY SetupMore DEF Index
<1>2. Minus(Idx(s), Idx(a)) = s - a
  BY <1>1, OffsetFacts
<1>3. Row(Idx(a), Idx(s)) = [j \in 1 .. s - a |-> Idx(a + j - 1)]
  <2>1. ASSUME NEW j \in 1 .. s - a PROVE Plus(Idx(a), j - 1) = Idx(a + j - 1)
    <3>1. j - 1 \in Int /\ a + (j - 1) = a + j - 1
      OBVIOUS
    <3> QED
      BY <3>1, OffsetFacts
  <2> QED
    BY <1>2, <2>1 DEF Row
<1>4. SlotsOf(Idx(a), Idx(s)) = {i % BLOCK_SIZE : i \in {Idx(a + j - 1) : j \in 1 .. s - a}}
  BY <1>2, <1>3 DEF SlotsOf
<1>5. \A x \in Int : Idx(x) % BLOCK_SIZE = x % BLOCK_SIZE
  BY IdxBlock
<1>6. ASSUME NEW w PROVE w \in SlotsOf(Idx(a), Idx(s)) <=> w \in {x % BLOCK_SIZE : x \in a .. s - 1}
  <2>1. ASSUME w \in SlotsOf(Idx(a), Idx(s)) PROVE w \in {x % BLOCK_SIZE : x \in a .. s - 1}
    <3>1. PICK j \in 1 .. s - a : w = Idx(a + j - 1) % BLOCK_SIZE
      BY <1>4, <2>1
    <3>2. a + j - 1 \in a .. s - 1 /\ a + j - 1 \in Int
      OBVIOUS
    <3> QED
      BY <1>5, <3>1, <3>2
  <2>2. ASSUME NEW x \in a .. s - 1, w = x % BLOCK_SIZE PROVE w \in SlotsOf(Idx(a), Idx(s))
    <3>1. (x - a) + 1 \in 1 .. s - a /\ a + ((x - a) + 1) - 1 = x /\ x \in Int
      OBVIOUS
    <3>2. Idx(x) \in {Idx(a + j - 1) : j \in 1 .. s - a}
      BY <3>1
    <3>3. w = Idx(x) % BLOCK_SIZE
      BY <1>5, <2>2, <3>1
    <3> QED
      BY <1>4, <3>2, <3>3
  <2> QED
    BY <2>1, <2>2
<1> QED
  BY <1>2, <1>3, <1>6

LEMMA SeqElem == ASSUME NEW S, NEW s \in Seq(S), NEW i \in 1 .. Len(s) PROVE s[i] \in S
  OBVIOUS

LEMMA SmallPlace == ASSUME NEW c \in Nat \ {0}, NEW q \in 0 .. c - 1 PROVE q % c = q
<1>1. (c * 0 + q) % c = q
  BY ModUnique
<1>2. c * 0 + q = q
  OBVIOUS
<1> QED
  BY <1>1, <1>2

(* The place of number m in a ring of c places where y is that of number 0, *)
(* and the numbers that have the same place.                                *)
Turn(c, y, m) == (y + m) % c
Alike(c, m, n) == (m - n) % c = 0

LEMMA AlikeFacts ==
  ASSUME NEW c \in Nat \ {0}, NEW m \in Int, NEW n \in Int
  PROVE  /\ Alike(c, m, n) <=> \E q \in Int : m = n + c * q
         /\ Alike(c, m, n) /\ m - n < c /\ n - m < c => m = n
<1>1. (m - n) % c = 0 <=> \E q \in Int : m = n + c * q
  BY ModZero
<1>2. (m - n) % c = 0 /\ m - n < c /\ n - m < c => m = n
  BY ModNear
<1> QED
  BY <1>1, <1>2 DEF Alike

LEMMA TurnIn ==
  ASSUME NEW c \in Nat \ {0}, NEW y \in Int, NEW m \in Int
  PROVE  Turn(c, y, m) \in 0 .. c - 1 /\ Turn(c, y, m) \in Int
<1>1. y + m \in Int
  OBVIOUS
<1>2. Turn(c, y, m) \in 0 .. c - 1
  BY <1>1, ModFacts DEF Turn
<1> QED
  BY <1>2

LEMMA TurnSame ==
  ASSUME NEW c \in Nat \ {0}, NEW y \in Int, NEW m \in Int, NEW n \in Int
  PROVE  Turn(c, y, m) = Turn(c, y, n) <=> Alike(c, m, n)
<1>1. PICK a, b : a = y + m /\ b = y + n /\ a \in Int /\ b \in Int /\ a - b = m - n
  OBVIOUS
<1>2. a % c = b % c <=> (a - b) % c = 0
  BY <1>1, ModZero
<1> QED
  BY <1>1, <1>2 DEF Turn, Alike

IsSumOf(s, a, b) == s = a + b
LEMMA PlaceOf ==
  ASSUME NEW c \in Nat \ {0}, NEW y \in Int, NEW x \in Int, NEW q \in 0 .. c - 1, IsSumOf(q, y, x)
  PROVE  Turn(c, y, x) = q
  BY SmallPlace DEF Turn, IsSumOf

LEMMA PlaceFrom ==
  ASSUME NEW c \in Nat \ {0}, NEW y \in Int, NEW q \in Int, NEW x \in Int, IsSumOf(q, y, x),
         NEW m \in Int, NEW n \in Int, Alike(c, n, x), NEW d \in Int, IsSumOf(m, n, d)
  PROVE  Turn(c, q, d) = Turn(c, y, m)
<1>1. PICK a, b : a = y + m /\ b = q + d /\ a \in Int /\ b \in Int /\ a - b = n - x
  BY DEF IsSumOf
<1>2. (a - b) % c = 0 => a % c = b % c
  BY <1>1, ModZero
<1> QED
  BY <1>1, <1>2 DEF Turn, Alike

-----------------------------------------------------------------------------
(* The block index of an implicit sub-queue.  The elements are numbered    *)
(* from the first, and so are the blocks: element x is in block number     *)
(* x \div BLOCK_SIZE.  sl are the rings of entries of the headers, z[j] is *)
(* the place that header j has for number 0, which no step moves; f is the *)
(* number at the front of the newest header; num is, of each entry, the    *)
(* number of the block that it is or was for; blk has the blocks in use,   *)
(* by number; p is the number of the block of the last element that is     *)
(* enqueued.                                                               *)
Rings(ix) == [j \in DOMAIN ix |-> ix[j].slots]
Cap(sl, j) == Cardinality(DOMAIN sl[j])
Size(sl) == Cap(sl, Len(sl))
EntryNo(sl, z, j, m) == sl[j][Turn(Cap(sl, j), z[j], m)]
Here(sl, z, m) == EntryNo(sl, z, Len(sl), m)
Valid(en, e) == en[e].key # Implicit!INVALID_BLOCK_BASE
Key(st, m) == Plus(st, m * BLOCK_SIZE)

Ring == UNION {[0 .. c - 1 -> Nat] : c \in Nat \ {0}}
Entries == [key : Index, value : Block \cup {Nil, Implicit!Junk}]
Headers(sl, en, z, size) ==
  /\ size \in Nat /\ sl \in Seq(Ring) /\ sl # <<>> /\ Size(sl) <= size
  /\ z \in [1 .. Len(sl) -> Int]
  /\ \A j \in 1 .. Len(sl) : Size(sl) % Cap(sl, j) = 0
  /\ \A j \in 1 .. Len(sl) : \A q \in 0 .. Cap(sl, j) - 1 : sl[j][q] < Size(sl)
  /\ \A p, q \in 0 .. Size(sl) - 1 : sl[Len(sl)][p] = sl[Len(sl)][q] => p = q
  /\ en \in [0 .. Size(sl) - 1 -> Entries]

(* The entry of a number is one of the numbers that have its place, not    *)
(* too far behind, and those of the replaced headers have been used.       *)
Keys(sl, en, z, num, blk, p, st) ==
  /\ num \in [0 .. Size(sl) - 1 -> Int] /\ p \in Int
  /\ \A e \in 0 .. Size(sl) - 1 : Valid(en, e) =>
       /\ en[e].key = Key(st, num[e])
       /\ num[e] <= p + Size(sl)
       /\ \A m \in DOMAIN blk : num[e] < m + Size(sl)
  /\ \A j \in 1 .. Len(sl) : \A m \in Int :
       Valid(en, EntryNo(sl, z, j, m)) => Alike(Cap(sl, j), num[EntryNo(sl, z, j, m)], m)
  /\ \A j \in 1 .. Len(sl) - 1 : \A q \in 0 .. Cap(sl, j) - 1 : Valid(en, sl[j][q])

(* The entry in the newest header is that of this very number.             *)
Exact(sl, en, z, num, n) == Valid(en, Here(sl, z, n)) /\ num[Here(sl, z, n)] = n

(* What the walk back from the front meets: the entries of the blocks      *)
(* after the tail and of those from the first that is in use.              *)
Reached(blk, p, n) == n > p \/ \E m \in DOMAIN blk : m <= n
Reach(sl, en, z, num, f, blk, p) ==
  /\ f \in Int
  /\ \A n \in Int : n <= f /\ Reached(blk, p, n) => Exact(sl, en, z, num, n)

Listed(sl, en, z, num, blk) ==
  \A m \in DOMAIN blk :
    /\ m \in Nat /\ blk[m] \in Block
    /\ Exact(sl, en, z, num, m) /\ en[Here(sl, z, m)].value = blk[m]

Indexed(sl, en, z, num, f, blk, p, st, size) ==
  /\ Headers(sl, en, z, size)
  /\ Keys(sl, en, z, num, blk, p, st)
  /\ Reach(sl, en, z, num, f, blk, p)
  /\ Listed(sl, en, z, num, blk)

(* The other entries are free, but for those in except.                    *)
Occupied(sl, en, z, blk, except) ==
  \A e \in 0 .. Size(sl) - 1 : Valid(en, e) /\ en[e].value # Nil =>
    e \in except \/ \E m \in DOMAIN blk : Here(sl, z, m) = e

(* The front of the newest header.                                         *)
Fronts(ix, z, f, size) ==
  /\ ix \in Seq([front : 0 .. size - 1, slots : Ring])
  /\ ix[Len(ix)].front = Turn(Size(Rings(ix)), z[Len(ix)], f)

LEMMA HeaderFacts ==
  ASSUME NEW sl, NEW en, NEW z, NEW size, Headers(sl, en, z, size)
  PROVE  /\ Len(sl) \in Nat \ {0} /\ Len(sl) \in 1 .. Len(sl)
         /\ \A j \in 1 .. Len(sl) :
              /\ Cap(sl, j) \in Nat \ {0} /\ DOMAIN sl[j] = 0 .. Cap(sl, j) - 1
              /\ sl[j] = [q \in 0 .. Cap(sl, j) - 1 |-> sl[j][q]]
              /\ z[j] \in Int
              /\ \A q \in 0 .. Cap(sl, j) - 1 : sl[j][q] \in 0 .. Size(sl) - 1
              /\ \A m \in Int : /\ Turn(Cap(sl, j), z[j], m) \in 0 .. Cap(sl, j) - 1
                                /\ EntryNo(sl, z, j, m) \in 0 .. Size(sl) - 1
         /\ Size(sl) \in Nat \ {0} /\ Size(sl) <= size
         /\ \A m \in Int : Here(sl, z, m) \in 0 .. Size(sl) - 1
<1>1. Len(sl) \in Nat \ {0} /\ Len(sl) \in 1 .. Len(sl)
  BY DEF Headers
<1>2. ASSUME NEW j \in 1 .. Len(sl)
      PROVE  /\ Cap(sl, j) \in Nat \ {0} /\ DOMAIN sl[j] = 0 .. Cap(sl, j) - 1
             /\ sl[j] \in [0 .. Cap(sl, j) - 1 -> Nat]
             /\ z[j] \in Int
  <2>1. sl[j] \in Ring
    <3>1. sl \in Seq(Ring)
      BY DEF Headers
    <3> HIDE DEF Ring
    <3> QED
      BY <3>1, SeqElem
  <2>2. PICK c \in Nat \ {0} : sl[j] \in [0 .. c - 1 -> Nat]
    BY <2>1 DEF Ring
  <2>3. Cardinality(0 .. c - 1) = c
    BY FS_Interval
  <2> QED
    BY <2>1, <2>2, <2>3 DEF Cap, Headers
<1>3. Size(sl) \in Nat \ {0} /\ Size(sl) <= size
  BY <1>1, <1>2 DEF Size, Headers
<1>4. ASSUME NEW j \in 1 .. Len(sl), NEW q \in 0 .. Cap(sl, j) - 1
      PROVE  sl[j][q] \in 0 .. Size(sl) - 1
  <2>1. sl[j][q] \in Nat /\ sl[j][q] < Size(sl)
    BY <1>2 DEF Headers
  <2> QED
    BY <1>3, <2>1
<1>5. ASSUME NEW j \in 1 .. Len(sl), NEW m \in Int
      PROVE  Turn(Cap(sl, j), z[j], m) \in 0 .. Cap(sl, j) - 1
  BY <1>2, TurnIn, TurnSame
<1>6. ASSUME NEW j \in 1 .. Len(sl), NEW m \in Int
      PROVE  EntryNo(sl, z, j, m) \in 0 .. Size(sl) - 1
  BY <1>4, <1>5 DEF EntryNo
<1>7. \A m \in Int : Here(sl, z, m) \in 0 .. Size(sl) - 1
  BY <1>1, <1>6 DEF Here
<1>8. ASSUME NEW j \in 1 .. Len(sl)
      PROVE  sl[j] = [q \in 0 .. Cap(sl, j) - 1 |-> sl[j][q]]
  BY <1>2
<1> QED
  BY <1>1, <1>2, <1>3, <1>4, <1>5, <1>6, <1>7, <1>8

(* Two numbers share an entry of a header when they are so many apart.      *)
LEMMA SamePlace ==
  ASSUME NEW sl, NEW en, NEW z, NEW size, Headers(sl, en, z, size),
         NEW j \in 1 .. Len(sl), NEW m \in Int, NEW n \in Int, Alike(Cap(sl, j), m, n)
  PROVE  EntryNo(sl, z, j, m) = EntryNo(sl, z, j, n)
<1>1. Cap(sl, j) \in Nat \ {0} /\ z[j] \in Int
  BY HeaderFacts
<1> QED
  BY <1>1, TurnSame DEF EntryNo

LEMMA SameEntry ==
  ASSUME NEW sl, NEW en, NEW z, NEW size, Headers(sl, en, z, size),
         NEW m \in Int, NEW n \in Int
  PROVE  Here(sl, z, m) = Here(sl, z, n) <=> Alike(Size(sl), m, n)
<1>1. PICK l, c, y : /\ l = Len(sl) /\ l \in 1 .. Len(sl) /\ c = Size(sl) /\ c = Cap(sl, l)
                     /\ c \in Nat \ {0} /\ y = z[l] /\ y \in Int
  BY HeaderFacts DEF Size
<1>2. PICK a, b : a = Turn(c, y, m) /\ b = Turn(c, y, n) /\ a \in 0 .. c - 1 /\ b \in 0 .. c - 1
  BY <1>1, TurnIn
<1>3. a = b <=> Alike(c, m, n)
  <2>1. Turn(c, y, m) = Turn(c, y, n) <=> Alike(c, m, n)
    BY <1>1, TurnSame
  <2> QED
    BY <1>2, <2>1
<1>4. sl[l][a] = sl[l][b] => a = b
  BY <1>1, <1>2 DEF Headers
<1>5. Here(sl, z, m) = sl[l][a] /\ Here(sl, z, n) = sl[l][b]
  BY <1>1, <1>2 DEF Here, EntryNo
<1> QED
  BY <1>1, <1>3, <1>4, <1>5

(* The entries that are reached, and so the blocks in use, are fewer than  *)
(* the places of the newest header.                                        *)
LEMMA Window ==
  ASSUME NEW sl, NEW en, NEW z, NEW num, NEW f, NEW blk, NEW p, NEW st, NEW size,
         Indexed(sl, en, z, num, f, blk, p, st, size),
         NEW m \in Int, Reached(blk, p, m), m <= f
  PROVE  f < m + Size(sl)
<1>1. PICK c : c = Size(sl) /\ c \in Nat \ {0} /\ f \in Int /\ p \in Int
  BY HeaderFacts DEF Indexed, Reach, Keys
<1>2. SUFFICES ASSUME f >= m + c PROVE FALSE
  BY <1>1
<1>3. m + c \in Int /\ m + c <= f /\ Reached(blk, p, m + c)
  <2>1. \A n \in DOMAIN blk : n \in Int /\ (n <= m => n <= m + c)
    BY <1>1 DEF Indexed, Listed
  <2> QED
    BY <1>1, <1>2, <2>1 DEF Reached
<1>4. num[Here(sl, z, m)] = m /\ num[Here(sl, z, m + c)] = m + c
  BY <1>3 DEF Indexed, Reach, Exact
<1>5. Here(sl, z, m) = Here(sl, z, m + c)
  <2>1. m = (m + c) + c * (-1) /\ -1 \in Int
    BY <1>1
  <2>2. Alike(c, m, m + c)
    BY <1>1, <1>3, <2>1, AlikeFacts
  <2> QED
    BY <1>1, <1>3, <2>2, SameEntry DEF Indexed
<1> QED
  BY <1>1, <1>4, <1>5

(* A block is found from any entry that is not too far from it.            *)
LEMMA LookupFinds ==
  ASSUME SetupOK, NEW sl, NEW en, NEW z, NEW num, NEW f, NEW blk, NEW p, NEW size,
         Indexed(sl, en, z, num, f, blk, p, setup.start, size),
         NEW j \in 1 .. Len(sl), NEW q \in 0 .. Cap(sl, j) - 1, Valid(en, sl[j][q]),
         NEW m \in Int, NEW i, BlockBase(i) = Key(setup.start, m),
         Near(m, num[sl[j][q]])
  PROVE  Position(Cap(sl, j), q, en[sl[j][q]].key, i)
           = Turn(Cap(sl, j), z[j], m)
<1>1. PICK e, c, y, n : /\ e = sl[j][q] /\ c = Cap(sl, j) /\ y = z[j] /\ n = num[e]
                        /\ e \in 0 .. Size(sl) - 1 /\ c \in Nat \ {0} /\ y \in Int /\ n \in Int
                        /\ q \in 0 .. c - 1
  BY HeaderFacts DEF Indexed, Keys
<1>2. en[e].key = Idx(n * BLOCK_SIZE) /\ BlockBase(i) = Idx(m * BLOCK_SIZE)
  BY <1>1 DEF Indexed, Keys, Key, Idx
<1>3. Offset(BlockBase(i), en[e].key) = m - n
  <2>1. n \in Int /\ Near(m, n)
    BY <1>1, Zenon
  <2>2. Offset(Idx(m * BLOCK_SIZE), Idx(n * BLOCK_SIZE)) = m - n
    BY <2>1, OffsetIs, Zenon
  <2> QED
    BY <1>2, <2>2, Zenon
<1>4. PICK x, d : x \in Int /\ IsSumOf(q, y, x) /\ d \in Int /\ IsSumOf(m, n, d)
  <2>1. \A a, b \in Int : a - b \in Int /\ IsSumOf(a, b, a - b)
    BY DEF IsSumOf
  <2>2. q \in Int /\ y \in Int /\ m \in Int /\ n \in Int
    <3>1. \A r \in 0 .. c - 1 : r \in Int
      OBVIOUS
    <3> QED
      BY <1>1, <3>1, Zenon
  <2> QED
    BY <2>1, <2>2, Zenon
<1>5. Alike(c, n, x)
  <2>1. Turn(c, y, x) = q
    BY <1>1, <1>4, PlaceOf
  <2>2. EntryNo(sl, z, j, x) = e
    BY <1>1, <2>1 DEF EntryNo
  <2> QED
    BY <1>1, <1>4, <2>2 DEF Indexed, Keys
<1>6. Turn(c, q, d) = Turn(c, y, m)
  <2>1. /\ c \in Nat \ {0} /\ y \in Int /\ q \in Int /\ x \in Int /\ IsSumOf(q, y, x)
        /\ m \in Int /\ n \in Int /\ Alike(c, n, x) /\ d \in Int /\ IsSumOf(m, n, d)
    BY <1>1, <1>4, <1>5
  <2> QED
    BY <2>1, PlaceFrom
<1>7. Position(c, q, en[e].key, i) = Turn(c, q, m - n)
  BY <1>1, <1>3 DEF Position, Turn
<1>8. d = m - n
  <2>1. m = n + d /\ n \in Int /\ d \in Int
    BY <1>1, <1>4, Zenon DEF IsSumOf
  <2> QED
    BY <2>1
<1> QED
  BY <1>1, <1>6, <1>7, <1>8

(* The steps that change the block index.                                  *)
LEMMA KeyFacts ==
  ASSUME SetupOK, NEW m \in Int
  PROVE  /\ Key(setup.start, m) = Idx(m * BLOCK_SIZE) /\ Key(setup.start, m) \in Index
         /\ Key(setup.start, m) # Implicit!INVALID_BLOCK_BASE
<1>1. PICK b : b = BLOCK_SIZE /\ b \in Nat \ {0} /\ b > 1 /\ m * b \in Int
  BY SetupMore
<1>2. Idx(m * b) \in Index
  BY <1>1, OffsetFacts
<1>3. Idx(m * b) % b = (m * b) % b
  BY <1>1, IdxBlock
<1>4. (m * b) % b = 0
  <2>1. m * b <= m * b /\ m * b < m * b + b
    BY <1>1
  <2>2. (m * b) % b = m * b - m * b
    BY <1>1, <2>1, DivIs
  <2> QED
    BY <1>1, <2>2
<1>5. 1 % b = 1
  <2>1. 1 \in 0 .. b - 1
    BY <1>1
  <2> QED
    BY <1>1, <2>1, SmallPlace
<1>6. Idx(m * b) # 1
  BY <1>3, <1>4, <1>5
<1> QED
  BY <1>1, <1>2, <1>6 DEF Key, Idx, Implicit!INVALID_BLOCK_BASE

LEMMA TurnStep ==
  ASSUME NEW c \in Nat \ {0}, NEW y \in Int, NEW f \in Int, NEW k \in Int
  PROVE  (Turn(c, y, f) + k) % c = Turn(c, y, f + k)
<1>1. PICK a, r, q : a = y + f /\ a \in Int /\ r = a % c /\ r \in 0 .. c - 1 /\ q \in Int /\ a = c * q + r
  <2>1. y + f \in Int
    OBVIOUS
  <2> QED
    BY <2>1, ModFacts
<1>2. PICK d : d = c * q /\ d \in Int
  BY <1>1
<1>3. (d + (r + k)) % c = (r + k) % c
  <2>1. r + k \in Int
    BY <1>1
  <2> QED
    BY <1>1, <1>2, <2>1, ModShift
<1>4. d + (r + k) = y + (f + k)
  BY <1>1, <1>2
<1> QED
  BY <1>1, <1>3, <1>4 DEF Turn

LEMMA AlikeDivides ==
  ASSUME NEW c \in Nat \ {0}, NEW k \in Nat \ {0}, k % c = 0, NEW m \in Int, NEW n \in Int,
         Alike(k, m, n)
  PROVE  Alike(c, m, n)
<1>1. PICK q \in Int : m = n + k * q
  BY AlikeFacts
<1>2. PICK d \in Int : k = c * d
  <2>1. k = c * (k \div c) + (k % c) /\ k \div c \in Int
    BY ModFacts
  <2>2. c * (k \div c) \in Int
    BY <2>1
  <2>3. k = c * (k \div c)
    BY <2>1, <2>2
  <2> QED
    BY <2>1, <2>3
<1>3. d * q \in Int /\ k * q = c * (d * q)
  BY <1>2
<1>4. m = n + c * (d * q)
  BY <1>1, <1>3
<1> QED
  BY <1>3, <1>4, AlikeFacts

LEMMA RingsFacts ==
  ASSUME NEW size, NEW ix \in Seq([front : 0 .. size - 1, slots : Ring])
  PROVE  /\ Rings(ix) \in Seq(Ring) /\ Len(Rings(ix)) = Len(ix)
         /\ \A j \in 1 .. Len(ix) : Rings(ix)[j] = ix[j].slots /\ ix[j].front \in 0 .. size - 1
<1> HIDE DEF Ring
<1>1. DOMAIN ix = 1 .. Len(ix) /\ Len(ix) \in Nat
  OBVIOUS
<1>2. \A j \in 1 .. Len(ix) : ix[j].slots \in Ring /\ ix[j].front \in 0 .. size - 1
  <2>1. TAKE j \in 1 .. Len(ix)
  <2>2. ix[j] \in [front : 0 .. size - 1, slots : Ring]
    BY SeqElem
  <2> QED
    BY <2>2
<1>3. Rings(ix) = [j \in 1 .. Len(ix) |-> ix[j].slots]
  BY <1>1 DEF Rings
<1> QED
  BY <1>1, <1>2, <1>3

(* The front is set to another number.                                     *)
Fronted(ix, v) == [ix EXCEPT ![Len(ix)].front = v]
LEMMA FrontSet ==
  ASSUME NEW ix, NEW z, NEW f, NEW size, Fronts(ix, z, f, size),
         NEW en, Headers(Rings(ix), en, z, size), NEW g \in Int, NEW iy,
         iy = Fronted(ix, Turn(Size(Rings(ix)), z[Len(ix)], g))
  PROVE  Fronts(iy, z, g, size) /\ Rings(iy) = Rings(ix) /\ Len(iy) = Len(ix)
<1> USE DEF Fronted
<1> HIDE DEF Ring
<1>1. PICK l, v : /\ l = Len(ix) /\ v = Turn(Size(Rings(ix)), z[Len(ix)], g)
                  /\ l \in 1 .. Len(ix) /\ v \in 0 .. size - 1
                  /\ ix \in Seq([front : 0 .. size - 1, slots : Ring])
                  /\ ix[l] \in [front : 0 .. size - 1, slots : Ring]
  <2>1. ix \in Seq([front : 0 .. size - 1, slots : Ring])
    BY DEF Fronts
  <2>2. Len(Rings(ix)) = Len(ix)
    BY <2>1, RingsFacts
  <2>3. /\ Len(ix) \in 1 .. Len(ix) /\ Size(Rings(ix)) \in Nat \ {0} /\ Size(Rings(ix)) <= size
        /\ z[Len(ix)] \in Int /\ size \in Nat
    BY <2>2, HeaderFacts DEF Headers
  <2>4. Turn(Size(Rings(ix)), z[Len(ix)], g) \in 0 .. Size(Rings(ix)) - 1
    BY <2>3, TurnIn, TurnSame
  <2>5. Turn(Size(Rings(ix)), z[Len(ix)], g) \in 0 .. size - 1
    BY <2>3, <2>4
  <2>6. ix[Len(ix)] \in [front : 0 .. size - 1, slots : Ring]
    BY <2>1, <2>3, SeqElem
  <2> QED
    BY <2>1, <2>3, <2>5, <2>6
<1>2. /\ iy \in Seq([front : 0 .. size - 1, slots : Ring]) /\ Len(iy) = Len(ix)
      /\ DOMAIN iy = DOMAIN ix
      /\ iy[l].front = v /\ \A j \in DOMAIN ix : iy[j].slots = ix[j].slots
  <2>1. iy = [ix EXCEPT ![l].front = v]
    BY <1>1
  <2>2. [ix[l] EXCEPT !.front = v] \in [front : 0 .. size - 1, slots : Ring]
    BY <1>1
  <2>3. iy = [ix EXCEPT ![l] = [ix[l] EXCEPT !.front = v]]
    BY <1>1, <2>1
  <2>4. PICK r : /\ r = [ix[l] EXCEPT !.front = v] /\ r \in [front : 0 .. size - 1, slots : Ring]
                 /\ r.front = v /\ r.slots = ix[l].slots
    BY <1>1, <2>2
  <2>5. iy = [ix EXCEPT ![l] = r] /\ DOMAIN ix = 1 .. Len(ix)
    BY <1>1, <2>3, <2>4
  <2>6. iy \in Seq([front : 0 .. size - 1, slots : Ring]) /\ Len(iy) = Len(ix)
    BY <1>1, <2>4, <2>5
  <2> QED
    BY <1>1, <2>4, <2>5, <2>6
<1>3. Rings(iy) = Rings(ix)
  BY <1>2 DEF Rings
<1> QED
  BY <1>1, <1>2, <1>3 DEF Fronts

LEMMA ReachMoves ==
  ASSUME NEW sl, NEW en, NEW z, NEW num, NEW f, NEW blk, NEW p, Reach(sl, en, z, num, f, blk, p),
         NEW g \in Int, g <= f \/ (g = f + 1 /\ Exact(sl, en, z, num, g))
  PROVE  Reach(sl, en, z, num, g, blk, p)
  BY DEF Reach

(* Values are stored in entries, and blocks come into use or go.           *)
LEMMA ValuesSet ==
  ASSUME NEW sl, NEW en, NEW z, NEW num, NEW f, NEW blk, NEW p, NEW st, NEW size,
         Indexed(sl, en, z, num, f, blk, p, st, size),
         NEW ey \in [0 .. Size(sl) - 1 -> Entries],
         \A e \in 0 .. Size(sl) - 1 : ey[e].key = en[e].key,
         NEW by, Listed(sl, ey, z, num, by), \A m \in DOMAIN by : m \in DOMAIN blk \/ p < m
  PROVE  Indexed(sl, ey, z, num, f, by, p, st, size)
<1>1. \A e \in 0 .. Size(sl) - 1 : Valid(ey, e) <=> Valid(en, e)
  BY DEF Valid
<1>2. Headers(sl, ey, z, size)
  BY DEF Indexed, Headers
<1>3. \A m \in Int : Exact(sl, ey, z, num, m) <=> Exact(sl, en, z, num, m)
  BY <1>1, HeaderFacts DEF Indexed, Exact
<1>4. \A m \in DOMAIN by : m \in Int
  BY DEF Listed
<1>5. p \in Int /\ Size(sl) \in Int /\ num \in [0 .. Size(sl) - 1 -> Int]
  BY HeaderFacts DEF Indexed, Keys
<1>6. \A n \in Int : Reached(by, p, n) => Reached(blk, p, n)
  BY <1>4, <1>5 DEF Reached
<1>7. Reach(sl, ey, z, num, f, by, p)
  BY <1>3, <1>6 DEF Indexed, Reach
<1>8. Keys(sl, ey, z, num, by, p, st)
  <2>1. ASSUME NEW e \in 0 .. Size(sl) - 1, Valid(ey, e)
        PROVE  /\ ey[e].key = Key(st, num[e]) /\ num[e] <= p + Size(sl)
               /\ \A m \in DOMAIN by : num[e] < m + Size(sl)
    <3>1. /\ en[e].key = Key(st, num[e]) /\ num[e] <= p + Size(sl)
          /\ \A m \in DOMAIN blk : num[e] < m + Size(sl)
      BY <1>1, <2>1 DEF Indexed, Keys
    <3>2. num[e] \in Int
      BY <1>5
    <3>3. \A m \in DOMAIN by : num[e] < m + Size(sl)
      BY <1>4, <1>5, <3>1, <3>2
    <3> QED
      BY <3>1, <3>3
  <2>2. ASSUME NEW j \in 1 .. Len(sl), NEW m \in Int, Valid(ey, EntryNo(sl, z, j, m))
        PROVE  Alike(Cap(sl, j), num[EntryNo(sl, z, j, m)], m)
    BY <1>1, <2>2, HeaderFacts DEF Indexed, Keys
  <2>3. ASSUME NEW j \in 1 .. Len(sl) - 1, NEW q \in 0 .. Cap(sl, j) - 1
        PROVE  Valid(ey, sl[j][q])
    <3>1. j \in 1 .. Len(sl)
      BY HeaderFacts DEF Indexed
    <3> QED
      BY <1>1, <3>1, HeaderFacts DEF Indexed, Keys
  <2> QED
    BY <1>5, <2>1, <2>2, <2>3 DEF Keys
<1> QED
  BY <1>2, <1>7, <1>8 DEF Indexed

(* The number after the front gets its entry.  That is free only when the  *)
(* number that had it before is behind all that the index can reach.       *)
LEMMA EntryFree ==
  ASSUME NEW sl, NEW en, NEW z, NEW num, NEW f, NEW blk, NEW p, NEW st, NEW size,
         Indexed(sl, en, z, num, f, blk, p, st, size), p <= f,
         \A n \in DOMAIN blk : n <= f, \A n \in Int : p < n /\ n <= f => n \in DOMAIN blk,
         NEW e, e = Here(sl, z, f + 1), ~Valid(en, e) \/ en[e].value \notin Block
  PROVE  /\ e \in 0 .. Size(sl) - 1
         /\ f + 1 <= p + Size(sl) /\ \A m \in DOMAIN blk : f + 1 < m + Size(sl)
         /\ \A n \in Int : n <= f /\ Reached(blk, p, n) => Here(sl, z, n) # e
         /\ \A m \in DOMAIN blk : Here(sl, z, m) # e
<1>1. PICK c, q : /\ c = Size(sl) /\ c \in Nat \ {0} /\ f \in Int /\ p \in Int /\ q = f + 1
               /\ q \in Int /\ e = Here(sl, z, q) /\ e \in 0 .. Size(sl) - 1
  <2>1. f \in Int /\ p \in Int /\ f + 1 \in Int
    BY DEF Indexed, Reach, Keys
  <2> QED
    BY <2>1, HeaderFacts DEF Indexed
<1>2. \A m \in DOMAIN blk : m \in Int /\ Here(sl, z, m) # e
  BY DEF Indexed, Listed, Exact
<1>3. PICK r \in Int : r = q - c
  BY <1>1
<1>4. Here(sl, z, r) = e
  <2>1. \E y \in Int : q = r + c * y
    <3>1. 1 \in Int /\ q = r + c * 1
      BY <1>1, <1>3
    <3> QED
      BY <3>1
  <2>2. q \in Int /\ r \in Int /\ c \in Nat \ {0}
    BY <1>1
  <2>3. Alike(c, q, r)
    BY <2>1, <2>2, AlikeFacts
  <2>4. Here(sl, z, q) = Here(sl, z, r)
    BY <1>1, <2>3, SameEntry, ZenonT(40) DEF Indexed
  <2> QED
    BY <1>1, <2>4
<1>5. r \notin DOMAIN blk
  BY <1>2, <1>4
<1>6. r <= f
  BY <1>1, <1>3
<1>7. ~Reached(blk, p, r)
  <2>1. ASSUME Reached(blk, p, r) PROVE FALSE
    <3>1. r <= p
      BY <1>1, <1>5, <1>6
    <3>2. PICK m \in DOMAIN blk : m <= r
      BY <1>1, <2>1, <3>1 DEF Reached
    <3>3. m \in Int /\ m <= f /\ Reached(blk, p, m)
      BY <1>1, <1>2, <1>6, <3>2 DEF Reached
    <3>4. f < m + c
      BY <1>1, <3>3, Window
    <3>5. m = r
      BY <1>1, <1>3, <3>2, <3>3, <3>4
    <3> QED
      BY <1>5, <3>5
  <2> QED
    BY <2>1
<1>8. f + 1 <= p + Size(sl)
  BY <1>1, <1>3, <1>7 DEF Reached
<1>9. \A m \in DOMAIN blk : f + 1 < m + Size(sl)
  BY <1>1, <1>2, <1>3, <1>7 DEF Reached
<1>10. ASSUME NEW n \in Int, n <= f, Reached(blk, p, n) PROVE Here(sl, z, n) # e
  <2>1. SUFFICES ASSUME Here(sl, z, n) = e PROVE FALSE
    OBVIOUS
  <2>2. f < n + c
    BY <1>1, <1>10, Window
  <2>3. Alike(c, n, r)
    BY <1>1, <1>4, <2>1, SameEntry DEF Indexed
  <2>4. n - r < c /\ r - n < c
    BY <1>1, <1>3, <1>10, <2>2
  <2>5. n = r
    BY <1>1, <2>3, <2>4, AlikeFacts
  <2> QED
    BY <1>7, <1>10, <2>5
<1> QED
  BY <1>1, <1>2, <1>8, <1>9, <1>10

LEMMA AlikeJoins ==
  ASSUME NEW c \in Nat \ {0}, NEW w \in Int, NEW m \in Int, NEW n \in Int,
         Alike(c, w, m), Alike(c, w, n)
  PROVE  Alike(c, n, m)
<1>1. PICK u \in Int : w = m + c * u
  BY AlikeFacts
<1>2. PICK v \in Int : w = n + c * v
  BY AlikeFacts
<1>3. c * u \in Int /\ c * v \in Int /\ c * (u - v) = c * u - c * v /\ u - v \in Int
  OBVIOUS
<1>4. n = m + c * (u - v)
  BY <1>1, <1>2, <1>3
<1> QED
  BY <1>3, <1>4, AlikeFacts

Keyed(en, e, k) == [en EXCEPT ![e].key = k]
Numbered(num, e, n) == [num EXCEPT ![e] = n]
LEMMA EntryStored ==
  ASSUME SetupOK, NEW sl, NEW en, NEW z, NEW num, NEW f, NEW blk, NEW p, NEW size,
         Indexed(sl, en, z, num, f, blk, p, setup.start, size), p <= f,
         \A n \in DOMAIN blk : n <= f, \A n \in Int : p < n /\ n <= f => n \in DOMAIN blk,
         NEW e, e = Here(sl, z, f + 1), ~Valid(en, e) \/ en[e].value \notin Block,
         NEW ey, ey = Keyed(en, e, Key(setup.start, f + 1)),
         NEW numy, numy = Numbered(num, e, f + 1)
  PROVE  /\ Indexed(sl, ey, z, numy, f, blk, p, setup.start, size)
         /\ Exact(sl, ey, z, numy, f + 1)
         /\ e \in 0 .. Size(sl) - 1 /\ DOMAIN ey = 0 .. Size(sl) - 1
         /\ \A x \in 0 .. Size(sl) - 1 :
              /\ x # e => ey[x] = en[x] /\ numy[x] = num[x]
              /\ Valid(en, x) => Valid(ey, x)
         /\ numy[e] = f + 1
<1> USE DEF Keyed, Numbered
<1>1. PICK c, q : /\ c = Size(sl) /\ c \in Nat \ {0} /\ f \in Int /\ p \in Int /\ q = f + 1
               /\ q \in Int /\ e = Here(sl, z, q) /\ e \in 0 .. c - 1
               /\ q <= p + c /\ (\A m \in DOMAIN blk : q < m + c)
               /\ num \in [0 .. c - 1 -> Int] /\ en \in [0 .. c - 1 -> Entries]
               /\ \A x \in 0 .. c - 1 : en[x] \in Entries
  <2>1. f \in Int /\ p \in Int /\ f + 1 \in Int
    BY DEF Indexed, Reach, Keys
  <2>2. num \in [0 .. Size(sl) - 1 -> Int] /\ en \in [0 .. Size(sl) - 1 -> Entries]
    BY DEF Indexed, Headers, Keys
  <2>3. /\ e \in 0 .. Size(sl) - 1
        /\ f + 1 <= p + Size(sl) /\ \A m \in DOMAIN blk : f + 1 < m + Size(sl)
    BY EntryFree
  <2>4. Size(sl) \in Nat \ {0}
    BY HeaderFacts DEF Indexed
  <2>5. \A x \in 0 .. Size(sl) - 1 : en[x] \in Entries
    BY <2>2
  <2> QED
    BY <2>1, <2>2, <2>3, <2>4, <2>5
<1>2. /\ \A n \in Int : n <= f /\ Reached(blk, p, n) => Here(sl, z, n) # e
      /\ \A m \in DOMAIN blk : m \in Int /\ Here(sl, z, m) # e
  <2>1. \A m \in DOMAIN blk : m \in Int
    BY DEF Indexed, Listed
  <2> QED
    BY <2>1, EntryFree
<1>3. PICK k : /\ k = Key(setup.start, q) /\ k \in Index /\ k # Implicit!INVALID_BLOCK_BASE
  BY <1>1, KeyFacts
<1>4. PICK r : /\ r \in Entries /\ r.key = k /\ ey = [en EXCEPT ![e] = r]
  <2>1. /\ [en[e] EXCEPT !.key = k] \in Entries /\ [en[e] EXCEPT !.key = k].key = k
    <3>1. en[e] \in Entries
      BY <1>1
    <3> QED
      BY <1>3, <3>1 DEF Entries
  <2>2. ey = [en EXCEPT ![e] = [en[e] EXCEPT !.key = k]]
    BY <1>1, <1>3
  <2> QED
    BY <2>1, <2>2
<1>5. /\ ey \in [0 .. c - 1 -> Entries] /\ numy \in [0 .. c - 1 -> Int]
      /\ ey[e] = r /\ numy[e] = q
      /\ \A x \in 0 .. c - 1 : x # e => ey[x] = en[x] /\ numy[x] = num[x]
  BY <1>1, <1>4
<1>6. Valid(ey, e) /\ \A x \in 0 .. c - 1 : x # e => (Valid(ey, x) <=> Valid(en, x))
  BY <1>3, <1>4, <1>5 DEF Valid
<1>7. Headers(sl, ey, z, size)
  BY <1>1, <1>5 DEF Indexed, Headers
<1>8. \A n \in Int : Exact(sl, en, z, num, n) /\ Here(sl, z, n) # e => Exact(sl, ey, z, numy, n)
  <2>1. \A n \in Int : Here(sl, z, n) \in 0 .. c - 1
    BY <1>1, HeaderFacts DEF Indexed
  <2> QED
    BY <1>5, <1>6, <2>1 DEF Exact
<1>9. Reach(sl, ey, z, numy, f, blk, p)
  BY <1>2, <1>8 DEF Indexed, Reach
<1>10. Listed(sl, ey, z, numy, blk)
  <2>1. ASSUME NEW m \in DOMAIN blk
        PROVE  /\ m \in Nat /\ blk[m] \in Block
               /\ Exact(sl, ey, z, numy, m) /\ ey[Here(sl, z, m)].value = blk[m]
    <3>1. /\ m \in Nat /\ blk[m] \in Block
          /\ Exact(sl, en, z, num, m) /\ en[Here(sl, z, m)].value = blk[m]
      BY DEF Indexed, Listed
    <3>2. Here(sl, z, m) # e /\ Here(sl, z, m) \in 0 .. c - 1
      BY <1>1, <1>2, HeaderFacts DEF Indexed
    <3> QED
      BY <1>2, <1>5, <1>8, <3>1, <3>2
  <2> QED
    BY <2>1 DEF Listed
<1>11. Keys(sl, ey, z, numy, blk, p, setup.start)
  <2>1. ASSUME NEW x \in 0 .. c - 1, Valid(ey, x)
        PROVE  /\ ey[x].key = Key(setup.start, numy[x]) /\ numy[x] <= p + c
               /\ \A m \in DOMAIN blk : numy[x] < m + c
    <3>1. CASE x = e
      BY <1>1, <1>3, <1>4, <1>5, <3>1
    <3>2. CASE x # e
      BY <1>1, <1>5, <1>6, <2>1, <3>2 DEF Indexed, Keys
    <3> QED
      BY <3>1, <3>2
  <2>2. ASSUME NEW j \in 1 .. Len(sl) - 1, NEW y \in 0 .. Cap(sl, j) - 1
        PROVE  Valid(en, sl[j][y]) /\ Valid(ey, sl[j][y])
    <3>1. j \in 1 .. Len(sl) /\ Valid(en, sl[j][y])
      BY HeaderFacts DEF Indexed, Keys
    <3>2. sl[j][y] \in 0 .. c - 1
      BY <1>1, <3>1, HeaderFacts DEF Indexed
    <3> QED
      BY <1>6, <3>1, <3>2
  <2>3. ASSUME NEW j \in 1 .. Len(sl), NEW m \in Int, Valid(ey, EntryNo(sl, z, j, m))
        PROVE  Alike(Cap(sl, j), numy[EntryNo(sl, z, j, m)], m)
    <3>1. PICK x, d : /\ x = EntryNo(sl, z, j, m) /\ d = Cap(sl, j) /\ x \in 0 .. c - 1
                      /\ d \in Nat \ {0} /\ c % d = 0 /\ j \in Int /\ Len(sl) \in Int
      <4>1. EntryNo(sl, z, j, m) \in 0 .. c - 1 /\ Cap(sl, j) \in Nat \ {0}
        BY <1>1, HeaderFacts DEF Indexed
      <4>2. c % Cap(sl, j) = 0
        BY <1>1 DEF Indexed, Headers
      <4>3. j \in Int /\ Len(sl) \in Int
        BY HeaderFacts DEF Indexed
      <4> QED
        BY <4>1, <4>2, <4>3
    <3>2. CASE x # e
      <4>1. Valid(en, x)
        BY <1>6, <2>3, <3>1, <3>2
      <4>2. Alike(d, num[x], m)
        BY <3>1, <4>1 DEF Indexed, Keys
      <4> QED
        BY <1>5, <3>1, <3>2, <4>2
    <3>3. CASE x = e /\ j = Len(sl)
      <4>1. Here(sl, z, q) = Here(sl, z, m) /\ d = c
        BY <1>1, <3>1, <3>3 DEF Here, Size
      <4>2. Alike(c, q, m)
        BY <1>1, <4>1, SameEntry DEF Indexed
      <4> QED
        BY <1>5, <3>1, <3>3, <4>1, <4>2
    <3>4. CASE x = e /\ j # Len(sl)
      <4>1. j \in 1 .. Len(sl) - 1
        BY <3>1, <3>4
      <4>2. Valid(en, e)
        <5>1. Turn(Cap(sl, j), z[j], m) \in 0 .. Cap(sl, j) - 1
          BY HeaderFacts DEF Indexed
        <5> QED
          BY <2>2, <3>1, <3>4, <4>1, <5>1 DEF EntryNo
      <4>3. PICK w : w = num[e] /\ w \in Int
        BY <1>1
      <4>4. Alike(d, w, m)
        BY <3>1, <3>4, <4>2, <4>3 DEF Indexed, Keys
      <4>5. Alike(c, w, q)
        <5>1. Len(sl) \in 1 .. Len(sl) /\ EntryNo(sl, z, Len(sl), q) = e /\ Cap(sl, Len(sl)) = c
          BY <1>1, HeaderFacts DEF Indexed, Here, Size
        <5> QED
          BY <1>1, <4>2, <4>3, <5>1 DEF Indexed, Keys
      <4>6. Alike(d, w, q)
        BY <1>1, <3>1, <4>3, <4>5, AlikeDivides
      <4>7. Alike(d, q, m)
        <5>1. d \in Nat \ {0} /\ w \in Int /\ q \in Int /\ Alike(d, w, m) /\ Alike(d, w, q)
          BY <1>1, <3>1, <4>3, <4>4, <4>6
        <5> QED
          BY <5>1, AlikeJoins
      <4> QED
        BY <1>5, <3>1, <3>4, <4>7
    <3> QED
      BY <3>2, <3>3, <3>4
  <2> QED
    BY <1>1, <1>5, <2>1, <2>2, <2>3 DEF Keys, Indexed
<1>12. Exact(sl, ey, z, numy, q)
  BY <1>1, <1>5, <1>6 DEF Exact
<1>13. Indexed(sl, ey, z, numy, f, blk, p, setup.start, size)
  BY <1>7, <1>9, <1>10, <1>11 DEF Indexed
<1> QED
  BY <1>1, <1>5, <1>6, <1>12, <1>13

(* A header of twice the size, which has the same entries at the numbers   *)
(* up to the front.                                                        *)
NewRing(c, hd) ==
  [j \in 0 .. 2 * c - 1 |-> IF j < c THEN hd.slots[(hd.front + 1 + j) % c] ELSE j]
Longer(en, c, fresh) == [e \in 0 .. 2 * c - 1 |-> IF e \in DOMAIN en THEN en[e] ELSE fresh]
Fresh == [key |-> Implicit!INVALID_BLOCK_BASE, value |-> Implicit!Junk]
GrownFrom(sl, z, en, num, sy, zy, ey, numy, f) ==
  /\ Len(sy) = Len(sl) + 1 /\ Size(sy) = 2 * Size(sl)
  /\ \A j \in 1 .. Len(sl) :
       sy[j] = sl[j] /\ zy[j] = z[j] /\ \A m \in Int : EntryNo(sy, zy, j, m) = EntryNo(sl, z, j, m)
  /\ \A m \in Int : f - Size(sl) < m /\ m <= f => Here(sy, zy, m) = Here(sl, z, m)
  /\ \A e \in 0 .. Size(sl) - 1 : ey[e] = en[e] /\ numy[e] = num[e]
  /\ \A e \in Size(sl) .. Size(sy) - 1 : ~Valid(ey, e)

RingIs(r, ix, c) == r = NewRing(c, ix[Len(ix)])
SizeIs(sl, c) == Size(sl) = c
Grows(ix, en, z, num, f, c, iy, ey, zy, numy) ==
  /\ iy = Append(ix, [front |-> c - 1, slots |-> NewRing(c, ix[Len(ix)])])
  /\ ey = Longer(en, c, Fresh)
  /\ zy = [j \in 1 .. Len(ix) + 1 |-> IF j \in 1 .. Len(ix) THEN z[j] ELSE (c - 1) - f]
  /\ numy = [e \in 0 .. 2 * c - 1 |-> IF e \in 0 .. c - 1 THEN num[e] ELSE 0]

LEMMA NewRingIs ==
  ASSUME NEW ix, NEW en, NEW z, NEW size, NEW f \in Int,
         Headers(Rings(ix), en, z, size), Fronts(ix, z, f, size),
         NEW c, SizeIs(Rings(ix), c), NEW r, RingIs(r, ix, c)
  PROVE  /\ r \in Ring /\ r \in [0 .. 2 * c - 1 -> 0 .. 2 * c - 1]
         /\ Cardinality(DOMAIN r) = 2 * c
         /\ \A j \in 0 .. c - 1 : r[j] = Here(Rings(ix), z, (f + 1 + j) - c) /\ r[j] < c
         /\ \A j \in c .. 2 * c - 1 : r[j] = j
<1> HIDE DEF Ring
<1>0. c \in Nat \ {0}
  BY HeaderFacts DEF SizeIs
<1>1. PICK l, y, sl : /\ l = Len(ix) /\ sl = Rings(ix) /\ l = Len(sl) /\ c = Cap(sl, l)
                      /\ y = z[l] /\ y \in Int
                      /\ ix[l].front = Turn(c, y, f) /\ ix[l].slots = sl[l]
  <2>1. ix \in Seq([front : 0 .. size - 1, slots : Ring])
    BY DEF Fronts
  <2>2. Len(Rings(ix)) = Len(ix) /\ \A j \in 1 .. Len(ix) : Rings(ix)[j] = ix[j].slots
    BY <2>1, RingsFacts
  <2>3. Len(ix) \in 1 .. Len(ix) /\ z[Len(ix)] \in Int
    BY <2>2, HeaderFacts
  <2> QED
    BY <2>2, <2>3 DEF Fronts, Size, SizeIs
<1>11. y \in Int
  BY <1>1
<1>10. \A g \in Int : Here(sl, z, g) = sl[l][Turn(c, y, g)] /\ Here(sl, z, g) \in 0 .. c - 1
  <2>1. \A g \in Int : Here(sl, z, g) \in 0 .. c - 1
    BY <1>1, HeaderFacts DEF SizeIs
  <2> QED
    BY <1>1, <2>1 DEF Here, EntryNo
<1>2. ASSUME NEW j \in 0 .. c - 1
      PROVE  r[j] = Here(sl, z, (f + 1 + j) - c) /\ r[j] \in 0 .. c - 1
  <2>1. PICK k, g, d : /\ k = 1 + j /\ k \in Int /\ g = f + k /\ g \in Int
                       /\ j \in 0 .. 2 * c - 1 /\ j < c /\ j \in Int
                       /\ d = (f + 1 + j) - c /\ d \in Int /\ g = d + c * 1
    BY <1>0
  <2>2. r[j] = sl[l][(ix[l].front + 1 + j) % c]
    BY <1>1, <2>1 DEF NewRing, RingIs
  <2>3. (ix[l].front + 1 + j) % c = Turn(c, y, g)
    <3>1. Turn(c, y, f) \in Int
      BY <1>0, <1>11, TurnIn, TurnSame
    <3>2. PICK t \in Int : t = Turn(c, y, f) /\ t = ix[l].front
      BY <1>1, <3>1
    <3>3. t + 1 + j = t + k
      BY <2>1, <3>2
    <3>4. (Turn(c, y, f) + k) % c = Turn(c, y, f + k)
      <4>1. k \in Int
        BY <2>1
      <4> QED
        BY <1>0, <1>11, <4>1, TurnStep
    <3> QED
      BY <2>1, <3>2, <3>3, <3>4
  <2>4. Alike(c, g, d)
    <3>1. g \in Int /\ d \in Int /\ c \in Nat \ {0}
      BY <1>0, <2>1
    <3>2. \E x \in Int : g = d + c * x
      BY <2>1
    <3> QED
      BY <3>1, <3>2, AlikeFacts
  <2>5. Turn(c, y, g) = Turn(c, y, d)
    <3>1. g \in Int /\ d \in Int /\ c \in Nat \ {0} /\ y \in Int
      BY <1>0, <1>11, <2>1
    <3> QED
      BY <2>4, <3>1, TurnIn, TurnSame
  <2>6. r[j] = Here(sl, z, d) /\ Here(sl, z, d) \in 0 .. c - 1
    BY <1>10, <2>1, <2>2, <2>3, <2>5
  <2> QED
    BY <2>1, <2>6
<1>3. \A j \in c .. 2 * c - 1 : r[j] = j /\ j \in 0 .. 2 * c - 1
  <2>1. TAKE j \in c .. 2 * c - 1
  <2>2. j \in 0 .. 2 * c - 1 /\ ~(j < c)
    BY <1>0
  <2> QED
    BY <2>2 DEF NewRing, RingIs
<1>4. r \in [0 .. 2 * c - 1 -> 0 .. 2 * c - 1]
  <2>1. DOMAIN r = 0 .. 2 * c - 1 /\ r = [j \in 0 .. 2 * c - 1 |-> r[j]]
    BY DEF NewRing, RingIs
  <2>2. ASSUME NEW j \in 0 .. 2 * c - 1 PROVE r[j] \in 0 .. 2 * c - 1
    <3>1. CASE j < c
      <4>1. j \in 0 .. c - 1
        BY <1>0, <3>1
      <4>2. r[j] \in 0 .. c - 1
        BY <1>2, <4>1
      <4> QED
        BY <1>0, <4>2
    <3>2. CASE ~(j < c)
      <4>1. j \in c .. 2 * c - 1
        BY <1>0, <3>2
      <4> QED
        BY <1>3, <4>1
    <3> QED
      BY <3>1, <3>2
  <2> QED
    BY <2>1, <2>2
<1>5. Cardinality(DOMAIN r) = 2 * c /\ r \in Ring
  <2>1. 2 * c \in Nat \ {0} /\ DOMAIN r = 0 .. 2 * c - 1 /\ r \in [0 .. 2 * c - 1 -> Nat]
    BY <1>0, <1>4
  <2>2. PICK d \in Nat \ {0} : d = 2 * c
    BY <2>1
  <2>3. Cardinality(0 .. d - 1) = d
    BY FS_Interval
  <2> QED
    BY <2>1, <2>2, <2>3 DEF Ring
<1>6. \A j \in 0 .. c - 1 : r[j] < c
  BY <1>0, <1>2
<1> QED
  BY <1>1, <1>2, <1>3, <1>4, <1>5, <1>6

OldOnes(sl, z, sy, zy, c, f) ==
  \A m \in Int : Here(sy, zy, m) \in 0 .. c - 1
    => /\ Alike(2 * c, f - (c - 1) + Turn(2 * c, (c - 1) - f, m), m)
       /\ Turn(2 * c, (c - 1) - f, m) \in 0 .. c - 1
       /\ Here(sy, zy, m) = Here(sl, z, f - (c - 1) + Turn(2 * c, (c - 1) - f, m))

LEMMA GrownRings ==
  ASSUME NEW ix, NEW en, NEW z, NEW num, NEW size, NEW f \in Int,
         Headers(Rings(ix), en, z, size), Fronts(ix, z, f, size), SetupOK,
         NEW c, SizeIs(Rings(ix), c), 2 * c <= size,
         NEW iy, NEW ey, NEW zy, NEW numy, Grows(ix, en, z, num, f, c, iy, ey, zy, numy)
  PROVE  /\ Headers(Rings(iy), ey, zy, size) /\ Fronts(iy, zy, f, size)
         /\ GrownFrom(Rings(ix), z, en, num, Rings(iy), zy, ey, numy, f)
         /\ OldOnes(Rings(ix), z, Rings(iy), zy, c, f)
<1> HIDE DEF Ring
<1>0. c \in Nat \ {0} /\ size \in Nat /\ Len(ix) \in Nat \ {0}
  <2>1. ix \in Seq([front : 0 .. size - 1, slots : Ring])
    BY DEF Fronts
  <2>2. Len(Rings(ix)) = Len(ix)
    BY <2>1, RingsFacts
  <2> QED
    BY <2>2, HeaderFacts DEF SizeIs, Headers
<1>1. PICK l, sl, r : /\ l = Len(ix) /\ sl = Rings(ix) /\ l = Len(sl)
                      /\ c = Cap(sl, l) /\ RingIs(r, ix, c)
  <2>1. ix \in Seq([front : 0 .. size - 1, slots : Ring])
    BY DEF Fronts
  <2>2. Len(Rings(ix)) = Len(ix)
    BY <2>1, RingsFacts
  <2> QED
    BY <2>2 DEF SizeIs, Size, RingIs
<1>21. l \in Nat \ {0}
  BY <1>0, <1>1
<1>20. r \in Ring
  BY <1>1, NewRingIs
<1>22. /\ Cardinality(DOMAIN r) = 2 * c /\ r \in [0 .. 2 * c - 1 -> 0 .. 2 * c - 1]
       /\ \A j \in 0 .. c - 1 : r[j] = Here(sl, z, (f + 1 + j) - c) /\ r[j] < c
       /\ \A j \in c .. 2 * c - 1 : r[j] = j
  BY <1>1, NewRingIs
<1>2. PICK sy : /\ sy = Rings(iy) /\ sy \in Seq(Ring) /\ sy # <<>>
                /\ Len(sy) = l + 1 /\ sy[l + 1] = r /\ (\A j \in 1 .. l : sy[j] = sl[j])
                /\ iy \in Seq([front : 0 .. size - 1, slots : Ring]) /\ Len(iy) = l + 1
                /\ iy[l + 1].front = c - 1
  <2>1. PICK w : /\ w \in [front : 0 .. size - 1, slots : Ring]
                 /\ w = [front |-> c - 1, slots |-> r] /\ w.slots = r /\ w.front = c - 1
    <3>1. c - 1 \in 0 .. size - 1
      BY <1>0
    <3>2. PICK v : v = c - 1 /\ v \in 0 .. size - 1
      BY <3>1
    <3>3. PICK w : w = [front |-> v, slots |-> r]
      OBVIOUS
    <3>4. w \in [front : 0 .. size - 1, slots : Ring] /\ w.slots = r /\ w.front = v
      BY <1>20, <3>2, <3>3
    <3>5. w = [front |-> c - 1, slots |-> r]
      BY <3>2, <3>3
    <3> QED
      BY <3>2, <3>4, <3>5
  <2>2. iy = Append(ix, w) /\ ix \in Seq([front : 0 .. size - 1, slots : Ring])
    BY <1>1, <2>1 DEF Grows, RingIs, Fronts
  <2>3. /\ iy \in Seq([front : 0 .. size - 1, slots : Ring]) /\ Len(iy) = l + 1
        /\ iy[l + 1] = w /\ \A j \in 1 .. l : iy[j] = ix[j]
    <3>1. w \in [front : 0 .. size - 1, slots : Ring]
      BY <2>1
    <3>2. /\ iy \in Seq([front : 0 .. size - 1, slots : Ring]) /\ Len(iy) = Len(ix) + 1
          /\ iy[Len(ix) + 1] = w /\ \A j \in 1 .. Len(ix) : iy[j] = ix[j]
      BY <2>2, <3>1
    <3> QED
      BY <1>1, <3>2
  <2>4. /\ Rings(iy) \in Seq(Ring) /\ Len(Rings(iy)) = l + 1
        /\ (\A j \in 1 .. l + 1 : Rings(iy)[j] = iy[j].slots)
        /\ \A j \in 1 .. l : Rings(ix)[j] = ix[j].slots
    <3>1. /\ Rings(iy) \in Seq(Ring) /\ Len(Rings(iy)) = Len(iy)
          /\ \A j \in 1 .. Len(iy) : Rings(iy)[j] = iy[j].slots
      BY <2>3, RingsFacts
    <3>2. \A j \in 1 .. Len(ix) : Rings(ix)[j] = ix[j].slots
      BY <2>2, RingsFacts
    <3> QED
      BY <1>1, <2>3, <3>1, <3>2
  <2>5. \A j \in 1 .. l : Rings(iy)[j] = sl[j]
    <3>1. TAKE j \in 1 .. l
    <3>2. j \in 1 .. l + 1
      BY <1>21
    <3>3. iy[j] = ix[j]
      BY <2>3
    <3> QED
      BY <1>1, <2>4, <3>2, <3>3
  <2>6. Rings(iy)[l + 1] = r
    <3>1. l + 1 \in 1 .. l + 1
      BY <1>21
    <3> QED
      BY <2>1, <2>3, <2>4, <3>1
  <2>7. Rings(iy) # <<>>
    <3>1. Len(Rings(iy)) # 0
      BY <1>21, <2>4
    <3> QED
      BY <3>1
  <2>8. iy[l + 1].front = c - 1
    BY <2>1, <2>3
  <2> QED
    BY <2>3, <2>4, <2>5, <2>6, <2>7, <2>8
<1>3. /\ Size(sy) = 2 * c /\ Cap(sy, l + 1) = 2 * c
      /\ \A j \in 1 .. l : Cap(sy, j) = Cap(sl, j)
  BY <1>1, <1>2, <1>22, <1>21 DEF Size, Cap
<1>5. /\ zy \in [1 .. l + 1 -> Int] /\ zy[l + 1] = (c - 1) - f
      /\ \A j \in 1 .. l : zy[j] = z[j]
  <2>1. \A j \in 1 .. l : z[j] \in Int
    BY <1>1, HeaderFacts
  <2>2. zy = [j \in 1 .. l + 1 |-> IF j \in 1 .. l THEN z[j] ELSE (c - 1) - f]
    BY <1>1 DEF Grows
  <2>3. (c - 1) - f \in Int /\ l \in Nat
    BY <1>0, <1>0, <1>21
  <2> QED
    BY <2>1, <2>2, <2>3
<1>6. ASSUME NEW j \in 1 .. l, NEW m \in Int PROVE EntryNo(sy, zy, j, m) = EntryNo(sl, z, j, m)
  BY <1>2, <1>3, <1>5 DEF EntryNo
<1>7. \A m \in Int : Here(sy, zy, m) = r[Turn(2 * c, (c - 1) - f, m)]
  BY <1>2, <1>3, <1>5 DEF Here, EntryNo
<1>8. ASSUME NEW m \in Int, f - c < m, m <= f PROVE Here(sy, zy, m) = Here(sl, z, m)
  <2>1. PICK a, y, q, d : /\ a = 2 * c /\ a \in Nat \ {0} /\ y = (c - 1) - f /\ y \in Int
                          /\ q = y + m /\ q \in 0 .. a - 1 /\ q \in 0 .. c - 1
    BY <1>0, <1>21, <1>8
  <2>2. Turn(a, y, m) = q
    BY <2>1, SmallPlace DEF Turn
  <2>3. (f + 1 + q) - c = m
    BY <1>0, <1>21, <2>1
  <2> QED
    BY <1>22, <1>7, <2>1, <2>2, <2>3
<1>9. ASSUME NEW m \in Int, Here(sy, zy, m) \in 0 .. c - 1
      PROVE  /\ Alike(2 * c, f - (c - 1) + Turn(2 * c, (c - 1) - f, m), m)
             /\ Turn(2 * c, (c - 1) - f, m) \in 0 .. c - 1
             /\ Here(sy, zy, m) = Here(sl, z, f - (c - 1) + Turn(2 * c, (c - 1) - f, m))
  <2>1. PICK a, y, q : /\ a = 2 * c /\ a \in Nat \ {0} /\ y = (c - 1) - f /\ y \in Int
                       /\ q = Turn(a, y, m) /\ q \in 0 .. a - 1
    <3>1. 2 * c \in Nat \ {0} /\ (c - 1) - f \in Int
      BY <1>0, <1>21
    <3> QED
      BY <3>1, TurnIn, TurnSame
  <2>2. Here(sy, zy, m) = r[q]
    BY <1>7, <2>1
  <2>3. q \in 0 .. c - 1
    <3>1. SUFFICES ASSUME q >= c PROVE FALSE
      BY <1>0, <1>21, <2>1
    <3>2. q \in c .. 2 * c - 1
      BY <1>0, <1>21, <2>1, <3>1
    <3> QED
      BY <1>0, <1>21, <1>22, <1>9, <2>2, <3>1, <3>2
  <2>4. (f + 1 + q) - c = f - (c - 1) + q
    BY <1>0, <1>21, <2>3
  <2>5. Alike(a, f - (c - 1) + q, m)
    <3>1. PICK w, v : /\ w = y + m /\ w \in Int /\ q = w % a /\ v \in Int /\ w = a * v + q
                      /\ a * v \in Int
      <4>1. y + m \in Int /\ q = (y + m) % a
        BY <2>1 DEF Turn
      <4>2. y + m = a * ((y + m) \div a) + ((y + m) % a) /\ (y + m) \div a \in Int
        BY <2>1, <4>1, ModFacts
      <4> QED
        BY <2>1, <4>1, <4>2
    <3>2. PICK u \in Int : u = f - (c - 1) + q
      BY <1>0, <1>21, <2>3
    <3>3. m = u + a * v
      <4>1. PICK x : x = a * v /\ x \in Int /\ y + m = x + q
        BY <3>1
      <4> QED
        <5>1. /\ x \in Int /\ y + m = x + q /\ y = (c - 1) - f /\ u = f - (c - 1) + q
              /\ c \in Int /\ q \in Int /\ u \in Int
          BY <1>0, <2>1, <2>3, <3>2, <4>1
        <5>2. m = u + x
          BY <5>1
        <5> QED
          BY <4>1, <5>2
    <3>4. a \in Nat \ {0} /\ \E x \in Int : m = u + a * x
      BY <2>1, <3>1, <3>3
    <3>5. Alike(a, m, u)
      BY <3>4, AlikeFacts
    <3>6. Alike(a, u, m)
      <4>1. Alike(a, m, m)
        <5>1. m - m = 0 /\ 0 \in 0 .. a - 1
          BY <2>1
        <5> QED
          BY <2>1, <5>1, SmallPlace DEF Alike
      <4> QED
        BY <2>1, <3>5, <4>1, AlikeJoins
    <3> QED
      BY <3>2, <3>6
  <2> QED
    BY <1>22, <2>1, <2>2, <2>3, <2>4, <2>5
<1>14. numy = [e \in 0 .. 2 * c - 1 |-> IF e \in 0 .. c - 1 THEN num[e] ELSE 0]
  BY DEF Grows
<1>10. ey \in [0 .. 2 * c - 1 -> Entries] /\ (\A e \in 0 .. c - 1 : ey[e] = en[e])
       /\ \A e \in c .. 2 * c - 1 : ey[e] = Fresh
  <2>1. en \in [0 .. c - 1 -> Entries]
    BY DEF Headers, SizeIs
  <2>2. Fresh \in Entries
    <3>1. 1 \in Index
      <4>1. PICK m, b, v : m = Modulus /\ b = BLOCK_SIZE /\ b > 1 /\ b <= v /\ m = 2 * v
                     /\ m \in Int /\ b \in Int /\ v \in Int
        BY SetupMore
      <4> QED
        BY <4>1 DEF Index
    <3> QED
      BY <3>1 DEF Fresh, Entries, Implicit!INVALID_BLOCK_BASE
  <2>3. DOMAIN en = 0 .. c - 1
    BY <2>1
  <2>4. \A e \in 0 .. 2 * c - 1 : ey[e] = IF e \in 0 .. c - 1 THEN en[e] ELSE Fresh
    BY <2>3 DEF Longer, Grows
  <2>5. ey = [e \in 0 .. 2 * c - 1 |-> ey[e]]
    BY DEF Longer, Grows
  <2>6. \A e \in 0 .. c - 1 : e \in 0 .. 2 * c - 1 /\ en[e] \in Entries
    BY <1>0, <1>21, <2>1
  <2>7. \A e \in c .. 2 * c - 1 : e \in 0 .. 2 * c - 1 /\ e \notin 0 .. c - 1
    BY <1>0, <1>21
  <2> QED
    BY <2>2, <2>4, <2>5, <2>6, <2>7
<1>11. Fronts(iy, zy, f, size)
  <2>1. PICK a, y, q : /\ a = 2 * c /\ a \in Nat \ {0} /\ y = (c - 1) - f /\ y \in Int
                       /\ q = c - 1 /\ q = y + f /\ q \in 0 .. a - 1
    BY <1>0, <1>21
  <2>2. Turn(a, y, f) = q
    BY <2>1, SmallPlace DEF Turn
  <2> QED
    BY <1>2, <1>3, <1>5, <2>1, <2>2 DEF Fronts
<1>12. Headers(sy, ey, zy, size)
  <2>1. ASSUME NEW j \in 1 .. Len(sy)
        PROVE  /\ Size(sy) % Cap(sy, j) = 0
               /\ \A q \in 0 .. Cap(sy, j) - 1 : sy[j][q] < Size(sy)
    <3>1. CASE j \in 1 .. l
      <4>1. PICK d : d = Cap(sl, j) /\ d \in Nat \ {0} /\ c % d = 0 /\ Cap(sy, j) = d
        <5>1. Cap(sl, j) \in Nat \ {0}
          BY <1>1, <3>1, HeaderFacts
        <5>2. Size(sl) % Cap(sl, j) = 0 /\ Size(sl) = c
          BY <1>1, <3>1 DEF Headers, SizeIs
        <5> QED
          BY <1>3, <3>1, <5>1, <5>2
      <4>2. (2 * c) % d = 0
        <5>1. PICK w \in Int : c = d * w
          <6>1. c = d * (c \div d) + (c % d) /\ c \div d \in Int
            <7>1. c \in Int /\ d \in Nat \ {0}
              BY <1>0, <4>1
            <7> QED
              BY <7>1, ModFacts
          <6>2. d * (c \div d) \in Int
            BY <4>1, <6>1
          <6>3. c = d * (c \div d)
            BY <1>0, <1>21, <4>1, <6>1, <6>2
          <6> QED
            BY <6>1, <6>3
        <5>2. 2 * c = d * (2 * w) + 0 /\ 2 * w \in Int /\ 0 \in 0 .. d - 1
          BY <4>1, <5>1
        <5>3. (d * (2 * w) + 0) % d = 0
          <6>1. d \in Nat \ {0} /\ 2 * w \in Int /\ 0 \in 0 .. d - 1
            BY <4>1, <5>2
          <6> QED
            BY <6>1, ModUnique, Zenon
        <5> QED
          BY <5>2, <5>3
      <4>3. \A q \in 0 .. d - 1 : sy[j][q] \in Int /\ sy[j][q] < c
        <5>1. \A q \in 0 .. Cap(sl, j) - 1 : sl[j][q] \in 0 .. Size(sl) - 1
          BY <1>1, <3>1, HeaderFacts
        <5>2. Size(sl) = c /\ sy[j] = sl[j] /\ Cap(sl, j) = d
          BY <1>1, <1>2, <3>1, <4>1 DEF SizeIs
        <5>3. \A q \in 0 .. d - 1 : sy[j][q] \in 0 .. c - 1
          BY <5>1, <5>2
        <5> QED
          BY <1>0, <5>3
      <4>4. Size(sy) = 2 * c
        BY <1>3, Zenon
      <4>5. \A x \in Int : x < c => x < 2 * c
        BY <1>0, <1>21
      <4>6. Size(sy) % Cap(sy, j) = 0
        BY <4>1, <4>2, <4>4, Zenon
      <4>7. \A q \in 0 .. Cap(sy, j) - 1 : sy[j][q] < Size(sy)
        BY <4>1, <4>3, <4>4, <4>5, Zenon
      <4> QED
        BY <4>6, <4>7
    <3>2. CASE j = l + 1
      <4>1. (2 * c) % (2 * c) = 0
        <5>1. PICK a : a = 2 * c /\ a \in Nat \ {0} /\ a * 1 + 0 = a /\ 0 \in 0 .. a - 1
          BY <1>0, <1>21
        <5>2. (a * 1 + 0) % a = 0
          BY <5>1, ModUnique
        <5> QED
          BY <5>1, <5>2
      <4>2. \A q \in 0 .. 2 * c - 1 : r[q] < 2 * c
        BY <1>0, <1>21, <1>22
      <4> QED
        BY <1>2, <1>3, <3>2, <4>1, <4>2
    <3> QED
      BY <1>0, <1>21, <1>2, <3>1, <3>2
  <2>2. ASSUME NEW p \in 0 .. 2 * c - 1, NEW q \in 0 .. 2 * c - 1, r[p] = r[q] PROVE p = q
    <3>1. ASSUME NEW x \in 0 .. c - 1, NEW y \in c .. 2 * c - 1 PROVE r[x] # r[y]
      <4>1. r[x] < c /\ r[y] = y /\ r[x] \in Int
        BY <1>0, <1>21, <1>22
      <4> QED
        BY <1>0, <1>21, <4>1
    <3>2. CASE p < c /\ q < c
      <4>1. p \in 0 .. c - 1 /\ q \in 0 .. c - 1
        BY <1>0, <1>21, <3>2
      <4>2. PICK u, v : /\ u = (f + 1 + p) - c /\ v = (f + 1 + q) - c /\ u \in Int /\ v \in Int
        BY <1>0, <1>21
      <4>3. Here(sl, z, u) = Here(sl, z, v)
        BY <1>22, <2>2, <4>1, <4>2
      <4>4. Alike(c, u, v)
        <5>1. u \in Int /\ v \in Int /\ Size(sl) = c /\ Headers(sl, en, z, size)
          BY <1>1, <4>2 DEF SizeIs
        <5> QED
          BY <4>3, <5>1, SameEntry
      <4>5. u - v < c /\ v - u < c
        BY <1>0, <1>21, <4>1, <4>2
      <4>6. u = v
        BY <1>0, <1>21, <4>2, <4>4, <4>5, AlikeFacts
      <4> QED
        BY <1>0, <1>21, <4>2, <4>6
    <3>3. CASE p >= c /\ q >= c
      <4>1. p \in c .. 2 * c - 1 /\ q \in c .. 2 * c - 1
        BY <1>0, <1>21, <3>3
      <4> QED
        BY <1>22, <2>2, <4>1
    <3>4. CASE p < c /\ q >= c
      <4>1. p \in 0 .. c - 1 /\ q \in c .. 2 * c - 1
        BY <1>0, <1>21, <3>4
      <4> QED
        BY <2>2, <3>1, <4>1
    <3>5. CASE q < c /\ p >= c
      <4>1. q \in 0 .. c - 1 /\ p \in c .. 2 * c - 1
        BY <1>0, <1>21, <3>5
      <4> QED
        BY <2>2, <3>1, <4>1
    <3> QED
      BY <1>0, <1>21, <3>2, <3>3, <3>4, <3>5
  <2> QED
    BY <1>1, <1>2, <1>3, <1>5, <1>10, <2>1, <2>2 DEF Headers
<1>13. GrownFrom(sl, z, en, num, sy, zy, ey, numy, f)
  <2>1. \A e \in 0 .. c - 1 : ey[e] = en[e] /\ numy[e] = num[e]
    <3>1. \A e \in 0 .. c - 1 : e \in 0 .. 2 * c - 1
      BY <1>0, <1>21
    <3> QED
      BY <1>10, <1>14, <3>1
  <2>2. \A e \in c .. 2 * c - 1 : ~Valid(ey, e)
    BY <1>10 DEF Valid, Fresh
  <2>3. Size(sl) = c /\ Len(sl) = l /\ Len(sy) = l + 1
    BY <1>1, <1>2 DEF SizeIs
  <2> QED
    BY <1>2, <1>3, <1>5, <1>6, <1>8, <2>1, <2>2, <2>3 DEF GrownFrom
<1>15. OldOnes(sl, z, sy, zy, c, f)
  BY <1>9 DEF OldOnes
<1> QED
  BY <1>1, <1>2, <1>11, <1>12, <1>13, <1>15

LEMMA PlaceInWindow ==
  ASSUME NEW c \in Nat \ {0}, NEW y \in Int, NEW f \in Int, NEW q \in 0 .. c - 1
  PROVE  \E n \in Int : f - c < n /\ n <= f /\ Turn(c, y, n) = q
<1>1. PICK x, g : x = q - y /\ x \in Int /\ g = f - x /\ g \in Int /\ IsSumOf(q, y, x)
  <2>1. q - y \in Int /\ f - (q - y) \in Int /\ q = y + (q - y)
    OBVIOUS
  <2> QED
    BY <2>1 DEF IsSumOf
<1>2. PICK r, v, n : /\ r = g % c /\ r \in 0 .. c - 1 /\ v \in Int /\ g = c * v + r /\ c * v \in Int
                  /\ n = f - r /\ n \in Int
  <2>1. g % c \in 0 .. c - 1 /\ g \div c \in Int /\ g = c * (g \div c) + (g % c)
    BY <1>1, ModFacts
  <2>2. c * (g \div c) \in Int /\ f - (g % c) \in Int
    BY <2>1
  <2> QED
    BY <2>1, <2>2
<1>3. \E k \in Int : n = x + c * k
  <2>1. PICK w \in Int : w = c * v
    BY <1>2
  <2>2. g = w + r
    BY <1>2, <2>1
  <2>3. n = x + w
    BY <1>1, <1>2, <2>2
  <2> QED
    BY <1>2, <2>1, <2>3
<1>4. Alike(c, n, x)
  BY <1>1, <1>2, <1>3, AlikeFacts
<1>5. Turn(c, y, x) = q
  BY <1>1, PlaceOf
<1>6. Turn(c, y, n) = q
  <2>1. n \in Int /\ x \in Int
    BY <1>1, <1>2
  <2>2. Turn(c, y, n) = Turn(c, y, x)
    BY <1>4, <2>1, TurnSame
  <2> QED
    BY <1>5, <2>2
<1>7. f - c < n /\ n <= f /\ n \in Int
  <2>1. n \in Int /\ r \in 0 .. c - 1 /\ n = f - r
    BY <1>2
  <2> QED
    BY <2>1
<1> QED
  BY <1>6, <1>7

LEMMA IndexGrown ==
  ASSUME SetupOK, NEW ix, NEW en, NEW z, NEW num, NEW f, NEW blk, NEW p, NEW size,
         Indexed(Rings(ix), en, z, num, f, blk, p, setup.start, size), Fronts(ix, z, f, size),
         NEW c, SizeIs(Rings(ix), c), 2 * c <= size, \A m \in DOMAIN blk : m <= f,
         \A n \in Int : f - c < n /\ n <= f => Exact(Rings(ix), en, z, num, n),
         NEW iy, NEW ey, NEW zy, NEW numy, Grows(ix, en, z, num, f, c, iy, ey, zy, numy)
  PROVE  /\ Indexed(Rings(iy), ey, zy, numy, f, blk, p, setup.start, size)
         /\ Fronts(iy, zy, f, size)
         /\ GrownFrom(Rings(ix), z, en, num, Rings(iy), zy, ey, numy, f)
<1>1. /\ f \in Int /\ p \in Int /\ c \in Nat \ {0} /\ num \in [0 .. c - 1 -> Int]
      /\ Headers(Rings(ix), en, z, size)
  <2>1. f \in Int /\ p \in Int /\ Headers(Rings(ix), en, z, size)
    BY DEF Indexed, Reach, Keys
  <2>2. c \in Nat \ {0} /\ num \in [0 .. c - 1 -> Int]
    BY <2>1, HeaderFacts DEF SizeIs, Indexed, Keys
  <2> QED
    BY <2>1, <2>2
<1>2. PICK sl, sy, l : sl = Rings(ix) /\ sy = Rings(iy) /\ l = Len(sl)
  OBVIOUS
<1>3. /\ Headers(sy, ey, zy, size) /\ Fronts(iy, zy, f, size)
      /\ GrownFrom(sl, z, en, num, sy, zy, ey, numy, f)
      /\ OldOnes(sl, z, sy, zy, c, f)
  BY <1>1, <1>2, GrownRings
<1>4. /\ Size(sl) = c /\ Size(sy) = 2 * c /\ Len(sy) = l + 1 /\ l \in Nat \ {0}
      /\ \A e \in 0 .. c - 1 : ey[e] = en[e] /\ numy[e] = num[e]
      /\ \A e \in c .. 2 * c - 1 : ~Valid(ey, e)
      /\ \A m \in Int : f - c < m /\ m <= f => Here(sy, zy, m) = Here(sl, z, m)
      /\ numy \in [0 .. 2 * c - 1 -> Int]
  <2>1. numy = [e \in 0 .. 2 * c - 1 |-> IF e \in 0 .. c - 1 THEN num[e] ELSE 0]
    BY DEF Grows
  <2>2. numy \in [0 .. 2 * c - 1 -> Int]
    BY <1>1, <2>1
  <2>3. l \in Nat \ {0}
    BY <1>1, <1>2, HeaderFacts
  <2> QED
    BY <1>2, <1>3, <2>2, <2>3 DEF GrownFrom, SizeIs
<1>5. \A e \in 0 .. c - 1 : Valid(ey, e) <=> Valid(en, e)
  BY <1>4 DEF Valid
<1>6. \A n \in Int : Here(sl, z, n) \in 0 .. c - 1
  BY <1>1, <1>2, <1>4, HeaderFacts
<1>7. ASSUME NEW n \in Int, f - c < n, n <= f, Exact(sl, en, z, num, n)
      PROVE  Exact(sy, ey, zy, numy, n) /\ ey[Here(sy, zy, n)] = en[Here(sl, z, n)]
  <2>1. Here(sy, zy, n) = Here(sl, z, n) /\ Here(sl, z, n) \in 0 .. c - 1
    BY <1>4, <1>6, <1>7
  <2> QED
    BY <1>4, <1>5, <1>7, <2>1 DEF Exact
<1>8. ASSUME NEW n \in Int, n <= f, Reached(blk, p, n) PROVE f - c < n
  <2>1. f < n + Size(Rings(ix))
    BY <1>8, Window
  <2> QED
    BY <1>1, <1>2, <1>4, <2>1
<1>9. Reach(sy, ey, zy, numy, f, blk, p)
  <2>1. ASSUME NEW n \in Int, n <= f, Reached(blk, p, n) PROVE Exact(sy, ey, zy, numy, n)
    <3>1. Exact(sl, en, z, num, n)
      BY <1>2, <2>1 DEF Indexed, Reach
    <3> QED
      BY <1>7, <1>8, <2>1, <3>1
  <2> QED
    BY <1>1, <2>1 DEF Reach
<1>10. Listed(sy, ey, zy, numy, blk)
  <2>1. ASSUME NEW m \in DOMAIN blk
        PROVE  /\ m \in Nat /\ blk[m] \in Block
               /\ Exact(sy, ey, zy, numy, m) /\ ey[Here(sy, zy, m)].value = blk[m]
    <3>1. /\ m \in Nat /\ blk[m] \in Block
          /\ Exact(sl, en, z, num, m) /\ en[Here(sl, z, m)].value = blk[m]
      BY <1>2 DEF Indexed, Listed
    <3>2. m \in Int /\ m <= f /\ Reached(blk, p, m)
      BY <3>1 DEF Reached
    <3>3. f - c < m
      BY <1>8, <3>2
    <3> QED
      BY <1>7, <3>1, <3>2, <3>3
  <2> QED
    BY <2>1 DEF Listed
<1>11. Keys(sy, ey, zy, numy, blk, p, setup.start)
  <2>1. ASSUME NEW e \in 0 .. 2 * c - 1, Valid(ey, e)
        PROVE  /\ ey[e].key = Key(setup.start, numy[e]) /\ numy[e] <= p + 2 * c
               /\ \A m \in DOMAIN blk : numy[e] < m + 2 * c
    <3>1. e \in 0 .. c - 1
      <4>1. e \notin c .. 2 * c - 1
        BY <1>4, <2>1
      <4> QED
        BY <1>1, <4>1
    <3>2. /\ en[e].key = Key(setup.start, num[e]) /\ num[e] <= p + c
          /\ \A m \in DOMAIN blk : num[e] < m + c
      BY <1>2, <1>4, <1>5, <2>1, <3>1 DEF Indexed, Keys
    <3>3. \A m \in DOMAIN blk : m \in Int
      BY DEF Indexed, Listed
    <3>4. PICK w : w = num[e] /\ w \in Int
      BY <1>1, <3>1
    <3>5. w <= p + c /\ \A m \in DOMAIN blk : m \in Int /\ w < m + c
      BY <3>2, <3>3, <3>4
    <3>6. w <= p + 2 * c /\ \A m \in DOMAIN blk : w < m + 2 * c
      BY <1>1, <3>4, <3>5
    <3> QED
      BY <1>4, <3>1, <3>2, <3>4, <3>6
  <2>2. ASSUME NEW j \in 1 .. l
        PROVE  /\ Cap(sy, j) = Cap(sl, j) /\ sy[j] = sl[j] /\ j \in 1 .. Len(sl)
               /\ \A m \in Int : /\ EntryNo(sy, zy, j, m) = EntryNo(sl, z, j, m)
                                 /\ EntryNo(sl, z, j, m) \in 0 .. c - 1
               /\ \A q \in 0 .. Cap(sl, j) - 1 : sl[j][q] \in 0 .. c - 1
    <3>1. sy[j] = sl[j] /\ \A m \in Int : EntryNo(sy, zy, j, m) = EntryNo(sl, z, j, m)
      BY <1>2, <1>3 DEF GrownFrom
    <3>2. /\ \A m \in Int : EntryNo(sl, z, j, m) \in 0 .. Size(sl) - 1
          /\ \A q \in 0 .. Cap(sl, j) - 1 : sl[j][q] \in 0 .. Size(sl) - 1
      BY <1>1, <1>2, HeaderFacts
    <3> QED
      BY <1>2, <1>4, <3>1, <3>2 DEF Cap
  <2>3. ASSUME NEW j \in 1 .. l + 1, NEW m \in Int, Valid(ey, EntryNo(sy, zy, j, m))
        PROVE  Alike(Cap(sy, j), numy[EntryNo(sy, zy, j, m)], m)
    <3>1. CASE j \in 1 .. l
      <4>1. PICK x : x = EntryNo(sl, z, j, m) /\ x = EntryNo(sy, zy, j, m) /\ x \in 0 .. c - 1
        BY <2>2, <3>1
      <4>2. Valid(en, x) /\ numy[x] = num[x]
        BY <1>4, <1>5, <2>3, <4>1
      <4>3. Alike(Cap(sl, j), num[x], m)
        BY <1>2, <2>2, <3>1, <4>1, <4>2 DEF Indexed, Keys
      <4> QED
        BY <2>2, <3>1, <4>1, <4>2, <4>3
    <3>2. CASE j = l + 1
      <4>1. PICK x : x = EntryNo(sy, zy, j, m) /\ x = Here(sy, zy, m) /\ x \in 0 .. 2 * c - 1
        BY <1>3, <1>4, <3>2, HeaderFacts DEF Here
      <4>2. x \in 0 .. c - 1
        <5>1. x \notin c .. 2 * c - 1
          BY <1>4, <2>3, <4>1
        <5> QED
          BY <1>1, <4>1, <5>1
      <4>3. PICK q, n : /\ q = Turn(2 * c, (c - 1) - f, m) /\ q \in 0 .. c - 1
                        /\ n = f - (c - 1) + q /\ Alike(2 * c, n, m) /\ x = Here(sl, z, n)
        BY <1>3, <4>1, <4>2 DEF OldOnes
      <4>4. n \in Int /\ f - c < n /\ n <= f
        <5>1. q \in 0 .. c - 1 /\ n = f - (c - 1) + q
          BY <4>3
        <5> QED
          BY <1>1, <5>1
      <4>5. num[x] = n /\ numy[x] = num[x]
        BY <1>2, <1>4, <4>2, <4>3, <4>4 DEF Exact
      <4>6. Cap(sy, j) = 2 * c
        BY <1>4, <3>2 DEF Size
      <4> QED
        BY <4>1, <4>3, <4>5, <4>6
    <3> QED
      BY <1>4, <3>1, <3>2
  <2>4. ASSUME NEW j \in 1 .. l, NEW q \in 0 .. Cap(sl, j) - 1 PROVE Valid(en, sl[j][q])
    <3>1. CASE j = l
      <4>1. PICK y : y = z[l] /\ y \in Int /\ Cap(sl, l) = c /\ q \in 0 .. c - 1
        BY <1>1, <1>2, <1>4, <3>1, HeaderFacts DEF Size
      <4>2. PICK n \in Int : f - c < n /\ n <= f /\ Turn(c, y, n) = q
        BY <1>1, <4>1, PlaceInWindow, ZenonT(40)
      <4>3. Here(sl, z, n) = sl[l][q]
        BY <1>2, <4>1, <4>2 DEF Here, EntryNo
      <4> QED
        BY <1>2, <3>1, <4>2, <4>3 DEF Exact
    <3>2. CASE j # l
      <4>1. j \in 1 .. Len(sl) - 1
        BY <1>2, <1>4, <3>2
      <4> QED
        BY <1>2, <4>1 DEF Indexed, Keys
    <3> QED
      BY <3>1, <3>2
  <2>5. ASSUME NEW j \in 1 .. l, NEW q \in 0 .. Cap(sy, j) - 1 PROVE Valid(ey, sy[j][q])
    BY <1>5, <2>2, <2>4
  <2>6. Len(sy) = l + 1 /\ Len(sy) - 1 = l /\ Size(sy) = 2 * c
    BY <1>4
  <2> QED
    BY <1>1, <1>4, <2>1, <2>3, <2>5, <2>6 DEF Keys
<1> QED
  BY <1>2, <1>3, <1>9, <1>10, <1>11 DEF Indexed

-----------------------------------------------------------------------------
(* An implicit sub-queue and its calls.  Elements and blocks go by their   *)
(* numbers; st is the index of element 0.  First the elements that a       *)
(* consumer has claimed and not moved out.                                 *)
Begin(st, d) == Minus(d.at, st)
Finish(st, d) == Minus(d.end, st)
Halt(st, d) == StopAt(Begin(st, d), Finish(st, d))
Number(st, d) == Begin(st, d) \div BLOCK_SIZE
Taking(d) == d.pc \in LookingPcs
From(st, d) == IF d.pc \in {"unlink", "recycle"} THEN Halt(st, d) ELSE Begin(st, d)
Mine(st, d) == IF Taking(d) THEN From(st, d) .. Finish(st, d) - 1 ELSE {}
Claimed(st, dq) == UNION {Mine(st, dq[c]) : c \in Consumer}

Ranged(st, d, h) ==
  Taking(d) =>
    /\ d.at \in Index /\ d.end \in Index
    /\ Begin(st, d) < Finish(st, d) /\ Finish(st, d) <= h
Shared(st, dq, h) ==
  /\ \A c \in Consumer : Ranged(st, dq[c], h)
  /\ \A c, e \in Consumer : c # e => Mine(st, dq[c]) \cap Mine(st, dq[e]) = {}

(* The elements that are in the blocks, and those that have left them.     *)
Present(st, dq, h, built) == Claimed(st, dq) \cup (h .. built - 1)
Gone(st, dq, h) == (0 .. h - 1) \ Claimed(st, dq)

Vacant == [s \in Slot |-> Nil]
Stored(st, el, out, blk, present, gone) ==
  /\ el \in [Block -> [Slot -> Index \cup {Nil}]] /\ out \in [Block -> 0 .. BLOCK_SIZE]
  /\ \A m \in DOMAIN blk : \A s \in Slot :
       el[blk[m]][s] = IF m * BLOCK_SIZE + s \in present
                       THEN Plus(st, m * BLOCK_SIZE + s) ELSE Nil
  /\ \A m \in DOMAIN blk :
       out[blk[m]] = Cardinality({s \in Slot : m * BLOCK_SIZE + s \in gone})
  /\ \A b \in Block : (\A m \in DOMAIN blk : blk[m] # b) => el[b] = Vacant
  /\ \A x \in present : x \div BLOCK_SIZE \in DOMAIN blk

(* Every block is in the pool, withdrawn, in use, or in the hands of the   *)
(* consumer that recycles it.                                              *)
Recycles(d) == d.pc = "recycle"
Owned(all, pl, loose, blk, dq) ==
  /\ pl \subseteq all /\ loose \subseteq all /\ pl \cap loose = {}
  /\ \A m \in DOMAIN blk : blk[m] \in all /\ blk[m] \notin pl /\ blk[m] \notin loose
  /\ \A m, n \in DOMAIN blk : blk[m] = blk[n] => m = n
  /\ \A c \in Consumer : Recycles(dq[c]) =>
       /\ dq[c].block \in all /\ dq[c].block \notin pl /\ dq[c].block \notin loose
       /\ \A m \in DOMAIN blk : blk[m] # dq[c].block
  /\ \A c, e \in Consumer :
       Recycles(dq[c]) /\ Recycles(dq[e]) /\ dq[c].block = dq[e].block => c = e
  /\ \A b \in all : \/ b \in pl \/ b \in loose
                    \/ \E m \in DOMAIN blk : blk[m] = b
                    \/ \E c \in Consumer : Recycles(dq[c]) /\ dq[c].block = b

(* What a consumer knows of the index and of its block.                    *)
Whole(m, gone) == \A s \in Slot : m * BLOCK_SIZE + s \in gone
LookedUp(st, d, sl, en, z, num, blk, gone) ==
  /\ d.pc \in LookingPcs \ {"header"} =>
       /\ d.header \in 1 .. Len(sl)
       /\ \A m \in DOMAIN blk : Number(st, d) <= m /\ m * BLOCK_SIZE < Finish(st, d) =>
            EntryNo(sl, z, d.header, m) = Here(sl, z, m)
  /\ d.pc = "base" =>
       /\ d.front \in 0 .. Cap(sl, d.header) - 1 /\ Valid(en, sl[d.header][d.front])
       /\ Number(st, d) <= num[sl[d.header][d.front]]
  /\ d.pc \in {"block", "read", "unlink", "recycle"} =>
       d.pos = Turn(Cap(sl, d.header), z[d.header], Number(st, d))
  /\ d.pc \in {"read", "unlink"} => {"at", "end", "header", "pos", "block"} \subseteq DOMAIN d
  /\ d.pc = "read" => d.block = blk[Number(st, d)]
  /\ d.pc = "unlink" => /\ Number(st, d) \in DOMAIN blk /\ d.block = blk[Number(st, d)]
                        /\ Whole(Number(st, d), gone)
Unlinks(st, d, m) == d.pc = "unlink" /\ Number(st, d) = m
Consuming(st, dq, sl, en, z, num, blk, gone) ==
  /\ \A c \in Consumer : LookedUp(st, dq[c], sl, en, z, num, blk, gone)
  /\ \A c, e \in Consumer : \A m \in DOMAIN blk :
       Unlinks(st, dq[c], m) /\ Unlinks(st, dq[e], m) => c = e
  /\ \A m \in DOMAIN blk : Whole(m, gone) => \E c \in Consumer : Unlinks(st, dq[c], m)

(* The producer has taken the blocks ch of the numbers up to t, and has    *)
(* withdrawn those up to w; tip is the number of the tail's block.         *)
Tip(total) == (total - 1) \div BLOCK_SIZE
Last(total, n) == Tip(total + n)
Chosen(all, tip, t, w, ch, blk) ==
  /\ tip \in Int /\ t \in Int /\ w \in Int /\ tip <= w /\ w <= t
  /\ ch \in [tip + 1 .. t -> all]
  /\ \A m, n \in tip + 1 .. t : ch[m] = ch[n] => m = n
  /\ \A m \in DOMAIN blk : m <= t
  /\ \A m \in tip + 1 .. t : m \in DOMAIN blk <=> w < m
  /\ \A m \in tip + 1 .. t : w < m => blk[m] = ch[m]
Loose(tip, w, ch) == {ch[m] : m \in tip + 1 .. w}
Chained(nx, tip, t, ch) ==
  \A m \in tip + 1 .. t : nx[ch[m]] = IF m = t THEN Nil ELSE ch[m + 1]
FirstTaken(tip, t, ch) == IF t = tip THEN Nil ELSE ch[tip + 1]
Starts(start, first, nx, total, blk) ==
  /\ start \in BlockOrNil
  /\ Tip(total) \in DOMAIN blk => start = blk[Tip(total)]
  /\ total % BLOCK_SIZE # 0 =>
       /\ Tip(total) \in DOMAIN blk
       /\ first # Nil => nx[start] = first

FindingPcs == {"room", "insert", "grow", "tail", "take", "undo"}
Resting(e, tb, nx, total, t, w, f, blk) ==
  e = NoCall /\ t = Tip(total) /\ w = t /\ f = t /\ Starts(tb, Nil, nx, total, blk)
Finding(st, e, tb, nx, total, t, w, ch, f, blk) ==
  /\ {"pc", "n", "base", "first", "start"} \subseteq DOMAIN e
  /\ e.base = Key(st, t) /\ e.first = FirstTaken(Tip(total), t, ch)
  /\ Starts(e.start, e.first, nx, total, blk)
  /\ tb = IF t = Tip(total) THEN e.start ELSE ch[t]
  /\ w = Tip(total) /\ t < Last(total, e.n) /\ Chained(nx, Tip(total), t, ch)
  /\ f = IF e.pc = "take" THEN t + 1 ELSE t
Withdrawing(st, e, nx, total, t, w, ch, f, blk) ==
  /\ {"pc", "n", "base", "first", "start", "at"} \subseteq DOMAIN e
  /\ e.base = Key(st, w) /\ e.first = FirstTaken(Tip(total), t, ch)
  /\ Starts(e.start, Nil, nx, total, blk)
  /\ e.at = (IF w = t THEN Nil ELSE ch[w + 1]) /\ (e.pc = "free" <=> w = t)
  /\ Chained(nx, Tip(total), t, ch)
  /\ f = t - (w - Tip(total))
Constructing(st, e, tb, nx, total, t, w, f, blk) ==
  /\ {"pc", "n", "at", "last"} \subseteq DOMAIN e
  /\ e.at \in Index /\ total <= Begin(st, e) /\ Begin(st, e) < total + e.n
  /\ w = Tip(total) /\ f = t /\ t = Last(total, e.n)
  /\ \A m \in Number(st, e) .. t : m \in DOMAIN blk
  /\ tb = blk[Number(st, e)] /\ e.last = blk[t]
  /\ \A m \in Number(st, e) .. t - 1 : nx[blk[m]] = blk[m + 1]
Publishing(e, tb, total, t, w, f, blk) ==
  w = Tip(total) /\ f = t /\ t = Last(total, e.n) /\ t \in DOMAIN blk /\ tb = blk[t]
Producing(st, e, tb, nx, total, t, w, ch, f, blk) ==
  /\ nx \in [Block -> BlockOrNil] /\ tb \in BlockOrNil
  /\ e.pc \in {"idle", "unindex", "free", "construct", "publish"} \cup FindingPcs
  /\ e.pc = "idle" => Resting(e, tb, nx, total, t, w, f, blk)
  /\ e.pc \in FindingPcs => Finding(st, e, tb, nx, total, t, w, ch, f, blk)
  /\ e.pc \in {"unindex", "free"} => Withdrawing(st, e, nx, total, t, w, ch, f, blk)
  /\ e.pc = "construct" => Constructing(st, e, tb, nx, total, t, w, f, blk)
  /\ e.pc = "publish" => Publishing(e, tb, total, t, w, f, blk)
Built(st, e, total) == CASE e.pc = "construct" -> Begin(st, e)
                         [] e.pc = "publish" -> total + e.n
                         [] OTHER -> total

Unsettled(l, sl, z, f) == CASE l = "tail" -> {Here(sl, z, f + 1)}
                            [] l = "take" -> {Here(sl, z, f)}
                            [] OTHER -> {}
Marked(l, sl, en, z, num, f, blk) ==
  /\ Occupied(sl, en, z, blk, Unsettled(l, sl, z, f))
  /\ l = "tail" => Exact(sl, en, z, num, f + 1)
  /\ l = "grow" => \A n \in Int : f - Size(sl) < n /\ n <= f => Exact(sl, en, z, num, n)

(* The sub-queue, with the numbers of its blocks and entries.              *)
HeadNo == Off(headIndex)
PresentNow == Present(setup.start, deq, HeadNo, Built(setup.start, enq, enqueued))
GoneNow == Gone(setup.start, deq, HeadNo)
Settled(z, num, f, blk, t, w, ch) ==
  /\ Shared(setup.start, deq, HeadNo)
  /\ Stored(setup.start, elements, dequeued, blk, PresentNow, GoneNow)
  /\ Owned(setup.blocks, pool, Loose(Tip(enqueued), w, ch), blk, deq)
  /\ Consuming(setup.start, deq, Rings(index), entry, z, num, blk, GoneNow)
  /\ Chosen(setup.blocks, Tip(enqueued), t, w, ch, blk)
  /\ Producing(setup.start, enq, tailBlock, next, enqueued, t, w, ch, f, blk)
  /\ Indexed(Rings(index), entry, z, num, f, blk, Tip(enqueued), setup.start, setup.indexSize)
  /\ Fronts(index, z, f, setup.indexSize)
  /\ Marked(enq.pc, Rings(index), entry, z, num, f, blk)

LEMMA TipFacts ==
  ASSUME SetupOK, NEW total \in Int
  PROVE  /\ Tip(total) \in Int
         /\ \A m \in Int : m * BLOCK_SIZE < total <=> m <= Tip(total)
         /\ total % BLOCK_SIZE = 0 => Tip(total) * BLOCK_SIZE + BLOCK_SIZE = total
         /\ total % BLOCK_SIZE # 0 => Tip(total) = total \div BLOCK_SIZE
<1>1. PICK b, y, t : /\ b = BLOCK_SIZE /\ b \in Nat \ {0} /\ y = total - 1 /\ y \in Int /\ t = y \div b
                     /\ t \in Int /\ t = Tip(total)
  <2>1. BLOCK_SIZE \in Nat \ {0} /\ total - 1 \in Int
    BY SetupMore
  <2> QED
    BY <2>1, DivFacts DEF Tip
<1>2. t * b \in Int /\ t * b <= y /\ y < t * b + b
  <2>1. (y \div b) * b \in Int /\ (y \div b) * b <= y /\ y < (y \div b) * b + b
    BY <1>1, DivFacts
  <2> QED
    BY <1>1, <2>1
<1>3. ASSUME NEW m \in Int PROVE m * b < total <=> m <= t
  <2>1. /\ m * b \in Int /\ (m <= t => m * b <= t * b)
        /\ (t < m => t * b + b <= m * b)
    BY <1>1, MulStep
  <2>2. m <= t \/ t < m
    BY <1>1
  <2> QED
    BY <1>1, <1>2, <2>1, <2>2
<1>4. PICK q, r : /\ q = total \div b /\ r = total % b /\ q \in Int /\ r \in 0 .. b - 1
                  /\ q * b \in Int /\ total = q * b + r
  <2>1. /\ total \div b \in Int /\ total % b \in 0 .. b - 1 /\ (total \div b) * b \in Int
        /\ total = (total \div b) * b + (total % b)
    BY <1>1, DivFacts
  <2> QED
    BY <2>1
<1>5. r # 0 => t = q
  <2>1. r # 0 => q * b <= y /\ y < q * b + b
    BY <1>1, <1>4
  <2> QED
    BY <1>1, <1>4, <2>1, DivIs, ZenonT(40)
<1>6. r = 0 => t * b + b = total
  <2>1. (q - 1) * b = q * b - b /\ q - 1 \in Int /\ (q - 1) * b \in Int
    BY <1>1, <1>4, MulStep
  <2>2. r = 0 => (q - 1) * b <= y /\ y < (q - 1) * b + b
    BY <1>1, <1>4, <2>1
  <2>3. r = 0 => t = q - 1
    BY <1>1, <2>1, <2>2, DivIs
  <2> QED
    BY <1>1, <1>4, <2>1, <2>3
<1> QED
  BY <1>1, <1>3, <1>4, <1>5, <1>6

(* What a call has claimed, in numbers.                                     *)
LEMMA CallFacts ==
  ASSUME SetupOK, NEW d, NEW h \in Int, Ranged(setup.start, d, h), Taking(d)
  PROVE  \E a, e, s, n \in Int :
           /\ a = Begin(setup.start, d) /\ e = Finish(setup.start, d)
           /\ s = Halt(setup.start, d) /\ n = Number(setup.start, d)
           /\ a \in Index /\ e \in Index /\ d.at = Idx(a) /\ d.end = Idx(e)
           /\ 0 <= a /\ a < s /\ s <= e /\ e <= h /\ s = StopAt(a, e) /\ e < Modulus
           /\ n = a \div BLOCK_SIZE /\ n * BLOCK_SIZE \in Int
           /\ n * BLOCK_SIZE <= a /\ s <= n * BLOCK_SIZE + BLOCK_SIZE
           /\ s = e \/ s = n * BLOCK_SIZE + BLOCK_SIZE
<1>1. PICK a, e : /\ a = Begin(setup.start, d) /\ e = Finish(setup.start, d)
                  /\ a \in Index /\ e \in Index /\ d.at = Idx(a) /\ d.end = Idx(e)
                  /\ a < e /\ e <= h
  <2>1. d.at \in Index /\ d.end \in Index
    BY DEF Ranged
  <2> QED
    BY <2>1, OffsetFacts DEF Ranged, Begin, Finish, Off
<1>2. a \in Int /\ e \in Int /\ 0 <= a /\ e < Modulus
  BY <1>1, SetupFacts DEF Index
<1>3. PICK s : /\ s = Halt(setup.start, d) /\ s = StopAt(a, e) /\ s \in Int /\ a < s /\ s <= e
               /\ s <= (a \div BLOCK_SIZE) * BLOCK_SIZE + BLOCK_SIZE
               /\ s = e \/ s = (a \div BLOCK_SIZE) * BLOCK_SIZE + BLOCK_SIZE
  BY <1>1, <1>2, StopAtFacts DEF Halt
<1>4. PICK n : /\ n = Number(setup.start, d) /\ n \in Int /\ n = a \div BLOCK_SIZE
               /\ n * BLOCK_SIZE \in Int /\ n * BLOCK_SIZE <= a
  <2>1. BLOCK_SIZE \in Nat \ {0}
    BY SetupMore
  <2> QED
    BY <1>1, <1>2, <2>1, DivFacts DEF Number
<1> QED
  BY <1>1, <1>2, <1>3, <1>4

LEMMA MineFacts ==
  ASSUME SetupOK, NEW d, NEW h \in Int, Ranged(setup.start, d, h)
  PROVE  /\ Mine(setup.start, d) \subseteq 0 .. h - 1
         /\ Taking(d) /\ d.pc \notin {"unlink", "recycle"} =>
              \A x \in Int : Begin(setup.start, d) <= x /\ x < Finish(setup.start, d)
                             => x \in Mine(setup.start, d)
<1>1. CASE ~Taking(d)
  BY <1>1 DEF Mine
<1>2. CASE Taking(d)
  <2>1. PICK a, e, s, n \in Int :
           /\ a = Begin(setup.start, d) /\ e = Finish(setup.start, d)
           /\ s = Halt(setup.start, d)
           /\ 0 <= a /\ a < s /\ s <= e /\ e <= h
    BY <1>2, CallFacts
  <2>2. From(setup.start, d) \in Int /\ 0 <= From(setup.start, d)
    BY <2>1 DEF From
  <2>3. Mine(setup.start, d) = From(setup.start, d) .. e - 1
    BY <1>2, <2>1 DEF Mine
  <2>4. d.pc \notin {"unlink", "recycle"} => From(setup.start, d) = a
    BY <2>1 DEF From
  <2> QED
    BY <2>1, <2>2, <2>3, <2>4
<1> QED
  BY <1>1, <1>2

LEMMA ClaimedFacts ==
  ASSUME SetupOK, NEW dq, NEW h \in Int, Shared(setup.start, dq, h)
  PROVE  Claimed(setup.start, dq) \subseteq 0 .. h - 1
<1>1. \A c \in Consumer : Mine(setup.start, dq[c]) \subseteq 0 .. h - 1
  BY MineFacts DEF Shared
<1> QED
  BY <1>1 DEF Claimed

(* The block of an element that is claimed is in use.                       *)
LEMMA InUse ==
  ASSUME SetupOK, NEW dq, NEW h \in Int, Shared(setup.start, dq, h), NEW c \in Consumer,
         Taking(dq[c]), dq[c].pc \notin {"unlink", "recycle"},
         NEW el, NEW out, NEW blk, NEW built, NEW gone,
         Stored(setup.start, el, out, blk, Present(setup.start, dq, h, built), gone)
  PROVE  Number(setup.start, dq[c]) \in DOMAIN blk
<1>1. PICK a, e, s, n \in Int :
           /\ a = Begin(setup.start, dq[c]) /\ e = Finish(setup.start, dq[c])
           /\ a < s /\ s <= e /\ n = Number(setup.start, dq[c]) /\ n = a \div BLOCK_SIZE
  <2>1. Ranged(setup.start, dq[c], h)
    BY DEF Shared
  <2> QED
    BY <2>1, CallFacts
<1>2. a \in Mine(setup.start, dq[c])
  <2>1. Ranged(setup.start, dq[c], h)
    BY DEF Shared
  <2>2. a < e
    BY <1>1
  <2> QED
    BY <1>1, <2>1, <2>2, MineFacts
<1>3. a \in Present(setup.start, dq, h, built)
  BY <1>2 DEF Present, Claimed
<1> QED
  BY <1>1, <1>3 DEF Stored

(* The call of one consumer changes, and what it has claimed stays.         *)
Set(dq, c, d) == [dq EXCEPT ![c] = d]
Calls(dq) == dq = [c \in Consumer |-> dq[c]]

LEMMA SetFacts ==
  ASSUME NEW dq, Calls(dq), NEW c \in Consumer, NEW d
  PROVE  /\ Set(dq, c, d)[c] = d /\ Calls(Set(dq, c, d))
         /\ \A x \in Consumer : x # c => Set(dq, c, d)[x] = dq[x]
  BY DEF Calls, Set

LEMMA ShareKept ==
  ASSUME NEW st, NEW dq, Calls(dq), NEW c \in Consumer, NEW d, NEW h,
         Shared(st, dq, h), Ranged(st, d, h), Mine(st, d) = Mine(st, dq[c])
  PROVE  /\ Shared(st, Set(dq, c, d), h) /\ Claimed(st, Set(dq, c, d)) = Claimed(st, dq)
         /\ \A built : Present(st, Set(dq, c, d), h, built) = Present(st, dq, h, built)
         /\ Gone(st, Set(dq, c, d), h) = Gone(st, dq, h)
<1>1. PICK dy : dy = Set(dq, c, d) /\ dy[c] = d /\ \A x \in Consumer : x # c => dy[x] = dq[x]
  BY SetFacts
<1>2. \A x \in Consumer : Mine(st, dy[x]) = Mine(st, dq[x])
  BY <1>1
<1>3. Claimed(st, dy) = Claimed(st, dq)
  BY <1>2 DEF Claimed
<1>4. \A x \in Consumer : Ranged(st, dy[x], h)
  BY <1>1 DEF Shared
<1>5. Shared(st, dy, h)
  BY <1>2, <1>4 DEF Shared
<1> QED
  BY <1>1, <1>3, <1>5 DEF Present, Gone

LEMMA OwnKept ==
  ASSUME NEW all, NEW pl, NEW loose, NEW blk, NEW dq, Calls(dq), NEW c \in Consumer, NEW d,
         Owned(all, pl, loose, blk, dq), ~Recycles(d), ~Recycles(dq[c])
  PROVE  Owned(all, pl, loose, blk, Set(dq, c, d))
<1>1. PICK dy : dy = Set(dq, c, d) /\ dy[c] = d /\ \A x \in Consumer : x # c => dy[x] = dq[x]
  BY SetFacts
<1>2. \A x \in Consumer : /\ Recycles(dy[x]) <=> Recycles(dq[x])
                          /\ Recycles(dy[x]) => dy[x] = dq[x]
  BY <1>1
<1>3. Owned(all, pl, loose, blk, dy)
  <2>1. ASSUME NEW x \in Consumer, Recycles(dy[x])
        PROVE  /\ dy[x].block \in all /\ dy[x].block \notin pl /\ dy[x].block \notin loose
               /\ \A m \in DOMAIN blk : blk[m] # dy[x].block
    BY <1>2, <2>1 DEF Owned
  <2>2. ASSUME NEW x \in Consumer, NEW e \in Consumer, Recycles(dy[x]), Recycles(dy[e]),
               dy[x].block = dy[e].block
        PROVE  x = e
    BY <1>2, <2>2 DEF Owned
  <2>3. ASSUME NEW b \in all
        PROVE  \/ b \in pl \/ b \in loose
               \/ \E m \in DOMAIN blk : blk[m] = b
               \/ \E x \in Consumer : Recycles(dy[x]) /\ dy[x].block = b
    BY <1>2 DEF Owned
  <2> QED
    BY <2>1, <2>2, <2>3 DEF Owned
<1> QED
  BY <1>1, <1>3

LEMMA ConsumeKept ==
  ASSUME NEW st, NEW dq, Calls(dq), NEW c \in Consumer, NEW d,
         NEW sl, NEW en, NEW z, NEW num, NEW blk, NEW gone,
         Consuming(st, dq, sl, en, z, num, blk, gone),
         LookedUp(st, d, sl, en, z, num, blk, gone), d.pc # "unlink", dq[c].pc # "unlink"
  PROVE  Consuming(st, Set(dq, c, d), sl, en, z, num, blk, gone)
<1>1. PICK dy : dy = Set(dq, c, d) /\ dy[c] = d /\ \A x \in Consumer : x # c => dy[x] = dq[x]
  BY SetFacts
<1>2. \A x \in Consumer : \A m : Unlinks(st, dy[x], m) <=> Unlinks(st, dq[x], m)
  BY <1>1 DEF Unlinks
<1>3. \A x \in Consumer : LookedUp(st, dy[x], sl, en, z, num, blk, gone)
  BY <1>1 DEF Consuming
<1>4. Consuming(st, dy, sl, en, z, num, blk, gone)
  BY <1>2, <1>3 DEF Consuming
<1> QED
  BY <1>1, <1>4

LEMMA CallGoesOn ==
  ASSUME Counted, NEW z, NEW num, NEW f, NEW blk, NEW t, NEW w, NEW ch,
         Settled(z, num, f, blk, t, w, ch),
         NEW c \in Consumer, NEW d, Becomes(c, d),
         d.pc \notin {"unlink", "recycle"}, deq[c].pc \notin {"unlink", "recycle"},
         Ranged(setup.start, d, HeadNo), Mine(setup.start, d) = Mine(setup.start, deq[c]),
         LookedUp(setup.start, d, Rings(index), entry, z, num, blk, GoneNow),
         UNCHANGED <<setup, headIndex, memory, blockIndex, producer>>
  PROVE  Settled(z, num, f, blk, t, w, ch)'
<1>1. deq' = Set(deq, c, d) /\ Calls(deq)
  BY DEF Becomes, Set, Calls, Counted
<1>2. /\ Shared(setup.start, deq', HeadNo)
      /\ \A built : Present(setup.start, deq', HeadNo, built)
                      = Present(setup.start, deq, HeadNo, built)
      /\ Gone(setup.start, deq', HeadNo) = Gone(setup.start, deq, HeadNo)
  BY <1>1, ShareKept DEF Settled
<1>3. Owned(setup.blocks, pool, Loose(Tip(enqueued), w, ch), blk, deq')
  BY <1>1, OwnKept DEF Settled, Recycles
<1>4. Consuming(setup.start, deq', Rings(index), entry, z, num, blk, GoneNow)
  BY <1>1, ConsumeKept DEF Settled
<1>5. HeadNo' = HeadNo
  BY DEF HeadNo, Off, Minus
<1>6. PresentNow' = PresentNow /\ GoneNow' = GoneNow
  BY <1>2, <1>5 DEF PresentNow, GoneNow, producer
<1>7. UNCHANGED <<setup, elements, next, dequeued, pool, index, entry, tailBlock, enq, enqueued>>
  BY DEF memory, blockIndex, producer
<1> QED
  BY <1>2, <1>3, <1>4, <1>5, <1>6, <1>7 DEF Settled

(* The steps of a consumer that counts, up to its claim.                    *)
LEMMA Idles ==
  ASSUME NEW d, ~Taking(d), NEW st, NEW h, NEW sl, NEW en, NEW z, NEW num, NEW blk, NEW gone
  PROVE  /\ d.pc \notin {"unlink", "recycle"} /\ Mine(st, d) = {} /\ Ranged(st, d, h)
         /\ LookedUp(st, d, sl, en, z, num, blk, gone)
  BY DEF Taking, Mine, Ranged, LookedUp, LookingPcs

LEMMA CountingKeeps ==
  ASSUME Counted, NEW z, NEW num, NEW f, NEW blk, NEW t, NEW w, NEW ch,
         Settled(z, num, f, blk, t, w, ch), NEW c \in Consumer,
         \/ \E max \in setup.dequeue : Dequeue(c, max)
         \/ LoadOvercommit(c) \/ TestOptimistic(c) \/ Reserve(c) \/ Recheck(c) \/ Overcommit(c)
  PROVE  Settled(z, num, f, blk, t, w, ch)'
<1>1. PICK d : Becomes(c, d) /\ ~Taking(d) /\ ~Taking(deq[c])
  <2> USE DEF Taking, LookingPcs
  <2>1. CASE \E max \in setup.dequeue : Dequeue(c, max)
    <3>1. PICK d : /\ Becomes(c, d) /\ Counting(d) /\ deq[c].pc = "idle"
                   /\ d.pc = "overcommit"
      BY <2>1, DequeueCounts
    <3> QED
      BY <3>1
  <2>2. CASE LoadOvercommit(c)
    <3>1. PICK d : /\ Becomes(c, d) /\ deq[c].pc = "overcommit" /\ d.pc = "optimistic"
      BY <2>2, LoadOvercommitCounts
    <3> QED
      BY <3>1
  <2>3. CASE TestOptimistic(c)
    <3>1. PICK d : /\ Becomes(c, d) /\ deq[c].pc = "optimistic" /\ d.pc \in {"idle", "reserve"}
      BY <2>3, TestOptimisticCounts DEF NoCall
    <3> QED
      BY <3>1
  <2>4. CASE Reserve(c)
    <3>1. PICK d : /\ Becomes(c, d) /\ deq[c].pc = "reserve" /\ d.pc = "recheck"
      BY <2>4, ReserveCounts
    <3> QED
      BY <3>1
  <2>5. CASE Recheck(c)
    <3>1. PICK d : /\ Becomes(c, d) /\ deq[c].pc = "recheck" /\ d.pc \in {"return", "claim"}
      BY <2>5, RecheckCounts
    <3> QED
      BY <3>1
  <2>6. CASE Overcommit(c)
    <3>1. PICK d : /\ Becomes(c, d) /\ deq[c].pc = "return" /\ d.pc \in {"idle", "claim"}
      BY <2>6, OvercommitCounts DEF NoCall
    <3> QED
      BY <3>1
  <2> QED
    BY <2>1, <2>2, <2>3, <2>4, <2>5, <2>6
<1>2. UNCHANGED <<setup, headIndex, memory, blockIndex, producer>>
  BY DEF Dequeue, LoadOvercommit, TestOptimistic, Reserve, Recheck, Overcommit, counters
<1>3. /\ d.pc \notin {"unlink", "recycle"} /\ Mine(setup.start, d) = {}
      /\ Ranged(setup.start, d, HeadNo)
      /\ LookedUp(setup.start, d, Rings(index), entry, z, num, blk, GoneNow)
  BY <1>1, Idles
<1>4. deq[c].pc \notin {"unlink", "recycle"} /\ Mine(setup.start, deq[c]) = {}
  BY <1>1, Idles
<1> QED
  BY <1>1, <1>2, <1>3, <1>4, CallGoesOn

LEMMA ClaimShares ==
  ASSUME SetupOK, NEW dq, Calls(dq), NEW c \in Consumer, NEW d, NEW h \in Nat, NEW g \in Int, h < g,
         Shared(setup.start, dq, h), ~Taking(dq[c]), d.pc = "header",
         d.at \in Index, d.end \in Index,
         Begin(setup.start, d) = h, Finish(setup.start, d) = g,
         NEW built \in Int, g <= built
  PROVE  /\ Shared(setup.start, Set(dq, c, d), g)
         /\ Present(setup.start, Set(dq, c, d), g, built) = Present(setup.start, dq, h, built)
         /\ Gone(setup.start, Set(dq, c, d), g) = Gone(setup.start, dq, h)
<1>1. PICK dy : dy = Set(dq, c, d) /\ dy[c] = d /\ \A x \in Consumer : x # c => dy[x] = dq[x]
  BY SetFacts
<1>2. Mine(setup.start, d) = h .. g - 1 /\ Mine(setup.start, dq[c]) = {}
  <2>1. Taking(d)
    BY DEF Taking, LookingPcs
  <2> QED
    BY <2>1 DEF Mine, From
<1>3. \A x \in Consumer : x # c => Mine(setup.start, dy[x]) = Mine(setup.start, dq[x])
  BY <1>1
<1>4. \A x \in Consumer : Mine(setup.start, dq[x]) \subseteq 0 .. h - 1
  BY MineFacts DEF Shared
<1>5. Claimed(setup.start, dy) = Claimed(setup.start, dq) \cup (h .. g - 1)
  BY <1>1, <1>2, <1>3 DEF Claimed
<1>6. Claimed(setup.start, dq) \subseteq 0 .. h - 1
  BY ClaimedFacts
<1>7. ASSUME NEW x \in Consumer PROVE Ranged(setup.start, dy[x], g)
  <2>1. CASE x = c
    BY <1>1, <2>1 DEF Ranged
  <2>2. CASE x # c
    <3>1. Ranged(setup.start, dq[x], h)
      BY DEF Shared
    <3>2. Taking(dq[x]) => Finish(setup.start, dq[x]) \in Int
      <4>1. Taking(dq[x]) => dq[x].end \in Int
        BY <3>1, SetupFacts DEF Ranged, Index
      <4>2. setup.start \in Int /\ Index \subseteq Int
        BY SetupFacts DEF Index
      <4> QED
        BY <4>1, <4>2, IndexTyped DEF Finish
    <3> QED
      BY <1>1, <2>2, <3>1, <3>2 DEF Ranged
  <2> QED
    BY <2>1, <2>2
<1>8. ASSUME NEW x \in Consumer, NEW e \in Consumer, x # e
      PROVE  Mine(setup.start, dy[x]) \cap Mine(setup.start, dy[e]) = {}
  <2>1. CASE x # c /\ e # c
    BY <1>3, <1>8, <2>1 DEF Shared
  <2>2. CASE x = c
    <3>1. Mine(setup.start, dy[e]) \subseteq 0 .. h - 1
      BY <1>3, <1>4, <1>8, <2>2
    <3> QED
      BY <1>1, <1>2, <2>2, <3>1
  <2>3. CASE e = c
    <3>1. Mine(setup.start, dy[x]) \subseteq 0 .. h - 1
      BY <1>3, <1>4, <1>8, <2>3
    <3> QED
      BY <1>1, <1>2, <2>3, <3>1
  <2> QED
    BY <2>1, <2>2, <2>3
<1>9. Shared(setup.start, dy, g)
  BY <1>7, <1>8 DEF Shared
<1>10. Present(setup.start, dy, g, built) = Present(setup.start, dq, h, built)
  BY <1>5 DEF Present
<1>11. Gone(setup.start, dy, g) = Gone(setup.start, dq, h)
  BY <1>5, <1>6 DEF Gone
<1> QED
  BY <1>1, <1>9, <1>10, <1>11

LEMMA CountsFacts ==
  ASSUME Counted, InOrder
  PROVE  /\ SetupOK /\ HeadNo \in Nat /\ enqueued \in Nat /\ HeadNo <= enqueued
         /\ Tip(enqueued) \in Int /\ enqueued <= setup.elements /\ enqueued < Modulus
         /\ headIndex = Idx(HeadNo) /\ tailIndex = Idx(enqueued) /\ HeadNo \in Index
         /\ Calls(deq)
         /\ enq.pc # "idle" => /\ enq.n \in Nat \ {0} /\ enqueued + enq.n <= setup.elements
                               /\ "pc" \in DOMAIN enq /\ "n" \in DOMAIN enq
<1>1. PICK h, k, l : /\ h = HeadNo /\ k = enqueued /\ l = Length /\ h \in Nat /\ k \in Nat /\ l \in Nat
                     /\ h + l = k
  BY LengthFacts, CountedFacts DEF InOrder, HeadNo
<1>2. h <= k
  BY <1>1
<1>3. SetupOK /\ headIndex = Idx(HeadNo) /\ tailIndex = Idx(enqueued) /\ enqueued <= setup.elements
      /\ enqueued < Modulus
  BY LengthFacts, CountedFacts DEF InOrder, HeadNo
<1>4. HeadNo \in Index
  BY <1>3, CountedFacts, OffsetFacts DEF HeadNo
<1>5. Tip(enqueued) \in Int
  BY <1>1, <1>3, TipFacts
<1>6. enq.pc # "idle" => /\ enq.n \in Nat \ {0} /\ enqueued + enq.n <= setup.elements
                         /\ "pc" \in DOMAIN enq /\ "n" \in DOMAIN enq
  BY SetupFacts DEF Counted, Enqueuing
<1>7. Calls(deq)
  BY DEF Counted, Calls
<1> QED
  BY <1>1, <1>2, <1>3, <1>4, <1>5, <1>6, <1>7

LEMMA BuiltFacts ==
  ASSUME Counted, InOrder, NEW t, NEW w, NEW ch, NEW f, NEW blk,
         Producing(setup.start, enq, tailBlock, next, enqueued, t, w, ch, f, blk)
  PROVE  /\ Built(setup.start, enq, enqueued) \in Int /\ enqueued <= Built(setup.start, enq, enqueued)
         /\ enq.pc \notin {"construct", "publish"} => Built(setup.start, enq, enqueued) = enqueued
<1>1. CASE enq.pc = "construct"
  <2>1. enq.at \in Index /\ enqueued <= Begin(setup.start, enq)
    BY <1>1 DEF Producing, Constructing
  <2>2. Begin(setup.start, enq) \in Int
    <3>1. SetupOK /\ Index \subseteq Int
      BY CountsFacts, SetupFacts DEF Index
    <3>2. Off(enq.at) \in Index
      BY <2>1, <3>1, OffsetFacts
    <3> QED
      BY <3>1, <3>2 DEF Begin, Off
  <2> QED
    BY <1>1, <2>1, <2>2 DEF Built
<1>2. CASE enq.pc = "publish"
  <2>1. enq.n \in Nat /\ enqueued \in Nat
    BY <1>2, CountsFacts
  <2>2. Built(setup.start, enq, enqueued) = enqueued + enq.n
    BY <1>2 DEF Built
  <2> QED
    BY <1>2, <2>1, <2>2
<1>3. CASE enq.pc \notin {"construct", "publish"}
  <2>1. Built(setup.start, enq, enqueued) = enqueued
    BY <1>3 DEF Built
  <2> QED
    BY <1>3, <2>1, CountsFacts
<1> QED
  BY <1>1, <1>2, <1>3

LEMMA ClaimKeeps ==
  ASSUME Counted, InOrder, NEW z, NEW num, NEW f, NEW blk, NEW t, NEW w, NEW ch,
         Settled(z, num, f, blk, t, w, ch), NEW c \in Consumer, Claim(c)
  PROVE  Settled(z, num, f, blk, t, w, ch)'
<1>1. PICK d, k : /\ Becomes(c, d) /\ deq[c].pc = "claim" /\ k = deq[c].count /\ k \in Nat \ {0}
                  /\ d.pc = "header" /\ d.at = headIndex /\ d.end = Plus(headIndex, k)
  BY ClaimCounts
<1>2. PICK h, e, b : /\ h = HeadNo /\ e = enqueued /\ b = Built(setup.start, enq, enqueued)
                     /\ h \in Nat /\ e \in Nat /\ b \in Int /\ e <= b /\ h <= e /\ h + k <= e
                     /\ e < Modulus /\ headIndex = Idx(h) /\ h \in Index
  <2>1. k <= Length
    BY <1>1, ClaimIsThere
  <2>2. HeadNo + Length = enqueued /\ Length \in Nat /\ HeadNo \in Nat
    BY LengthFacts DEF InOrder, HeadNo
  <2>3. HeadNo + k <= enqueued
    BY <1>1, <2>1, <2>2
  <2> QED
    BY <2>3, CountsFacts, BuiltFacts DEF Settled
<1>3. SetupOK /\ Modulus \in Nat /\ Index = 0 .. Modulus - 1 /\ Calls(deq)
  BY CountsFacts, SetupFacts DEF Index
<1>4. h + k \in Index /\ k \in Int /\ h \in Int /\ h + k \in Int
  BY <1>1, <1>2, <1>3
<1>5. d.end = Idx(h + k) /\ d.end \in Index /\ d.at \in Index
  <2>1. Plus(Idx(h), k) = Idx(h + k) /\ Idx(h + k) \in Index /\ Idx(h) \in Index
    BY <1>3, <1>4, OffsetFacts
  <2> QED
    BY <1>1, <1>2, <2>1
<1>6. Begin(setup.start, d) = h /\ Finish(setup.start, d) = h + k
  BY <1>1, <1>2, <1>3, <1>4, <1>5, OffsetFacts DEF Begin, Finish, Off
<1>7. HeadNo' = h + k
  BY <1>1, <1>2, ClaimIsThere, HeadMoves DEF Claim, HeadNo, producer
<1>8. deq' = Set(deq, c, d) /\ ~Taking(deq[c]) /\ deq[c].pc \notin {"unlink", "recycle"}
  BY <1>1 DEF Becomes, Set, Taking, LookingPcs
<1>9. /\ Shared(setup.start, deq', h + k)
      /\ Present(setup.start, deq', h + k, b) = Present(setup.start, deq, h, b)
      /\ Gone(setup.start, deq', h + k) = Gone(setup.start, deq, h)
  <2>1. Shared(setup.start, deq, h)
    BY <1>2 DEF Settled
  <2>2. PICK g : g = h + k /\ g \in Int /\ h < g /\ g <= b
    BY <1>1, <1>2, <1>4
  <2>3. /\ SetupOK /\ Calls(deq) /\ h \in Nat /\ g \in Int /\ h < g /\ g <= b
        /\ ~Taking(deq[c]) /\ d.pc = "header" /\ d.at \in Index /\ d.end \in Index
        /\ b \in Int /\ Begin(setup.start, d) = h /\ Finish(setup.start, d) = g
    BY <1>1, <1>2, <1>3, <1>5, <1>6, <1>8, <2>2
  <2>4. /\ Shared(setup.start, Set(deq, c, d), g)
        /\ Present(setup.start, Set(deq, c, d), g, b) = Present(setup.start, deq, h, b)
        /\ Gone(setup.start, Set(deq, c, d), g) = Gone(setup.start, deq, h)
    BY <2>1, <2>3, ClaimShares
  <2> QED
    BY <1>8, <2>2, <2>4
<1>10. UNCHANGED <<setup, elements, next, dequeued, pool, index, entry, tailBlock, enq, enqueued>>
  BY DEF Claim, memory, blockIndex, producer
<1>11. Built(setup.start, enq, enqueued)' = b
  BY <1>2, <1>10 DEF Built, Begin, Minus
<1>12. PresentNow' = PresentNow /\ GoneNow' = GoneNow
  BY <1>2, <1>7, <1>9, <1>10, <1>11 DEF PresentNow, GoneNow
<1>13. Owned(setup.blocks, pool, Loose(Tip(enqueued), w, ch), blk, deq')
  BY <1>1, <1>3, <1>8, OwnKept DEF Settled, Recycles
<1>14. LookedUp(setup.start, d, Rings(index), entry, z, num, blk, GoneNow)
  BY <1>1 DEF LookedUp, LookingPcs
<1>15. Consuming(setup.start, deq', Rings(index), entry, z, num, blk, GoneNow)
  BY <1>1, <1>3, <1>8, <1>14, ConsumeKept DEF Settled
<1> QED
  BY <1>2, <1>7, <1>9, <1>10, <1>12, <1>13, <1>15 DEF Settled

(* A consumer finds its block.                                             *)
LEMMA FrontFacts ==
  ASSUME Counted, InOrder, NEW z, NEW num, NEW f, NEW blk, NEW t, NEW w, NEW ch,
         Settled(z, num, f, blk, t, w, ch)
  PROVE  /\ f \in Int /\ t \in Int /\ w \in Int /\ Tip(enqueued) \in Int
         /\ Tip(enqueued) <= w /\ w <= t /\ Tip(enqueued) <= f
<1>1. PICK p : /\ p = Tip(enqueued) /\ p \in Int /\ t \in Int /\ w \in Int /\ p <= w /\ w <= t
               /\ f \in Int
  BY DEF Settled, Chosen, Indexed, Reach
<1>2. Producing(setup.start, enq, tailBlock, next, enqueued, t, w, ch, f, blk)
  BY DEF Settled
<1>3. f = t \/ f = t + 1 \/ f = t - (w - p)
  BY <1>1, <1>2 DEF Producing, Resting, Finding, Withdrawing, Constructing, Publishing
<1>4. p <= f
  BY <1>1, <1>3
<1> QED
  BY <1>1, <1>4

LEMMA LookFacts ==
  ASSUME Counted, InOrder, NEW z, NEW num, NEW f, NEW blk, NEW t, NEW w, NEW ch,
         Settled(z, num, f, blk, t, w, ch), NEW c \in Consumer,
         Taking(deq[c]), deq[c].pc \notin {"unlink", "recycle"}
  PROVE  \E a, e, n \in Int :
           /\ a = Begin(setup.start, deq[c]) /\ e = Finish(setup.start, deq[c])
           /\ n = Number(setup.start, deq[c]) /\ deq[c].at = Idx(a) /\ a < e /\ e <= enqueued
           /\ n = a \div BLOCK_SIZE /\ n * BLOCK_SIZE < e
           /\ n \in DOMAIN blk /\ n <= Tip(enqueued)
           /\ BlockBase(deq[c].at) = Key(setup.start, n)
           /\ Exact(Rings(index), entry, z, num, n)
           /\ entry[Here(Rings(index), z, n)].value = blk[n]
<1>1. SetupOK /\ HeadNo \in Int /\ enqueued \in Int /\ HeadNo <= enqueued
  BY CountsFacts
<1>2. PICK a, e, s, n \in Int :
           /\ a = Begin(setup.start, deq[c]) /\ e = Finish(setup.start, deq[c])
           /\ s = Halt(setup.start, deq[c]) /\ n = Number(setup.start, deq[c])
           /\ deq[c].at = Idx(a) /\ a < s /\ s <= e /\ e <= HeadNo
           /\ n = a \div BLOCK_SIZE /\ n * BLOCK_SIZE \in Int /\ n * BLOCK_SIZE <= a
  <2>1. Ranged(setup.start, deq[c], HeadNo)
    BY DEF Settled, Shared
  <2> QED
    BY <1>1, <2>1, CallFacts
<1>3. n \in DOMAIN blk
  BY <1>1, <1>2, InUse DEF Settled, PresentNow
<1>4. n * BLOCK_SIZE < e /\ n * BLOCK_SIZE < enqueued /\ a < e /\ e <= enqueued
  BY <1>1, <1>2
<1>5. n <= Tip(enqueued)
  BY <1>1, <1>2, <1>4, TipFacts
<1>6. BlockBase(deq[c].at) = Key(setup.start, n)
  <2>1. BlockBase(Idx(a)) = Idx((a \div BLOCK_SIZE) * BLOCK_SIZE)
    BY <1>1, <1>2, IdxBlock
  <2>2. Key(setup.start, n) = Idx(n * BLOCK_SIZE)
    BY <1>1, <1>2, KeyFacts
  <2> QED
    BY <1>2, <2>1, <2>2
<1>7. Exact(Rings(index), entry, z, num, n) /\ entry[Here(Rings(index), z, n)].value = blk[n]
  BY <1>3 DEF Settled, Indexed, Listed
<1> QED
  BY <1>2, <1>3, <1>4, <1>5, <1>6, <1>7

LEMMA SameCardinality == ASSUME NEW S PROVE Implicit!Cardinality(S) = Cardinality(S)
  BY DEF Implicit!Cardinality, Cardinality

LEMMA IndexShape ==
  ASSUME NEW z, NEW f, NEW size, Fronts(index, z, f, size)
  PROVE  /\ Len(Rings(index)) = Len(index)
         /\ \A j \in 1 .. Len(index) : /\ Rings(index)[j] = index[j].slots
                                       /\ Implicit!capacity(index[j]) = Cap(Rings(index), j)
         /\ Header.front = Turn(Size(Rings(index)), z[Len(index)], f)
         /\ Implicit!Header = Header
<1>1. index \in Seq([front : 0 .. size - 1, slots : Ring])
  BY DEF Fronts
<1>2. Len(Rings(index)) = Len(index) /\ \A j \in 1 .. Len(index) : Rings(index)[j] = index[j].slots
  BY <1>1, RingsFacts
<1>3. \A j \in 1 .. Len(index) : Implicit!capacity(index[j]) = Cap(Rings(index), j)
  <2>1. TAKE j \in 1 .. Len(index)
  <2>2. PICK r : r = index[j].slots /\ Rings(index)[j] = r
    BY <1>2
  <2>3. Implicit!capacity(index[j]) = Cardinality(DOMAIN r)
    BY <2>2, SameCardinality DEF Implicit!capacity
  <2>4. Cap(Rings(index), j) = Cardinality(DOMAIN r)
    BY <2>2 DEF Cap
  <2> QED
    BY <2>3, <2>4
<1>4. Header.front = Turn(Size(Rings(index)), z[Len(index)], f)
  BY DEF Fronts, Header
<1>5. Implicit!Header = Header
  BY DEF Header, Implicit!Header
<1> QED
  BY <1>2, <1>3, <1>4, <1>5

LEMMA LoadHeaderKeeps ==
  ASSUME Counted, InOrder, NEW z, NEW num, NEW f, NEW blk, NEW t, NEW w, NEW ch,
         Settled(z, num, f, blk, t, w, ch), NEW c \in Consumer, LoadHeader(c)
  PROVE  Settled(z, num, f, blk, t, w, ch)'
<1>1. PICK d : /\ Becomes(c, d) /\ deq[c].pc = "header" /\ d.pc = "base" /\ d.at = deq[c].at
               /\ d.end = deq[c].end /\ d.header = Len(index) /\ d.front = Header.front
  <2>1. /\ deq[c].pc = "header"
        /\ deq' = [deq EXCEPT ![c] = [pc |-> "base", at |-> deq[c].at, end |-> deq[c].end,
                                     got |-> <<>>, header |-> Len(index), front |-> Header.front]]
    BY DEF LoadHeader, At, Go
  <2>2. PICK d : d = [pc |-> "base", at |-> deq[c].at, end |-> deq[c].end,
                      got |-> <<>>, header |-> Len(index), front |-> Header.front]
    OBVIOUS
  <2>3. /\ d.pc = "base" /\ d.at = deq[c].at
        /\ d.end = deq[c].end /\ d.header = Len(index) /\ d.front = Header.front
    BY <2>2
  <2>4. Becomes(c, d)
    BY <2>1, <2>2 DEF Becomes
  <2> QED
    BY <2>1, <2>3, <2>4
<1>2. PICK a, e, n \in Int :
           /\ a = Begin(setup.start, deq[c]) /\ n = Number(setup.start, deq[c])
           /\ n \in DOMAIN blk /\ n <= Tip(enqueued)
  BY <1>1, LookFacts DEF Taking, LookingPcs
<1>3. Number(setup.start, d) = n /\ Mine(setup.start, d) = Mine(setup.start, deq[c])
  BY <1>1, <1>2 DEF Number, Begin, Finish, Mine, From, Taking, LookingPcs
<1>4. Ranged(setup.start, d, HeadNo)
  <2>1. Ranged(setup.start, deq[c], HeadNo)
    BY DEF Settled, Shared
  <2> QED
    BY <1>1, <2>1 DEF Ranged, Taking, LookingPcs, Begin, Finish
<1>5. PICK sl : /\ sl = Rings(index) /\ Headers(sl, entry, z, setup.indexSize)
                /\ Reach(sl, entry, z, num, f, blk, Tip(enqueued))
                /\ Len(sl) = Len(index) /\ Header.front = Turn(Size(sl), z[Len(sl)], f)
  BY IndexShape DEF Settled, Indexed
<1>6. /\ f \in Int /\ Tip(enqueued) \in Int /\ Tip(enqueued) <= f
  BY FrontFacts
<1>7. Exact(sl, entry, z, num, f) /\ n <= f
  <2>1. n <= f
    BY <1>2, <1>6
  <2>2. Reached(blk, Tip(enqueued), f)
    BY <1>2, <2>1 DEF Reached
  <2> QED
    BY <1>5, <1>6, <2>1, <2>2 DEF Reach
<1>8. sl[Len(sl)][Header.front] = Here(sl, z, f) /\ Header.front \in 0 .. Cap(sl, Len(sl)) - 1
      /\ Len(sl) \in 1 .. Len(sl)
  <2>1. /\ Len(sl) \in 1 .. Len(sl)
        /\ \A m \in Int : Turn(Cap(sl, Len(sl)), z[Len(sl)], m) \in 0 .. Cap(sl, Len(sl)) - 1
    BY <1>5, HeaderFacts
  <2> QED
    BY <1>5, <1>6, <2>1 DEF Here, EntryNo, Size
<1>9. LookedUp(setup.start, d, sl, entry, z, num, blk, GoneNow)
  BY <1>1, <1>3, <1>5, <1>7, <1>8 DEF LookedUp, LookingPcs, Here, Exact
<1>10. UNCHANGED <<setup, headIndex, memory, blockIndex, producer>>
  BY DEF LoadHeader, counters
<1> QED
  BY <1>1, <1>3, <1>4, <1>5, <1>9, <1>10, CallGoesOn

LEMMA NearBefore ==
  ASSUME SetupOK, NEW n \in Int, NEW m \in Int, NEW k \in Nat, n <= m, m < n + k,
         k <= setup.indexSize
  PROVE  Near(n, m)
<1>1. PICK b, q, r : /\ b = BLOCK_SIZE /\ b \in Nat \ {0} /\ q = setup.indexSize /\ q \in Int
                     /\ r = Half /\ r \in Nat /\ q * b \in Int /\ q * b <= r /\ r > 0
  BY SetupMore
<1>2. (n - m) \in Int /\ n - m <= 0 /\ -q <= n - m /\ -q \in Int /\ 0 \in Int
  BY <1>1
<1>3. (n - m) * b \in Int /\ (n - m) * b <= 0 * b /\ (-q) * b <= (n - m) * b
  BY <1>1, <1>2, MulStep
<1>4. 0 * b = 0 /\ (-q) * b = -(q * b)
  BY <1>1
<1>5. (n - m) * b < r /\ -r <= (n - m) * b
  BY <1>1, <1>3, <1>4
<1> QED
  BY <1>1, <1>5 DEF Near

LEMMA LoadBaseKeeps ==
  ASSUME Counted, InOrder, NEW z, NEW num, NEW f, NEW blk, NEW t, NEW w, NEW ch,
         Settled(z, num, f, blk, t, w, ch), NEW c \in Consumer, At(c, "base"),
         LoadBase(c, Implicit!capacity(Implicit!Opened(c)),
                  Implicit!EntryAt(c, deq[c].front).key)
  PROVE  Settled(z, num, f, blk, t, w, ch)'
<1>1. PICK d : /\ Becomes(c, d) /\ deq[c].pc = "base" /\ d.pc = "block" /\ d.at = deq[c].at
               /\ d.end = deq[c].end /\ d.header = deq[c].header
               /\ d.pos = Position(Implicit!capacity(Implicit!Opened(c)), deq[c].front,
                                   Implicit!EntryAt(c, deq[c].front).key, deq[c].at)
  <2>1. PICK d : d = [pc |-> "block", at |-> deq[c].at, end |-> deq[c].end, got |-> <<>>,
                      header |-> deq[c].header,
                      pos |-> Position(Implicit!capacity(Implicit!Opened(c)), deq[c].front,
                                       Implicit!EntryAt(c, deq[c].front).key, deq[c].at)]
    OBVIOUS
  <2>2. deq[c].pc = "base" /\ deq' = [deq EXCEPT ![c] = d]
    BY <2>1 DEF LoadBase, At, Go
  <2>3. /\ d.pc = "block" /\ d.at = deq[c].at
        /\ d.end = deq[c].end /\ d.header = deq[c].header
        /\ d.pos = Position(Implicit!capacity(Implicit!Opened(c)), deq[c].front,
                            Implicit!EntryAt(c, deq[c].front).key, deq[c].at)
    BY <2>1
  <2>4. Becomes(c, d)
    BY <2>1, <2>2 DEF Becomes
  <2> QED
    BY <2>2, <2>3, <2>4
<1>2. PICK a, e, n \in Int :
           /\ a = Begin(setup.start, deq[c]) /\ n = Number(setup.start, deq[c])
           /\ n \in DOMAIN blk /\ BlockBase(deq[c].at) = Key(setup.start, n)
  BY <1>1, LookFacts DEF Taking, LookingPcs
<1>3. Number(setup.start, d) = n /\ Mine(setup.start, d) = Mine(setup.start, deq[c])
  BY <1>1, <1>2 DEF Number, Begin, Finish, Mine, From, Taking, LookingPcs
<1>4. Ranged(setup.start, d, HeadNo)
  <2>1. Ranged(setup.start, deq[c], HeadNo)
    BY DEF Settled, Shared
  <2> QED
    BY <1>1, <2>1 DEF Ranged, Taking, LookingPcs, Begin, Finish
<1>5. LookedUp(setup.start, deq[c], Rings(index), entry, z, num, blk, GoneNow)
  BY DEF Settled, Consuming
<1>6. PICK sl, j, q : /\ sl = Rings(index) /\ j = deq[c].header /\ q = deq[c].front
                      /\ Indexed(sl, entry, z, num, f, blk, Tip(enqueued), setup.start, setup.indexSize)
                      /\ j \in 1 .. Len(sl) /\ q \in 0 .. Cap(sl, j) - 1 /\ Valid(entry, sl[j][q])
                      /\ n <= num[sl[j][q]]
  BY <1>1, <1>2, <1>5 DEF LookedUp, LookingPcs, Settled
<1>7. Len(sl) = Len(index) /\ sl[j] = index[j].slots /\ Implicit!capacity(index[j]) = Cap(sl, j)
  BY <1>6, IndexShape DEF Settled
<1>8. d.pos = Position(Cap(sl, j), q, entry[sl[j][q]].key, deq[c].at)
  BY <1>1, <1>6, <1>7 DEF Implicit!Opened, Implicit!EntryAt
<1>9. Near(n, num[sl[j][q]])
  <2>1. PICK x, k : /\ x = sl[j][q] /\ k = Size(sl) /\ k \in Nat /\ k <= setup.indexSize
                    /\ x \in 0 .. k - 1
    <3>1. Headers(sl, entry, z, setup.indexSize)
      BY <1>6 DEF Indexed
    <3>2. Size(sl) \in Nat \ {0} /\ Size(sl) <= setup.indexSize
      BY <3>1, HeaderFacts
    <3>3. sl[j][q] \in 0 .. Size(sl) - 1
      BY <1>6, <3>1, HeaderFacts
    <3> QED
      BY <3>2, <3>3
  <2>2. PICK m : m = num[x] /\ m \in Int /\ n <= m /\ m < n + k
    BY <1>2, <1>6, <2>1 DEF Indexed, Keys
  <2>3. SetupOK /\ n \in Int
    BY CountsFacts
  <2> QED
    BY <2>1, <2>2, <2>3, NearBefore
<1>10. d.pos = Turn(Cap(sl, j), z[j], n)
  <2>1. SetupOK
    BY CountsFacts
  <2> QED
    BY <1>2, <1>6, <1>8, <1>9, <2>1, LookupFinds, SMTT(40)
<1>11. LookedUp(setup.start, d, sl, entry, z, num, blk, GoneNow)
  <2>1. ASSUME NEW m \in DOMAIN blk, n <= m, m * BLOCK_SIZE < Finish(setup.start, d)
        PROVE  EntryNo(sl, z, j, m) = Here(sl, z, m)
    BY <1>1, <1>2, <1>5, <1>6, <2>1 DEF LookedUp, LookingPcs, Finish
  <2> QED
    BY <1>1, <1>3, <1>6, <1>10, <2>1 DEF LookedUp, LookingPcs
<1>12. UNCHANGED <<setup, headIndex, memory, blockIndex, producer>>
  BY DEF LoadBase, counters
<1> QED
  BY <1>1, <1>3, <1>4, <1>6, <1>11, <1>12, CallGoesOn

LEMMA BlockFound ==
  ASSUME Counted, InOrder, NEW z, NEW num, NEW f, NEW blk, NEW t, NEW w, NEW ch,
         Settled(z, num, f, blk, t, w, ch), NEW c \in Consumer, At(c, "block")
  PROVE  /\ Number(setup.start, deq[c]) \in DOMAIN blk
         /\ Implicit!EntryAt(c, deq[c].pos).value = blk[Number(setup.start, deq[c])]
         /\ Implicit!EntryAt(c, deq[c].pos).key = BlockBase(deq[c].at)
<1>1. deq[c].pc = "block"
  BY DEF At
<1>2. PICK a, e, n \in Int :
           /\ e = Finish(setup.start, deq[c]) /\ n = Number(setup.start, deq[c])
           /\ n \in DOMAIN blk /\ BlockBase(deq[c].at) = Key(setup.start, n)
           /\ n * BLOCK_SIZE < e
           /\ Exact(Rings(index), entry, z, num, n)
           /\ entry[Here(Rings(index), z, n)].value = blk[n]
  BY <1>1, LookFacts DEF Taking, LookingPcs
<1>3. LookedUp(setup.start, deq[c], Rings(index), entry, z, num, blk, GoneNow)
  BY DEF Settled, Consuming
<1>4. PICK sl, j : /\ sl = Rings(index) /\ j = deq[c].header
                   /\ Indexed(sl, entry, z, num, f, blk, Tip(enqueued), setup.start, setup.indexSize)
                   /\ j \in 1 .. Len(sl) /\ deq[c].pos = Turn(Cap(sl, j), z[j], n)
                   /\ EntryNo(sl, z, j, n) = Here(sl, z, n)
  BY <1>1, <1>2, <1>3 DEF LookedUp, LookingPcs, Settled
<1>5. Len(sl) = Len(index) /\ sl[j] = index[j].slots
  BY <1>4, IndexShape DEF Settled
<1>6. Implicit!EntryAt(c, deq[c].pos) = entry[Here(sl, z, n)]
  BY <1>4, <1>5 DEF Implicit!EntryAt, Implicit!Opened, EntryNo
<1>7. entry[Here(sl, z, n)].key = Key(setup.start, n)
  <2>1. Here(sl, z, n) \in 0 .. Size(sl) - 1
    BY <1>4, HeaderFacts DEF Indexed
  <2> QED
    BY <1>2, <1>4, <2>1 DEF Exact, Indexed, Keys
<1> QED
  BY <1>2, <1>4, <1>6, <1>7

LEMMA LoadBlockKeeps ==
  ASSUME Counted, InOrder, NEW z, NEW num, NEW f, NEW blk, NEW t, NEW w, NEW ch,
         Settled(z, num, f, blk, t, w, ch), NEW c \in Consumer, At(c, "block"),
         LoadBlock(c, Implicit!EntryAt(c, deq[c].pos).value)
  PROVE  Settled(z, num, f, blk, t, w, ch)'
<1>1. PICK d : /\ Becomes(c, d) /\ deq[c].pc = "block" /\ d.pc = "read" /\ d.at = deq[c].at
               /\ d.end = deq[c].end /\ d.header = deq[c].header /\ d.pos = deq[c].pos
               /\ d.block = Implicit!EntryAt(c, deq[c].pos).value
               /\ {"at", "end", "header", "pos", "block"} \subseteq DOMAIN d
  <2>1. PICK d : d = [pc |-> "read", at |-> deq[c].at, end |-> deq[c].end, got |-> deq[c].got,
                      header |-> deq[c].header, pos |-> deq[c].pos,
                      block |-> Implicit!EntryAt(c, deq[c].pos).value]
    OBVIOUS
  <2>2. deq[c].pc = "block" /\ deq' = [deq EXCEPT ![c] = d]
    BY <2>1 DEF LoadBlock, At, Go
  <2>3. /\ d.pc = "read" /\ d.at = deq[c].at
        /\ d.end = deq[c].end /\ d.header = deq[c].header /\ d.pos = deq[c].pos
        /\ d.block = Implicit!EntryAt(c, deq[c].pos).value
        /\ {"at", "end", "header", "pos", "block"} \subseteq DOMAIN d
    BY <2>1
  <2>4. Becomes(c, d)
    BY <2>1, <2>2 DEF Becomes
  <2> QED
    BY <2>2, <2>3, <2>4
<1>2. /\ Number(setup.start, d) = Number(setup.start, deq[c])
      /\ Finish(setup.start, d) = Finish(setup.start, deq[c])
      /\ Mine(setup.start, d) = Mine(setup.start, deq[c])
  BY <1>1 DEF Number, Begin, Finish, Mine, From, Taking, LookingPcs
<1>3. Ranged(setup.start, d, HeadNo)
  <2>1. Ranged(setup.start, deq[c], HeadNo)
    BY DEF Settled, Shared
  <2> QED
    BY <1>1, <2>1 DEF Ranged, Taking, LookingPcs, Begin, Finish
<1>4. LookedUp(setup.start, d, Rings(index), entry, z, num, blk, GoneNow)
  <2>1. LookedUp(setup.start, deq[c], Rings(index), entry, z, num, blk, GoneNow)
    BY DEF Settled, Consuming
  <2>2. d.block = blk[Number(setup.start, d)]
    BY <1>1, <1>2, BlockFound
  <2> QED
    BY <1>1, <1>2, <2>1, <2>2 DEF LookedUp, LookingPcs
<1>5. UNCHANGED <<setup, headIndex, memory, blockIndex, producer>>
  BY DEF LoadBlock, counters
<1> QED
  BY <1>1, <1>2, <1>3, <1>4, <1>5, CallGoesOn

(* Elements leave their block.                                              *)
SlotOf(n, j) == n * BLOCK_SIZE + j

LEMMA SlotFacts ==
  ASSUME SetupOK, NEW n \in Int, NEW j \in Slot
  PROVE  /\ SlotOf(n, j) \in Int /\ SlotOf(n, j) \div BLOCK_SIZE = n
         /\ SlotOf(n, j) % BLOCK_SIZE = j
         /\ n * BLOCK_SIZE \in Int /\ j \in Int /\ 0 <= j /\ j < BLOCK_SIZE
<1>1. PICK b, k : /\ b = BLOCK_SIZE /\ b \in Nat \ {0} /\ k = n * b /\ k \in Int /\ j \in Int
                  /\ 0 <= j /\ j < b
  BY SetupMore DEF Slot
<1>2. PICK x : x = k + j /\ x \in Int /\ k <= x /\ x < k + b /\ x - k = j
  BY <1>1
<1>3. x \div b = n /\ x % b = x - n * b
  BY <1>1, <1>2, DivIs
<1> QED
  BY <1>1, <1>2, <1>3 DEF SlotOf

LEMMA SlotIs ==
  ASSUME SetupOK, NEW x \in Int
  PROVE  /\ x \div BLOCK_SIZE \in Int /\ x % BLOCK_SIZE \in Slot
         /\ SlotOf(x \div BLOCK_SIZE, x % BLOCK_SIZE) = x
<1>1. PICK b : b = BLOCK_SIZE /\ b \in Nat \ {0}
  BY SetupMore
<1>2. /\ x \div b \in Int /\ x % b \in 0 .. b - 1 /\ (x \div b) * b \in Int
      /\ x = (x \div b) * b + (x % b)
  BY <1>1, DivFacts
<1> QED
  BY <1>1, <1>2 DEF SlotOf, Slot

(* The slots of the elements from a to s, which are in block n.             *)
Within(n, a, s) ==
  /\ n \in Int /\ a \in Int /\ s \in Int /\ a <= s
  /\ n * BLOCK_SIZE <= a /\ s <= n * BLOCK_SIZE + BLOCK_SIZE
Slots(a, s) == {x % BLOCK_SIZE : x \in a .. s - 1}

LEMMA SlotsFacts ==
  ASSUME SetupOK, NEW n, NEW a, NEW s, Within(n, a, s)
  PROVE  /\ \A j \in Slot : j \in Slots(a, s) <=> SlotOf(n, j) \in a .. s - 1
         /\ \A j \in Slot : \A m \in Int : SlotOf(m, j) \in a .. s - 1 => m = n
         /\ Slots(a, s) \subseteq Slot /\ IsFiniteSet(Slots(a, s))
         /\ Cardinality(Slots(a, s)) = s - a
<1>1. PICK b, k : /\ b = BLOCK_SIZE /\ b \in Nat \ {0} /\ k = n * b /\ k \in Int /\ n \in Int
                  /\ a \in Int /\ s \in Int /\ a <= s /\ k <= a /\ s <= k + b
                  /\ Slot = 0 .. b - 1
  BY SetupMore DEF Within, Slot
<1>2. ASSUME NEW x \in a .. s - 1 PROVE x \in Int /\ x \div b = n /\ x % b = x - k /\ x % b \in Slot
  <2>1. x \in Int /\ n * b <= x /\ x < n * b + b
    BY <1>1
  <2>2. x \div b = n /\ x % b = x - n * b
    BY <1>1, <2>1, DivIs
  <2> QED
    BY <1>1, <2>1, <2>2
<1>3. \A j \in Slot : SlotOf(n, j) = k + j /\ j \in Int
  BY <1>1 DEF SlotOf
<1>4. ASSUME NEW j \in Slot PROVE j \in Slots(a, s) <=> SlotOf(n, j) \in a .. s - 1
  <2>1. ASSUME j \in Slots(a, s) PROVE SlotOf(n, j) \in a .. s - 1
    <3>1. PICK x \in a .. s - 1 : j = x % b
      BY <1>1, <2>1 DEF Slots
    <3>2. j = x - k /\ x \in Int
      BY <1>2, <3>1
    <3> QED
      BY <1>1, <1>3, <3>1, <3>2
  <2>2. ASSUME SlotOf(n, j) \in a .. s - 1 PROVE j \in Slots(a, s)
    <3>1. SlotOf(n, j) % b = j
      BY <1>1, SlotFacts
    <3> QED
      BY <1>1, <2>2, <3>1 DEF Slots
  <2> QED
    BY <2>1, <2>2
<1>5. ASSUME NEW j \in Slot, NEW m \in Int, SlotOf(m, j) \in a .. s - 1 PROVE m = n
  <2>1. SlotOf(m, j) \div b = m
    BY <1>1, SlotFacts
  <2> QED
    BY <1>2, <1>5, <2>1
<1>6. Slots(a, s) = a - k .. s - 1 - k
  <2>1. ASSUME NEW j \in Slots(a, s) PROVE j \in a - k .. s - 1 - k
    <3>1. PICK x \in a .. s - 1 : j = x % b
      BY <1>1, <2>1 DEF Slots
    <3>4. x \in Int /\ a <= x /\ x <= s - 1
      BY <1>1
    <3>5. x % b = x - k
      BY <1>2
    <3>2. x \in Int /\ x % b = x - k /\ a <= x /\ x <= s - 1
      BY <3>4, <3>5
    <3>3. x - k \in a - k .. s - 1 - k
      BY <1>1, <3>2
    <3> QED
      BY <3>1, <3>2, <3>3
  <2>2. ASSUME NEW j \in a - k .. s - 1 - k PROVE j \in Slots(a, s)
    <3>1. k + j \in a .. s - 1 /\ j \in Int /\ (k + j) - k = j
      BY <1>1
    <3>2. (k + j) % b = j
      BY <1>2, <3>1
    <3> QED
      BY <1>1, <3>1, <3>2 DEF Slots
  <2> QED
    BY <2>1, <2>2
<1>7. IsFiniteSet(Slots(a, s)) /\ Cardinality(Slots(a, s)) = s - a
  <2>1. PICK u, v : u = a - k /\ v = s - 1 - k /\ u \in Int /\ v \in Int
    BY <1>1
  <2>2. IsFiniteSet(u .. v) /\ Cardinality(u .. v) = IF u > v THEN 0 ELSE v - u + 1
    BY <2>1, FS_Interval
  <2>3. (IF u > v THEN 0 ELSE v - u + 1) = s - a
    BY <1>1, <2>1
  <2> QED
    BY <1>6, <2>1, <2>2, <2>3
<1>8. Slots(a, s) \subseteq Slot
  BY <1>1, <1>2 DEF Slots
<1> QED
  BY <1>4, <1>5, <1>7, <1>8

MovedOut(el, b, a, s) ==
  [x \in Block |-> IF x # b THEN el[x]
                   ELSE [j \in Slot |-> IF j \in Slots(a, s) THEN Nil ELSE el[b][j]]]
CountedOut(out, b, k) == [out EXCEPT ![b] = out[b] + k]
GoneOf(n, gone) == {j \in Slot : SlotOf(n, j) \in gone}

LEMMA GoneFacts ==
  ASSUME SetupOK, NEW n \in Int, NEW gone
  PROVE  /\ IsFiniteSet(GoneOf(n, gone)) /\ Cardinality(GoneOf(n, gone)) \in 0 .. BLOCK_SIZE
         /\ Whole(n, gone) <=> Cardinality(GoneOf(n, gone)) = BLOCK_SIZE
<1>1. PICK b : b = BLOCK_SIZE /\ b \in Nat \ {0} /\ Slot = 0 .. b - 1
  BY SetupMore DEF Slot
<1>2. IsFiniteSet(Slot) /\ Cardinality(Slot) = b
  <2>1. IsFiniteSet(0 .. b - 1) /\ Cardinality(0 .. b - 1) = IF 0 > b - 1 THEN 0 ELSE b - 1 - 0 + 1
    BY <1>1, FS_Interval
  <2> QED
    BY <1>1, <2>1
<1>3. GoneOf(n, gone) \in SUBSET Slot
  BY DEF GoneOf
<1>4. /\ IsFiniteSet(GoneOf(n, gone)) /\ Cardinality(GoneOf(n, gone)) <= Cardinality(Slot)
      /\ Cardinality(Slot) = Cardinality(GoneOf(n, gone)) => Slot = GoneOf(n, gone)
  BY <1>2, <1>3, FS_Subset
<1>5. Cardinality(GoneOf(n, gone)) \in Nat
  BY <1>4, FS_CardinalityType
<1>6. Whole(n, gone) <=> GoneOf(n, gone) = Slot
  BY DEF Whole, GoneOf, SlotOf
<1> QED
  BY <1>1, <1>2, <1>4, <1>5, <1>6

(* The elements of one block say nothing of what left another.             *)
LEMMA GoneElsewhere ==
  ASSUME SetupOK, NEW n, NEW a, NEW s, Within(n, a, s), NEW gone, NEW m \in Int, m # n
  PROVE  GoneOf(m, gone \cup (a .. s - 1)) = GoneOf(m, gone)
  BY SlotsFacts DEF GoneOf

LEMMA GoneMore ==
  ASSUME SetupOK, NEW n, NEW a, NEW s, Within(n, a, s), NEW gone, (a .. s - 1) \cap gone = {}
  PROVE  /\ Cardinality(GoneOf(n, gone \cup (a .. s - 1))) = Cardinality(GoneOf(n, gone)) + (s - a)
         /\ \A m \in Int : m # n => GoneOf(m, gone \cup (a .. s - 1)) = GoneOf(m, gone)
<1>1. n \in Int
  BY DEF Within
<1>2. GoneOf(n, gone \cup (a .. s - 1)) = GoneOf(n, gone) \cup Slots(a, s)
  BY SlotsFacts DEF GoneOf
<1>3. GoneOf(n, gone) \cap Slots(a, s) = {}
  BY SlotsFacts DEF GoneOf
<1>4. /\ IsFiniteSet(GoneOf(n, gone)) /\ Cardinality(GoneOf(n, gone)) \in Int
      /\ IsFiniteSet(Slots(a, s)) /\ Cardinality(Slots(a, s)) = s - a /\ s - a \in Int
  <2>1. BLOCK_SIZE \in Nat /\ a \in Int /\ s \in Int
    BY SetupMore DEF Within
  <2>2. IsFiniteSet(GoneOf(n, gone)) /\ Cardinality(GoneOf(n, gone)) \in 0 .. BLOCK_SIZE
    BY <1>1, GoneFacts
  <2>3. IsFiniteSet(Slots(a, s)) /\ Cardinality(Slots(a, s)) = s - a
    BY SlotsFacts
  <2> QED
    BY <2>1, <2>2, <2>3
<1>5. Cardinality(GoneOf(n, gone) \cup Slots(a, s))
        = Cardinality(GoneOf(n, gone)) + Cardinality(Slots(a, s))
            - Cardinality(GoneOf(n, gone) \cap Slots(a, s))
  BY <1>4, FS_Union
<1>6. Cardinality(GoneOf(n, gone) \cap Slots(a, s)) = 0
  BY <1>3, FS_EmptySet
<1>7. ASSUME NEW m \in Int, m # n PROVE GoneOf(m, gone \cup (a .. s - 1)) = GoneOf(m, gone)
  BY <1>7, GoneElsewhere
<1>8. PICK x, y, v : /\ x = Cardinality(GoneOf(n, gone)) /\ y = Cardinality(Slots(a, s))
                     /\ v = Cardinality(GoneOf(n, gone) \cap Slots(a, s)) /\ x \in Int
                     /\ y \in Int /\ v = 0 /\ y = s - a
  BY <1>4, <1>6
<1>9. x + y - v = x + (s - a)
  BY <1>8
<1> QED
  BY <1>2, <1>5, <1>7, <1>8, <1>9

LEMMA StoredMeans ==
  ASSUME NEW st, NEW el, NEW out, NEW blk, NEW present, NEW gone
  PROVE  Stored(st, el, out, blk, present, gone) <=>
           /\ el \in [Block -> [Slot -> Index \cup {Nil}]] /\ out \in [Block -> 0 .. BLOCK_SIZE]
           /\ \A m \in DOMAIN blk : \A j \in Slot :
                el[blk[m]][j] = IF SlotOf(m, j) \in present THEN Plus(st, SlotOf(m, j)) ELSE Nil
           /\ \A m \in DOMAIN blk : out[blk[m]] = Cardinality(GoneOf(m, gone))
           /\ \A b \in Block : (\A m \in DOMAIN blk : blk[m] # b) => el[b] = Vacant
           /\ \A x \in present : x \div BLOCK_SIZE \in DOMAIN blk
  BY DEF Stored, SlotOf, GoneOf

LEMMA StoredEmptied ==
  ASSUME SetupOK, NEW st, NEW el, NEW out, NEW blk, NEW present, NEW gone,
         Stored(st, el, out, blk, present, gone),
         \A m \in DOMAIN blk : m \in Int /\ blk[m] \in Block,
         \A m, k \in DOMAIN blk : blk[m] = blk[k] => m = k,
         NEW n \in DOMAIN blk, NEW a, NEW s, Within(n, a, s), (a .. s - 1) \cap gone = {}
  PROVE  /\ Stored(st, MovedOut(el, blk[n], a, s), CountedOut(out, blk[n], s - a), blk,
                   present \ (a .. s - 1), gone \cup (a .. s - 1))
<1>1. PICK ey, oy, py, gy, b : /\ ey = MovedOut(el, b, a, s) /\ oy = CountedOut(out, b, s - a)
                               /\ py = present \ (a .. s - 1) /\ gy = gone \cup (a .. s - 1)
                               /\ b = blk[n] /\ b \in Block
  OBVIOUS
<1>2. /\ el \in [Block -> [Slot -> Index \cup {Nil}]] /\ out \in [Block -> 0 .. BLOCK_SIZE]
      /\ \A m \in DOMAIN blk : \A j \in Slot :
           el[blk[m]][j] = IF SlotOf(m, j) \in present THEN Plus(st, SlotOf(m, j)) ELSE Nil
      /\ \A m \in DOMAIN blk : out[blk[m]] = Cardinality(GoneOf(m, gone))
      /\ \A x \in Block : (\A m \in DOMAIN blk : blk[m] # x) => el[x] = Vacant
      /\ \A x \in present : x \div BLOCK_SIZE \in DOMAIN blk
  BY StoredMeans
<1>3. /\ Cardinality(GoneOf(n, gy)) = out[b] + (s - a)
      /\ \A m \in Int : m # n => GoneOf(m, gy) = GoneOf(m, gone)
  BY <1>1, <1>2, GoneMore
<1>4. /\ Cardinality(GoneOf(n, gy)) \in 0 .. BLOCK_SIZE
      /\ Whole(n, gy) <=> Cardinality(GoneOf(n, gy)) = BLOCK_SIZE
  BY GoneFacts
<1>5. ey \in [Block -> [Slot -> Index \cup {Nil}]] /\ oy \in [Block -> 0 .. BLOCK_SIZE]
  <2>1. [j \in Slot |-> IF j \in Slots(a, s) THEN Nil ELSE el[b][j]] \in [Slot -> Index \cup {Nil}]
    BY <1>1, <1>2
  <2> QED
    BY <1>1, <1>2, <1>3, <1>4, <2>1 DEF MovedOut, CountedOut
<1>6. \A x \in Block : x # b => ey[x] = el[x] /\ oy[x] = out[x]
  BY <1>1, <1>2 DEF MovedOut, CountedOut
<1>7. /\ \A j \in Slot : ey[b][j] = IF j \in Slots(a, s) THEN Nil ELSE el[b][j]
      /\ oy[b] = out[b] + (s - a)
  BY <1>1, <1>2 DEF MovedOut, CountedOut
<1>8. ASSUME NEW m \in DOMAIN blk, NEW j \in Slot
      PROVE  ey[blk[m]][j] = IF SlotOf(m, j) \in py THEN Plus(st, SlotOf(m, j)) ELSE Nil
  <2>1. CASE m = n
    <3>1. j \in Slots(a, s) <=> SlotOf(n, j) \in a .. s - 1
      BY SlotsFacts
    <3> QED
      BY <1>1, <1>2, <1>7, <2>1, <3>1
  <2>2. CASE m # n
    <3>1. SlotOf(m, j) \notin a .. s - 1
      BY <2>2, SlotsFacts
    <3> QED
      BY <1>1, <1>2, <1>6, <2>2, <3>1
  <2> QED
    BY <2>1, <2>2
<1>9. ASSUME NEW m \in DOMAIN blk PROVE oy[blk[m]] = Cardinality(GoneOf(m, gy))
  <2>1. CASE m = n
    BY <1>1, <1>3, <1>7, <2>1
  <2>2. CASE m # n
    BY <1>1, <1>2, <1>3, <1>6, <2>2
  <2> QED
    BY <2>1, <2>2
<1>10. ASSUME NEW x \in Block, \A m \in DOMAIN blk : blk[m] # x PROVE ey[x] = Vacant
  BY <1>1, <1>2, <1>6, <1>10
<1>11. \A x \in py : x \div BLOCK_SIZE \in DOMAIN blk
  BY <1>1, <1>2
<1>12. Stored(st, ey, oy, blk, py, gy)
  BY <1>5, <1>8, <1>9, <1>10, <1>11, StoredMeans
<1> QED
  BY <1>1, <1>3, <1>4, <1>12

LEMMA MineShrinks ==
  ASSUME SetupOK, NEW dq, Calls(dq), NEW c \in Consumer, NEW d, NEW h \in Int,
         Shared(setup.start, dq, h), Ranged(setup.start, d, h),
         NEW a \in Int, NEW s \in Int, NEW e \in Int, a <= s, s <= e,
         Mine(setup.start, dq[c]) = a .. e - 1, Mine(setup.start, d) = s .. e - 1, NEW built
  PROVE  /\ Shared(setup.start, Set(dq, c, d), h)
         /\ Present(setup.start, Set(dq, c, d), h, built)
              = Present(setup.start, dq, h, built) \ (a .. s - 1)
         /\ Gone(setup.start, Set(dq, c, d), h) = Gone(setup.start, dq, h) \cup (a .. s - 1)
         /\ (a .. s - 1) \cap Gone(setup.start, dq, h) = {}
<1>1. PICK dy : dy = Set(dq, c, d) /\ dy[c] = d /\ \A x \in Consumer : x # c => dy[x] = dq[x]
  BY SetFacts
<1>2. \A x \in Consumer : Mine(setup.start, dy[x]) \subseteq Mine(setup.start, dq[x])
  BY <1>1
<1>3. \A x, y \in Consumer : x # y => Mine(setup.start, dq[x]) \cap Mine(setup.start, dq[y]) = {}
  BY DEF Shared
<1>4. Shared(setup.start, dy, h)
  <2>1. \A x, y \in Consumer : x # y => Mine(setup.start, dy[x]) \cap Mine(setup.start, dy[y]) = {}
    BY <1>2, <1>3
  <2>2. \A x \in Consumer : Ranged(setup.start, dy[x], h)
    BY <1>1 DEF Shared
  <2> QED
    BY <2>1, <2>2 DEF Shared
<1>5. ASSUME NEW v
      PROVE  v \in Claimed(setup.start, dy)
               <=> v \in Claimed(setup.start, dq) /\ v \notin a .. s - 1
  <2>1. ASSUME v \in Claimed(setup.start, dy)
        PROVE  v \in Claimed(setup.start, dq) /\ v \notin a .. s - 1
    <3>1. PICK x \in Consumer : v \in Mine(setup.start, dy[x])
      BY <2>1 DEF Claimed
    <3>2. v \in Claimed(setup.start, dq)
      BY <1>2, <3>1 DEF Claimed
    <3>3. CASE x = c
      BY <1>1, <3>1, <3>2, <3>3
    <3>4. CASE x # c
      <4>1. v \notin a .. e - 1
        BY <1>1, <1>3, <3>1, <3>4
      <4>2. a .. s - 1 \subseteq a .. e - 1
        OBVIOUS
      <4> QED
        BY <3>2, <4>1, <4>2
    <3> QED
      BY <3>3, <3>4
  <2>2. ASSUME v \in Claimed(setup.start, dq), v \notin a .. s - 1
        PROVE  v \in Claimed(setup.start, dy)
    <3>1. PICK x \in Consumer : v \in Mine(setup.start, dq[x])
      BY <2>2 DEF Claimed
    <3>2. CASE x = c
      <4>1. v \in s .. e - 1
        BY <2>2, <3>1, <3>2
      <4> QED
        BY <1>1, <4>1 DEF Claimed
    <3>3. CASE x # c
      BY <1>1, <3>1, <3>3 DEF Claimed
    <3> QED
      BY <3>2, <3>3
  <2> QED
    BY <2>1, <2>2
<1>6. Claimed(setup.start, dq) \subseteq 0 .. h - 1
  BY ClaimedFacts
<1>7. a .. s - 1 \subseteq Claimed(setup.start, dq)
  <2>1. a .. s - 1 \subseteq a .. e - 1
    OBVIOUS
  <2> QED
    BY <2>1 DEF Claimed
<1>8. Present(setup.start, dy, h, built) = Present(setup.start, dq, h, built) \ (a .. s - 1)
  BY <1>5, <1>6, <1>7 DEF Present
<1>9. Gone(setup.start, dy, h) = Gone(setup.start, dq, h) \cup (a .. s - 1)
  BY <1>5, <1>6, <1>7 DEF Gone
<1>10. (a .. s - 1) \cap Gone(setup.start, dq, h) = {}
  BY <1>7 DEF Gone
<1> QED
  BY <1>1, <1>4, <1>8, <1>9, <1>10

(* The operators that both kinds share.                                    *)
LEMMA SharedOnes ==
  /\ \A i, e : Implicit!StopIndex(i, e) = StopIndex(i, e)
  /\ \A i, s : Implicit!Row(i, s) = Row(i, s) /\ Implicit!SlotsOf(i, s) = SlotsOf(i, s)
  /\ \A c : Implicit!Stop(c) = Stop(c) /\ Implicit!Expected(c) = Expected(c)
  /\ \A c : Implicit!Contents(c) = Contents(c)
<1>1. \A i, e : Implicit!StopIndex(i, e) = StopIndex(i, e)
  BY DEF Implicit!StopIndex, StopIndex, Implicit!Plus, Plus, Implicit!BlockBase, BlockBase,
         Implicit!circular_less_than, circular_less_than, Implicit!Minus, Minus
<1>2. \A i, s : Implicit!Row(i, s) = Row(i, s)
  BY DEF Implicit!Row, Row, Implicit!Minus, Minus, Implicit!Plus, Plus
<1>3. \A i, s : Implicit!SlotsOf(i, s) = SlotsOf(i, s)
  BY <1>2 DEF Implicit!SlotsOf, SlotsOf, Implicit!Minus, Minus
<1>4. \A c : Implicit!Stop(c) = Stop(c)
  BY <1>1 DEF Implicit!Stop, Stop
<1>5. \A c : Implicit!Expected(c) = Expected(c)
  BY <1>2, <1>4 DEF Implicit!Expected, Expected
<1>6. \A c : Implicit!Contents(c) = Contents(c)
  BY <1>5 DEF Implicit!Contents, Contents
<1> QED
  BY <1>1, <1>2, <1>3, <1>4, <1>5, <1>6

(* From a block in use, what the index can reach is within half of an      *)
(* index_t.                                                                *)
LEMMA WindowRoom ==
  ASSUME SetupOK, NEW sl, NEW en, NEW z, NEW num, NEW f, NEW blk, NEW p,
         Indexed(sl, en, z, num, f, blk, p, setup.start, setup.indexSize),
         NEW m \in DOMAIN blk, m <= f
  PROVE  /\ m \in Int /\ f \in Int /\ f < m + Size(sl) /\ Size(sl) \in Nat
         /\ (f + 1) * BLOCK_SIZE <= m * BLOCK_SIZE + Half
<1>1. m \in Nat /\ f \in Int /\ Reached(blk, p, m)
  BY DEF Indexed, Listed, Reach, Reached
<1>2. PICK k, q, b, r : /\ k = Size(sl) /\ k \in Nat /\ k <= q /\ q = setup.indexSize /\ q \in Nat
                        /\ b = BLOCK_SIZE /\ b \in Nat \ {0} /\ r = Half /\ r \in Nat /\ q * b <= r
  BY HeaderFacts, SetupMore DEF Indexed
<1>3. f < m + k
  BY <1>1, <1>2, Window
<1>4. f + 1 <= m + k /\ f + 1 \in Int /\ m + k \in Int /\ m \in Int /\ k \in Int /\ q \in Int
  BY <1>1, <1>2, <1>3
<1>5. (f + 1) * b <= (m + k) * b
  BY <1>2, <1>4, MulStep
<1>6. (m + k) * b = m * b + k * b /\ k * b <= q * b
  BY <1>2, <1>4, MulStep
<1>7. (f + 1) * b \in Int /\ m * b \in Int /\ k * b \in Int /\ q * b \in Int /\ (m + k) * b \in Int
  BY <1>2, <1>4
<1>8. (f + 1) * b <= m * b + r
  BY <1>2, <1>5, <1>6, <1>7
<1> QED
  BY <1>1, <1>2, <1>3, <1>8

(* What a call has left after this block is in the next one, which is in   *)
(* use.                                                                    *)
LEMMA StopOf ==
  ASSUME Counted, InOrder, NEW z, NEW num, NEW f, NEW blk, NEW t, NEW w, NEW ch,
         Settled(z, num, f, blk, t, w, ch), NEW c \in Consumer, Taking(deq[c])
  PROVE  \E a, e, s, n \in Int :
           /\ a = Begin(setup.start, deq[c]) /\ e = Finish(setup.start, deq[c])
           /\ s = Halt(setup.start, deq[c]) /\ n = Number(setup.start, deq[c])
           /\ deq[c].at = Idx(a) /\ deq[c].end = Idx(e)
           /\ 0 <= a /\ a < s /\ s <= e /\ e <= HeadNo /\ Within(n, a, s)
           /\ e < Modulus /\ Stop(c) = Idx(s) /\ (Stop(c) = deq[c].end <=> s = e)
           /\ s < e => /\ s = (n + 1) * BLOCK_SIZE /\ s \div BLOCK_SIZE = n + 1
                       /\ n + 1 \in DOMAIN blk
<1>1. SetupOK /\ HeadNo \in Nat /\ enqueued \in Nat /\ HeadNo <= enqueued /\ Tip(enqueued) \in Int
  BY CountsFacts
<1>2. Ranged(setup.start, deq[c], HeadNo)
  BY DEF Settled, Shared
<1>3. PICK a, e, s, n \in Int :
           /\ a = Begin(setup.start, deq[c]) /\ e = Finish(setup.start, deq[c])
           /\ s = Halt(setup.start, deq[c]) /\ n = Number(setup.start, deq[c])
           /\ a \in Index /\ e \in Index /\ deq[c].at = Idx(a) /\ deq[c].end = Idx(e)
           /\ 0 <= a /\ a < s /\ s <= e /\ e <= HeadNo /\ s = StopAt(a, e) /\ e < Modulus
           /\ n = a \div BLOCK_SIZE /\ n * BLOCK_SIZE \in Int
           /\ n * BLOCK_SIZE <= a /\ s <= n * BLOCK_SIZE + BLOCK_SIZE
           /\ s = e \/ s = n * BLOCK_SIZE + BLOCK_SIZE
  <2>1. HeadNo \in Int
    BY <1>1
  <2> QED
    BY <1>1, <1>2, <2>1, CallFacts
<1>4. PICK b, r, k : /\ b = BLOCK_SIZE /\ b \in Nat \ {0} /\ r = Half /\ r \in Nat
                     /\ k = n * b /\ k \in Int /\ n + 1 \in Int /\ (n + 1) * b = k + b
  BY <1>1, <1>3, SetupMore, MulStep
<1>5. s < e => s = (n + 1) * b /\ s \div b = n + 1 /\ n + 1 \in DOMAIN blk
  <2>1. SUFFICES ASSUME s < e PROVE s = (n + 1) * b /\ s \div b = n + 1 /\ n + 1 \in DOMAIN blk
    OBVIOUS
  <2>2. s = (n + 1) * b /\ (n + 1) * b <= s /\ s < (n + 1) * b + b
    BY <1>3, <1>4, <2>1
  <2>3. s \div b = n + 1
    BY <1>3, <1>4, <2>2, DivIs
  <2>4. s \in From(setup.start, deq[c]) .. Finish(setup.start, deq[c]) - 1
    BY <1>3, <2>1 DEF From
  <2>5. s \in PresentNow
    BY <2>4 DEF PresentNow, Present, Claimed, Mine
  <2>6. s \div BLOCK_SIZE \in DOMAIN blk
    BY <2>5 DEF Settled, Stored
  <2> QED
    BY <1>4, <2>2, <2>3, <2>6
<1>6. e <= k + b + r
  <2>1. CASE s = e
    BY <1>3, <1>4, <2>1
  <2>2. CASE s < e
    <3>1. PICK m, g : /\ m = n + 1 /\ m \in DOMAIN blk /\ m \in Int /\ g = Tip(enqueued) /\ g \in Int
                      /\ s = m * b /\ s = k + b
      BY <1>1, <1>4, <1>5, <2>2
    <3>2. f \in Int /\ g <= f
      BY <3>1, FrontFacts
    <3>3. e - 1 < enqueued /\ s <= e - 1 /\ e - 1 \in Int
      BY <1>1, <1>3, <2>2
    <3>4. (e - 1) \div b <= g /\ m <= (e - 1) \div b /\ (e - 1) \div b \in Int
      <4>1. (e - 1) \div b <= (enqueued - 1) \div b
        BY <1>1, <1>3, <1>4, <3>3, DivMono
      <4>2. s \div b <= (e - 1) \div b
        BY <1>3, <1>4, <3>3, DivMono
      <4>3. (e - 1) \div b \in Int
        BY <1>4, <3>3, DivFacts
      <4> QED
        BY <1>4, <1>5, <2>2, <3>1, <4>1, <4>2, <4>3 DEF Tip
    <3>5. m <= f
      BY <3>1, <3>2, <3>4
    <3>6. (f + 1) * b <= m * b + r
      <4>1. Indexed(Rings(index), entry, z, num, f, blk, Tip(enqueued), setup.start, setup.indexSize)
        BY DEF Settled
      <4> QED
        BY <1>1, <1>4, <3>1, <3>5, <4>1, WindowRoom
    <3>7. e <= (f + 1) * b /\ (f + 1) * b \in Int
      <4>1. PICK x, y : x = (e - 1) \div b /\ x \in Int /\ y = x * b /\ y \in Int /\ e - 1 < y + b
        BY <1>4, <3>3, DivFacts
      <4>2. x <= f
        BY <3>1, <3>2, <3>4, <4>1
      <4>3. (x + 1) * b = y + b /\ (x + 1) * b <= (f + 1) * b /\ (f + 1) * b \in Int
        BY <1>4, <3>2, <4>1, <4>2, MulStep
      <4>4. e <= (x + 1) * b
        BY <1>3, <1>4, <4>1, <4>3
      <4>5. (x + 1) * b \in Int
        BY <1>4, <4>1, <4>3
      <4> QED
        BY <1>3, <4>3, <4>4, <4>5
    <3> QED
      BY <1>3, <1>4, <3>1, <3>6, <3>7
  <2> QED
    BY <1>3, <2>1, <2>2
<1>7. Stop(c) = Idx(s)
  <2>1. a < e /\ e <= (a \div BLOCK_SIZE) * BLOCK_SIZE + BLOCK_SIZE + Half
    BY <1>3, <1>4, <1>6
  <2>2. StopIndex(Idx(a), Idx(e)) = Idx(StopAt(a, e))
    BY <1>1, <1>3, <2>1, StopIs
  <2> QED
    BY <1>3, <2>2 DEF Stop
<1>8. Stop(c) = deq[c].end <=> s = e
  <2>1. Index = 0 .. Modulus - 1 /\ Modulus \in Nat
    BY <1>1, SetupFacts DEF Index
  <2>2. s \in Index /\ e \in Index
    BY <1>3, <2>1
  <2>3. Off(Idx(s)) = s /\ Off(Idx(e)) = e
    BY <1>1, <2>2, OffsetFacts
  <2> QED
    BY <1>3, <1>7, <2>3
<1>9. Within(n, a, s)
  BY <1>3 DEF Within
<1> QED
  BY <1>3, <1>4, <1>5, <1>7, <1>8, <1>9

(* The call after a block.                                                 *)
LEMMA NextOf ==
  ASSUME Counted, InOrder, NEW z, NEW num, NEW f, NEW blk, NEW t, NEW w, NEW ch,
         Settled(z, num, f, blk, t, w, ch), NEW c \in Consumer,
         deq[c].pc \in {"read", "recycle"}, NEW got, NEW gone, NEW d,
         d = Implicit!NextBlock(c, Implicit!capacity(Implicit!Opened(c)), got)
  PROVE  /\ d.pc \in {"idle", "block"} /\ Ranged(setup.start, d, HeadNo)
         /\ Mine(setup.start, d)
              = Halt(setup.start, deq[c]) .. Finish(setup.start, deq[c]) - 1
         /\ LookedUp(setup.start, d, Rings(index), entry, z, num, blk, gone)
<1>1. Taking(deq[c])
  BY DEF Taking, LookingPcs
<1>2. PICK a, e, s, n \in Int :
           /\ a = Begin(setup.start, deq[c]) /\ e = Finish(setup.start, deq[c])
           /\ s = Halt(setup.start, deq[c]) /\ n = Number(setup.start, deq[c])
           /\ deq[c].at = Idx(a) /\ deq[c].end = Idx(e)
           /\ 0 <= a /\ a < s /\ s <= e /\ e <= HeadNo /\ Within(n, a, s)
           /\ e < Modulus /\ Stop(c) = Idx(s) /\ (Stop(c) = deq[c].end <=> s = e)
           /\ s < e => /\ s = (n + 1) * BLOCK_SIZE /\ s \div BLOCK_SIZE = n + 1
                       /\ n + 1 \in DOMAIN blk
  BY <1>1, StopOf
<1>3. Implicit!Stop(c) = Stop(c) /\ Implicit!NoCall = NoCall
  BY SharedOnes DEF Implicit!NoCall, NoCall
<1>4. CASE s = e
  <2>1. d = NoCall
    BY <1>2, <1>3, <1>4 DEF Implicit!NextBlock
  <2>2. d.pc = "idle"
    BY <2>1 DEF NoCall
  <2>3. ~Taking(d)
    BY <2>2 DEF Taking, LookingPcs
  <2>4. Mine(setup.start, d) = {} /\ s .. e - 1 = {}
    BY <1>2, <1>4, <2>3 DEF Mine
  <2> QED
    BY <1>2, <2>2, <2>3, <2>4, Idles
<1>5. CASE s < e
  <2>1. PICK j, k : /\ j = deq[c].header /\ k = Implicit!capacity(Implicit!Opened(c))
                    /\ j \in 1 .. Len(Rings(index)) /\ deq[c].pos = Turn(Cap(Rings(index), j), z[j], n)
                    /\ \A m \in DOMAIN blk : n <= m /\ m * BLOCK_SIZE < e =>
                         EntryNo(Rings(index), z, j, m) = Here(Rings(index), z, m)
    <3>1. LookedUp(setup.start, deq[c], Rings(index), entry, z, num, blk, GoneNow)
      BY DEF Settled, Consuming
    <3> QED
      BY <1>2, <3>1 DEF LookedUp, LookingPcs
  <2>2. k = Cap(Rings(index), j) /\ k \in Nat \ {0} /\ z[j] \in Int
    <3>1. Headers(Rings(index), entry, z, setup.indexSize)
      BY DEF Settled, Indexed
    <3>2. Cap(Rings(index), j) \in Nat \ {0} /\ z[j] \in Int
      BY <2>1, <3>1, HeaderFacts
    <3>3. Len(Rings(index)) = Len(index) /\ \A x \in 1 .. Len(index) :
             Implicit!capacity(index[x]) = Cap(Rings(index), x)
      BY IndexShape DEF Settled
    <3> QED
      BY <2>1, <3>2, <3>3 DEF Implicit!Opened
  <2>3. /\ d.pc = "block" /\ d.at = Stop(c) /\ d.end = deq[c].end /\ d.header = j
        /\ d.pos = (deq[c].pos + 1) % k
    <3>1. d = [pc |-> "block", at |-> Stop(c), end |-> deq[c].end, got |-> got,
               header |-> deq[c].header, pos |-> (deq[c].pos + 1) % k]
      <4>1. Stop(c) # deq[c].end
        BY <1>2, <1>5
      <4> QED
        BY <1>3, <2>1, <4>1 DEF Implicit!NextBlock
    <3> QED
      BY <2>1, <3>1
  <2>4. d.pos = Turn(k, z[j], n + 1)
    <3>1. (Turn(k, z[j], n) + 1) % k = Turn(k, z[j], n + 1)
      <4>1. PICK y : y = z[j] /\ y \in Int
        BY <2>2
      <4>2. k \in Nat \ {0} /\ n \in Int /\ 1 \in Int
        BY <2>2
      <4>3. (Turn(k, y, n) + 1) % k = Turn(k, y, n + 1)
        BY <4>1, <4>2, TurnStep, ZenonT(40)
      <4> QED
        BY <4>1, <4>3
    <3> QED
      BY <2>1, <2>2, <2>3, <3>1
  <2>5. SetupOK /\ Modulus \in Nat /\ Index = 0 .. Modulus - 1
    BY CountsFacts, SetupFacts DEF Index
  <2>6. s \in Index /\ e \in Index
    BY <1>2, <1>5, <2>5
  <2>7. Begin(setup.start, d) = s /\ Finish(setup.start, d) = e /\ d.at \in Index /\ d.end \in Index
    <3>1. d.at = Idx(s) /\ d.end = Idx(e)
      BY <1>2, <2>3
    <3>2. Off(Idx(s)) = s /\ Off(Idx(e)) = e /\ Idx(s) \in Index /\ Idx(e) \in Index
      BY <2>5, <2>6, OffsetFacts
    <3> QED
      BY <3>1, <3>2 DEF Begin, Finish, Off
  <2>8. Number(setup.start, d) = n + 1
    BY <1>2, <1>5, <2>7 DEF Number
  <2>9. Ranged(setup.start, d, HeadNo)
    BY <1>2, <1>5, <2>7 DEF Ranged
  <2>10. Mine(setup.start, d) = s .. e - 1
    BY <2>3, <2>7 DEF Mine, Taking, LookingPcs, From
  <2>11. LookedUp(setup.start, d, Rings(index), entry, z, num, blk, gone)
    <3>1. ASSUME NEW m \in DOMAIN blk, n + 1 <= m, m * BLOCK_SIZE < e
          PROVE  EntryNo(Rings(index), z, j, m) = Here(Rings(index), z, m)
      <4>1. m \in Nat
        BY DEF Settled, Indexed, Listed
      <4>2. n <= m
        BY <1>2, <3>1, <4>1
      <4> QED
        BY <2>1, <3>1, <4>2
    <3> QED
      BY <2>1, <2>2, <2>3, <2>4, <2>7, <2>8, <3>1 DEF LookedUp, LookingPcs
  <2> QED
    BY <1>2, <2>3, <2>9, <2>10, <2>11
<1> QED
  BY <1>2, <1>4, <1>5

(* The others see no difference when elements leave a block.               *)
LEMMA ConsumeEmptied ==
  ASSUME SetupOK, NEW dq, Calls(dq), NEW c \in Consumer, NEW d,
         NEW sl, NEW en, NEW z, NEW num, NEW blk, NEW gone,
         NEW n, NEW a, NEW s, Within(n, a, s), a < s, (a .. s - 1) \cap gone = {},
         \A m \in DOMAIN blk : m \in Int,
         Consuming(setup.start, dq, sl, en, z, num, blk, gone),
         dq[c].pc # "unlink", NEW after, after = gone \cup (a .. s - 1),
         LookedUp(setup.start, d, sl, en, z, num, blk, after),
         d.pc = "unlink" <=> Whole(n, after), Number(setup.start, d) = n \/ d.pc # "unlink"
  PROVE  Consuming(setup.start, Set(dq, c, d), sl, en, z, num, blk, after)
<1>1. PICK dy : dy = Set(dq, c, d) /\ dy[c] = d /\ \A x \in Consumer : x # c => dy[x] = dq[x]
  BY SetFacts
<1>2. \A m \in Int : Whole(m, gone) => Whole(m, after)
  BY DEF Whole
<1>3. ~Whole(n, gone)
  <2>1. a \in Int /\ n \in Int /\ a \in a .. s - 1 /\ a \div BLOCK_SIZE = n
    <3>1. PICK b : b = BLOCK_SIZE /\ b \in Nat \ {0} /\ n \in Int /\ a \in Int /\ s \in Int
                   /\ n * b <= a /\ s <= n * b + b /\ n * b \in Int
      BY SetupMore DEF Within
    <3>2. a < n * b + b
      BY <3>1
    <3>3. a \div b = n
      BY <3>1, <3>2, DivIs
    <3> QED
      BY <3>1, <3>3
  <2>2. a % BLOCK_SIZE \in Slot /\ SlotOf(n, a % BLOCK_SIZE) = a
    BY <2>1, SlotIs
  <2>3. a \notin gone
    BY <2>1
  <2> QED
    BY <2>2, <2>3 DEF Whole, SlotOf
<1>4. ASSUME NEW m \in Int, m # n PROVE Whole(m, after) <=> Whole(m, gone)
  <2>1. GoneOf(m, gone \cup (a .. s - 1)) = GoneOf(m, gone)
    BY <1>4, GoneElsewhere
  <2>2. \A g : Whole(m, g) <=> GoneOf(m, g) = Slot
    BY DEF Whole, GoneOf, SlotOf
  <2> QED
    BY <2>1, <2>2
<1>5. \A x \in Consumer : LookedUp(setup.start, dy[x], sl, en, z, num, blk, after)
  <2>1. ASSUME NEW x \in Consumer, x # c PROVE LookedUp(setup.start, dq[x], sl, en, z, num, blk, after)
    <3>1. LookedUp(setup.start, dq[x], sl, en, z, num, blk, gone)
      BY DEF Consuming
    <3> QED
      BY <1>2, <3>1 DEF LookedUp
  <2> QED
    BY <1>1, <2>1
<1>6. ASSUME NEW x \in Consumer, NEW y \in Consumer, NEW m \in DOMAIN blk,
             Unlinks(setup.start, dy[x], m), Unlinks(setup.start, dy[y], m)
      PROVE  x = y
  <2>1. ASSUME NEW v \in Consumer, NEW u \in Consumer, v = c, u # c,
               Unlinks(setup.start, dy[v], m), Unlinks(setup.start, dy[u], m)
        PROVE FALSE
    <3>1. d.pc = "unlink" /\ m = n
      BY <1>1, <2>1 DEF Unlinks
    <3>2. Unlinks(setup.start, dq[u], n) /\ LookedUp(setup.start, dq[u], sl, en, z, num, blk, gone)
      BY <1>1, <2>1, <3>1 DEF Consuming
    <3> QED
      BY <1>3, <3>2 DEF Unlinks, LookedUp
  <2>2. CASE x # c /\ y # c
    BY <1>1, <1>6, <2>2 DEF Consuming
  <2> QED
    BY <1>6, <2>1, <2>2
<1>7. ASSUME NEW m \in DOMAIN blk, Whole(m, after)
      PROVE  \E x \in Consumer : Unlinks(setup.start, dy[x], m)
  <2>1. CASE m = n
    BY <1>1, <1>7, <2>1 DEF Unlinks
  <2>2. CASE m # n
    <3>1. Whole(m, gone)
      BY <1>4, <1>7, <2>2
    <3>2. PICK x \in Consumer : Unlinks(setup.start, dq[x], m)
      BY <3>1 DEF Consuming
    <3>3. x # c
      BY <3>2 DEF Unlinks
    <3> QED
      BY <1>1, <3>2, <3>3
  <2> QED
    BY <2>1, <2>2
<1>8. Consuming(setup.start, dy, sl, en, z, num, blk, after)
  BY <1>5, <1>6, <1>7 DEF Consuming
<1> QED
  BY <1>1, <1>8

(* A call that reads: its elements are in its block.                       *)
LEMMA ReadsFacts ==
  ASSUME Counted, InOrder, NEW z, NEW num, NEW f, NEW blk, NEW t, NEW w, NEW ch,
         Settled(z, num, f, blk, t, w, ch), NEW c \in Consumer, deq[c].pc = "read"
  PROVE  \E a, e, s, n \in Int :
           /\ a = Begin(setup.start, deq[c]) /\ e = Finish(setup.start, deq[c])
           /\ s = Halt(setup.start, deq[c]) /\ n = Number(setup.start, deq[c])
           /\ deq[c].at = Idx(a) /\ 0 <= a /\ a < s /\ s <= e /\ e <= HeadNo /\ Within(n, a, s)
           /\ Stop(c) = Idx(s) /\ (Stop(c) = deq[c].end <=> s = e)
           /\ n \in DOMAIN blk /\ deq[c].block = blk[n] /\ blk[n] \in Block
           /\ Minus(Stop(c), deq[c].at) = s - a
           /\ Expected(c) = [j \in 1 .. s - a |-> Idx(a + j - 1)]
           /\ SlotsOf(deq[c].at, Stop(c)) = Slots(a, s)
<1>1. Taking(deq[c])
  BY DEF Taking, LookingPcs
<1>2. PICK a, e, s, n \in Int :
           /\ a = Begin(setup.start, deq[c]) /\ e = Finish(setup.start, deq[c])
           /\ s = Halt(setup.start, deq[c]) /\ n = Number(setup.start, deq[c])
           /\ deq[c].at = Idx(a) /\ deq[c].end = Idx(e)
           /\ 0 <= a /\ a < s /\ s <= e /\ e <= HeadNo /\ Within(n, a, s)
           /\ e < Modulus /\ Stop(c) = Idx(s) /\ (Stop(c) = deq[c].end <=> s = e)
  BY <1>1, StopOf, ZenonT(40)
<1>3. n \in DOMAIN blk /\ deq[c].block = blk[n] /\ blk[n] \in Block
  <2>1. n \in DOMAIN blk
    BY <1>1, <1>2, LookFacts
  <2>2. LookedUp(setup.start, deq[c], Rings(index), entry, z, num, blk, GoneNow)
    BY DEF Settled, Consuming
  <2>3. blk[n] \in Block
    BY <2>1 DEF Settled, Indexed, Listed
  <2> QED
    BY <1>2, <2>1, <2>2, <2>3 DEF LookedUp
<1>4. SetupOK /\ Modulus \in Nat
  BY CountsFacts, SetupFacts
<1>5. a <= s /\ s - a < Modulus /\ a \in Int /\ s \in Int
  BY <1>2, <1>4
<1>6. /\ Minus(Idx(s), Idx(a)) = s - a
      /\ Row(Idx(a), Idx(s)) = [j \in 1 .. s - a |-> Idx(a + j - 1)]
      /\ SlotsOf(Idx(a), Idx(s)) = {x % BLOCK_SIZE : x \in a .. s - 1}
  BY <1>4, <1>5, RowIs
<1> QED
  BY <1>2, <1>3, <1>6 DEF Expected, Slots

LEMMA FoundElements ==
  ASSUME Counted, InOrder, NEW z, NEW num, NEW f, NEW blk, NEW t, NEW w, NEW ch,
         Settled(z, num, f, blk, t, w, ch), NEW c \in Consumer, deq[c].pc = "read"
  PROVE  Contents(c) = Expected(c)
<1>1. PICK a, e, s, n \in Int :
           /\ a = Begin(setup.start, deq[c]) /\ e = Finish(setup.start, deq[c])
           /\ s = Halt(setup.start, deq[c]) /\ n = Number(setup.start, deq[c])
           /\ deq[c].at = Idx(a) /\ 0 <= a /\ a < s /\ s <= e /\ e <= HeadNo /\ Within(n, a, s)
           /\ n \in DOMAIN blk /\ deq[c].block = blk[n] /\ blk[n] \in Block
           /\ Expected(c) = [j \in 1 .. s - a |-> Idx(a + j - 1)]
  BY ReadsFacts
<1>2. SetupOK
  BY CountsFacts
<1>3. ASSUME NEW j \in 1 .. s - a
      PROVE  elements[blk[n]][Expected(c)[j] % BLOCK_SIZE] = Expected(c)[j]
  <2>1. PICK x : x = a + j - 1 /\ x \in Int /\ a <= x /\ x <= s - 1 /\ x < s /\ x < e
    BY <1>1
  <2>2. Expected(c)[j] = Idx(x)
    BY <1>1, <2>1
  <2>3. x \in PresentNow
    <3>1. x \in Begin(setup.start, deq[c]) .. Finish(setup.start, deq[c]) - 1
      BY <1>1, <2>1
    <3>2. x \in Mine(setup.start, deq[c])
      BY <3>1 DEF Mine, Taking, LookingPcs, From
    <3> QED
      BY <3>2 DEF PresentNow, Present, Claimed
  <2>4. x \div BLOCK_SIZE = n
    <3>1. PICK b : b = BLOCK_SIZE /\ b \in Nat \ {0} /\ n * b \in Int /\ n * b <= a /\ s <= n * b + b
      BY <1>1, <1>2, SetupMore DEF Within
    <3>2. n * b <= x /\ x < n * b + b
      BY <1>1, <2>1, <3>1
    <3> QED
      BY <2>1, <3>1, <3>2, DivIs
  <2>5. x % BLOCK_SIZE \in Slot /\ SlotOf(n, x % BLOCK_SIZE) = x
    BY <1>2, <2>1, <2>4, SlotIs
  <2>6. elements[blk[n]][x % BLOCK_SIZE] = Plus(setup.start, x)
    BY <1>1, <2>3, <2>5, StoredMeans DEF Settled
  <2>7. Idx(x) % BLOCK_SIZE = x % BLOCK_SIZE
    BY <1>2, <2>1, IdxBlock
  <2> QED
    BY <2>2, <2>6, <2>7 DEF Idx
<1>4. DOMAIN Expected(c) = 1 .. s - a
  BY <1>1
<1>5. Contents(c) = [j \in 1 .. s - a |-> Expected(c)[j]]
  BY <1>1, <1>3, <1>4 DEF Contents
<1> QED
  BY <1>1, <1>5

(* What the step does, in numbers.                                         *)
LEMMA SetEmptyMeans ==
  ASSUME Counted, InOrder, NEW z, NEW num, NEW f, NEW blk, NEW t, NEW w, NEW ch,
         Settled(z, num, f, blk, t, w, ch), NEW c \in Consumer, Implicit!SetEmpty(c),
         NEW a \in Int, NEW s \in Int, NEW n, Within(n, a, s), n \in DOMAIN blk,
         deq[c].block = blk[n], blk[n] \in Block, Minus(Stop(c), deq[c].at) = s - a, a < s,
         SlotsOf(deq[c].at, Stop(c)) = Slots(a, s), Slots(a, s) \subseteq Slot
  PROVE  /\ deq[c].pc = "read"
         /\ elements' = MovedOut(elements, blk[n], a, s)
         /\ dequeued' = CountedOut(dequeued, blk[n], s - a)
         /\ \E d, got :
              /\ Becomes(c, d)
              /\ dequeued[blk[n]] + (s - a) = BLOCK_SIZE =>
                   /\ d.pc = "unlink" /\ d.at = deq[c].at /\ d.end = deq[c].end
                   /\ d.header = deq[c].header /\ d.pos = deq[c].pos /\ d.block = deq[c].block
                   /\ {"at", "end", "header", "pos", "block"} \subseteq DOMAIN d
              /\ dequeued[blk[n]] + (s - a) # BLOCK_SIZE =>
                   d = Implicit!NextBlock(c, Implicit!capacity(Implicit!Opened(c)), got)
<1>1. deq[c].pc = "read"
  BY DEF Implicit!SetEmpty, Implicit!At
<1>2. elements' = MovedOut(elements, blk[n], a, s)
  <2>1. elements' = [b \in Block |->
          IF b # blk[n] THEN elements[b]
          ELSE [j \in Slot |-> IF j \in Slots(a, s) THEN Nil ELSE elements[b][j]]]
    BY SharedOnes DEF Implicit!SetEmpty, Implicit!MoveOut, Implicit!Slot, Slot
  <2> QED
    BY <2>1 DEF MovedOut
<1>3. Len(Expected(c)) = s - a
  <2>1. PICK k : k = s - a /\ k \in Nat
    BY DEF Within
  <2>2. PICK r : r = [j \in 1 .. k |-> Plus(deq[c].at, j - 1)]
    OBVIOUS
  <2>3. Expected(c) = r
    BY <2>1, <2>2 DEF Expected, Row
  <2>4. Len(r) = k
    <3>1. r \in Seq({r[j] : j \in 1 .. k})
      <4>1. r \in [1 .. k -> {r[j] : j \in 1 .. k}]
        BY <2>2
      <4>2. \A S, g : g \in [1 .. k -> S] => g \in Seq(S)
        BY <2>1
      <4> QED
        BY <4>1, <4>2
    <3>2. DOMAIN r = 1 .. k
      BY <2>2
    <3> QED
      BY <2>1, <3>1, <3>2
  <2> QED
    BY <2>1, <2>3, <2>4
<1>4. PICK k : k = dequeued[blk[n]] + (s - a)
  OBVIOUS
<1>5. /\ dequeued' = [dequeued EXCEPT ![blk[n]] = k]
      /\ \E got : deq' = [deq EXCEPT ![c] =
              IF k = BLOCK_SIZE THEN [deq[c] EXCEPT !.pc = "unlink", !.got = got]
              ELSE Implicit!NextBlock(c, Implicit!capacity(Implicit!Opened(c)), got)]
  <2>1. PICK got, count :
           /\ count = dequeued[deq[c].block] + Len(Implicit!Expected(c))
           /\ dequeued' = [dequeued EXCEPT ![deq[c].block] = count]
           /\ deq' = [deq EXCEPT ![c] =
                IF count = BLOCK_SIZE THEN [deq[c] EXCEPT !.pc = "unlink", !.got = got]
                ELSE Implicit!NextBlock(c, Implicit!capacity(Implicit!Opened(c)), got)]
    BY DEF Implicit!SetEmpty, Implicit!Go
  <2>2. count = k
    BY <1>3, <1>4, <2>1, SharedOnes
  <2> QED
    BY <2>1, <2>2
<1>6. dequeued' = CountedOut(dequeued, blk[n], s - a)
  BY <1>4, <1>5 DEF CountedOut
<1>7. {"at", "end", "header", "pos", "block"} \subseteq DOMAIN deq[c] /\ "pc" \in DOMAIN deq[c]
  <2>1. LookedUp(setup.start, deq[c], Rings(index), entry, z, num, blk, GoneNow)
    BY DEF Settled, Consuming
  <2>2. Counting(deq[c])
    BY DEF Counted
  <2> QED
    BY <1>1, <2>1, <2>2 DEF LookedUp, Counting
<1>8. PICK d, got : /\ deq' = [deq EXCEPT ![c] = d]
                    /\ d = IF k = BLOCK_SIZE THEN [deq[c] EXCEPT !.pc = "unlink", !.got = got]
                           ELSE Implicit!NextBlock(c, Implicit!capacity(Implicit!Opened(c)), got)
  BY <1>5
<1>9. ASSUME k = BLOCK_SIZE
      PROVE  /\ d.pc = "unlink" /\ d.at = deq[c].at /\ d.end = deq[c].end
             /\ d.header = deq[c].header /\ d.pos = deq[c].pos /\ d.block = deq[c].block
             /\ {"at", "end", "header", "pos", "block"} \subseteq DOMAIN d
  <2>1. d = [deq[c] EXCEPT !.pc = "unlink", !.got = got]
    BY <1>8, <1>9
  <2> QED
    BY <1>7, <2>1
<1>10. ASSUME k # BLOCK_SIZE
       PROVE  d = Implicit!NextBlock(c, Implicit!capacity(Implicit!Opened(c)), got)
  BY <1>8, <1>10
<1>11. Becomes(c, d)
  BY <1>8 DEF Becomes
<1> QED
  BY <1>1, <1>2, <1>4, <1>6, <1>9, <1>10, <1>11

LEMMA WholeNow ==
  ASSUME SetupOK, NEW n, NEW a, NEW s, Within(n, a, s), NEW gone, (a .. s - 1) \cap gone = {},
         NEW k, k = Cardinality(GoneOf(n, gone))
  PROVE  k + (s - a) = BLOCK_SIZE <=> Whole(n, gone \cup (a .. s - 1))
<1>1. Cardinality(GoneOf(n, gone \cup (a .. s - 1))) = k + (s - a)
  BY GoneMore
<1>2. n \in Int
  BY DEF Within
<1> QED
  BY <1>1, <1>2, GoneFacts

LEMMA SetEmptyKeeps ==
  ASSUME Counted, InOrder, NEW z, NEW num, NEW f, NEW blk, NEW t, NEW w, NEW ch,
         Settled(z, num, f, blk, t, w, ch), NEW c \in Consumer, Implicit!SetEmpty(c)
  PROVE  Settled(z, num, f, blk, t, w, ch)'
<1>1. deq[c].pc = "read"
  BY DEF Implicit!SetEmpty, Implicit!At
<1>2. PICK a, e, s, n \in Int :
           /\ a = Begin(setup.start, deq[c]) /\ e = Finish(setup.start, deq[c])
           /\ s = Halt(setup.start, deq[c]) /\ n = Number(setup.start, deq[c])
           /\ deq[c].at = Idx(a) /\ 0 <= a /\ a < s /\ s <= e /\ e <= HeadNo /\ Within(n, a, s)
           /\ n \in DOMAIN blk /\ deq[c].block = blk[n] /\ blk[n] \in Block
           /\ Minus(Stop(c), deq[c].at) = s - a
           /\ SlotsOf(deq[c].at, Stop(c)) = Slots(a, s)
  BY <1>1, ReadsFacts
<1>3. SetupOK /\ HeadNo \in Int /\ Calls(deq)
  BY CountsFacts
<1>4. PICK el, out, d, got :
           /\ el = MovedOut(elements, blk[n], a, s) /\ elements' = el
           /\ out = CountedOut(dequeued, blk[n], s - a) /\ dequeued' = out
           /\ Becomes(c, d)
           /\ dequeued[blk[n]] + (s - a) = BLOCK_SIZE =>
                /\ d.pc = "unlink" /\ d.at = deq[c].at /\ d.end = deq[c].end
                /\ d.header = deq[c].header /\ d.pos = deq[c].pos /\ d.block = deq[c].block
                /\ {"at", "end", "header", "pos", "block"} \subseteq DOMAIN d
           /\ dequeued[blk[n]] + (s - a) # BLOCK_SIZE =>
                d = Implicit!NextBlock(c, Implicit!capacity(Implicit!Opened(c)), got)
  <2>1. Slots(a, s) \subseteq Slot
    BY <1>2, <1>3, SlotsFacts
  <2>2. /\ elements' = MovedOut(elements, blk[n], a, s)
        /\ dequeued' = CountedOut(dequeued, blk[n], s - a)
        /\ \E d, got :
              /\ Becomes(c, d)
              /\ dequeued[blk[n]] + (s - a) = BLOCK_SIZE =>
                   /\ d.pc = "unlink" /\ d.at = deq[c].at /\ d.end = deq[c].end
                   /\ d.header = deq[c].header /\ d.pos = deq[c].pos /\ d.block = deq[c].block
                   /\ {"at", "end", "header", "pos", "block"} \subseteq DOMAIN d
              /\ dequeued[blk[n]] + (s - a) # BLOCK_SIZE =>
                   d = Implicit!NextBlock(c, Implicit!capacity(Implicit!Opened(c)), got)
    BY <1>2, <2>1, SetEmptyMeans
  <2> QED
    BY <2>2
<1>5. PICK after : after = GoneNow \cup (a .. s - 1)
  OBVIOUS
<1>6. Mine(setup.start, deq[c]) = a .. e - 1
  BY <1>1, <1>2 DEF Mine, Taking, LookingPcs, From
<1>7. (a .. s - 1) \cap GoneNow = {}
  <2>1. a .. s - 1 \subseteq Claimed(setup.start, deq)
    BY <1>2, <1>6 DEF Claimed
  <2> QED
    BY <2>1 DEF GoneNow, Gone
<1>8. /\ Stored(setup.start, el, out, blk, PresentNow \ (a .. s - 1), after)
      /\ dequeued[blk[n]] + (s - a) = BLOCK_SIZE <=> Whole(n, after)
  <2>1. \A m \in DOMAIN blk : m \in Int /\ blk[m] \in Block
    BY DEF Settled, Indexed, Listed
  <2>2. \A m, k \in DOMAIN blk : blk[m] = blk[k] => m = k
    BY DEF Settled, Owned
  <2>3. Stored(setup.start, elements, dequeued, blk, PresentNow, GoneNow)
    BY DEF Settled
  <2>4. /\ Stored(setup.start, MovedOut(elements, blk[n], a, s), CountedOut(dequeued, blk[n], s - a),
                  blk, PresentNow \ (a .. s - 1), GoneNow \cup (a .. s - 1))
        /\ dequeued[blk[n]] + (s - a) = BLOCK_SIZE <=> Whole(n, GoneNow \cup (a .. s - 1))
    <3>1. SetupOK /\ n \in DOMAIN blk /\ Within(n, a, s)
      BY <1>2, <1>3
    <3>2. PICK g, p, st : g = GoneNow /\ p = PresentNow /\ st = setup.start
      OBVIOUS
    <3>3. Stored(st, elements, dequeued, blk, p, g) /\ (a .. s - 1) \cap g = {}
      BY <1>7, <2>3, <3>2
    <3>4. Stored(st, MovedOut(elements, blk[n], a, s), CountedOut(dequeued, blk[n], s - a),
                  blk, p \ (a .. s - 1), g \cup (a .. s - 1))
      BY <2>1, <2>2, <3>1, <3>3, StoredEmptied
    <3>5. dequeued[blk[n]] + (s - a) = BLOCK_SIZE <=> Whole(n, g \cup (a .. s - 1))
      <4>1. dequeued[blk[n]] = Cardinality(GoneOf(n, g))
        BY <3>1, <3>3, StoredMeans
      <4> QED
        BY <3>1, <3>3, <4>1, WholeNow
    <3> QED
      BY <3>2, <3>4, <3>5
  <2> QED
    BY <1>4, <1>5, <2>4
<1>9. /\ d.pc \notin {"read", "recycle"} /\ (d.pc = "unlink" <=> Whole(n, after))
      /\ Number(setup.start, d) = n \/ d.pc # "unlink"
      /\ Ranged(setup.start, d, HeadNo) /\ Mine(setup.start, d) = s .. e - 1
      /\ LookedUp(setup.start, d, Rings(index), entry, z, num, blk, after)
  <2>1. CASE Whole(n, after)
    <3>1. /\ d.pc = "unlink" /\ d.at = deq[c].at /\ d.end = deq[c].end
          /\ d.header = deq[c].header /\ d.pos = deq[c].pos /\ d.block = deq[c].block
          /\ {"at", "end", "header", "pos", "block"} \subseteq DOMAIN d
      BY <1>4, <1>8, <2>1
    <3>2. /\ Number(setup.start, d) = n /\ Finish(setup.start, d) = e
          /\ Halt(setup.start, d) = s /\ Begin(setup.start, d) = a
      BY <1>2, <3>1 DEF Number, Finish, Halt, Begin
    <3>3. Mine(setup.start, d) = s .. e - 1
      BY <3>1, <3>2 DEF Mine, Taking, LookingPcs, From
    <3>4. Ranged(setup.start, d, HeadNo)
      <4>1. Ranged(setup.start, deq[c], HeadNo)
        BY DEF Settled, Shared
      <4> QED
        BY <1>1, <3>1, <4>1 DEF Ranged, Taking, LookingPcs, Begin, Finish
    <3>5. LookedUp(setup.start, d, Rings(index), entry, z, num, blk, after)
      <4>1. LookedUp(setup.start, deq[c], Rings(index), entry, z, num, blk, GoneNow)
        BY DEF Settled, Consuming
      <4> QED
        BY <1>1, <1>2, <2>1, <3>1, <3>2, <4>1 DEF LookedUp, LookingPcs
    <3> QED
      BY <2>1, <3>1, <3>2, <3>3, <3>4, <3>5
  <2>2. CASE ~Whole(n, after)
    <3>1. d = Implicit!NextBlock(c, Implicit!capacity(Implicit!Opened(c)), got)
      BY <1>4, <1>8, <2>2
    <3>2. /\ d.pc \in {"idle", "block"} /\ Ranged(setup.start, d, HeadNo)
          /\ Mine(setup.start, d)
               = Halt(setup.start, deq[c]) .. Finish(setup.start, deq[c]) - 1
          /\ LookedUp(setup.start, d, Rings(index), entry, z, num, blk, after)
      BY <1>1, <3>1, NextOf
    <3> QED
      BY <1>2, <2>2, <3>2
  <2> QED
    BY <2>1, <2>2
<1>10. deq' = Set(deq, c, d) /\ ~Recycles(d) /\ ~Recycles(deq[c])
  BY <1>1, <1>4, <1>9 DEF Becomes, Set, Recycles
<1>11. UNCHANGED <<setup, headIndex, next, pool, index, entry, tailBlock, enq, enqueued>>
  BY DEF Implicit!SetEmpty, Implicit!counters, Implicit!blockIndex, Implicit!producer
<1>12. HeadNo' = HeadNo /\ Built(setup.start, enq, enqueued)' = Built(setup.start, enq, enqueued)
  BY <1>11 DEF HeadNo, Off, Minus, Built, Begin
<1>13. /\ Shared(setup.start, deq', HeadNo)
       /\ PresentNow' = PresentNow \ (a .. s - 1) /\ GoneNow' = after
  <2>1. Shared(setup.start, deq, HeadNo)
    BY DEF Settled
  <2>2. PICK h, b : h = HeadNo /\ h \in Int /\ b = Built(setup.start, enq, enqueued)
    BY <1>3
  <2>3. Shared(setup.start, deq, h) /\ Ranged(setup.start, d, h)
    BY <1>9, <2>1, <2>2
  <2>4. a <= s /\ s <= e
    BY <1>2
  <2>5. /\ Shared(setup.start, Set(deq, c, d), h)
        /\ Present(setup.start, Set(deq, c, d), h, b)
             = Present(setup.start, deq, h, b) \ (a .. s - 1)
        /\ Gone(setup.start, Set(deq, c, d), h) = Gone(setup.start, deq, h) \cup (a .. s - 1)
    BY <1>3, <1>6, <1>9, <2>2, <2>3, <2>4, MineShrinks
  <2> QED
    BY <1>5, <1>10, <1>11, <1>12, <2>2, <2>5 DEF PresentNow, GoneNow
<1>14. Owned(setup.blocks, pool, Loose(Tip(enqueued), w, ch), blk, deq')
  BY <1>3, <1>10, OwnKept DEF Settled
<1>15. Consuming(setup.start, deq', Rings(index), entry, z, num, blk, after)
  <2>1. \A m \in DOMAIN blk : m \in Int
    BY DEF Settled, Indexed, Listed
  <2>2. Consuming(setup.start, deq, Rings(index), entry, z, num, blk, GoneNow)
    BY DEF Settled
  <2>3. Consuming(setup.start, Set(deq, c, d), Rings(index), entry, z, num, blk, after)
    BY <1>1, <1>2, <1>3, <1>5, <1>7, <1>9, <2>1, <2>2, ConsumeEmptied
  <2> QED
    BY <1>10, <2>3
<1> QED
  BY <1>4, <1>8, <1>11, <1>12, <1>13, <1>14, <1>15 DEF Settled

(* A block goes out of use.                                                *)
Without(blk, n) == [m \in DOMAIN blk \ {n} |-> blk[m]]

LEMMA WithoutFacts ==
  ASSUME NEW blk, NEW n
  PROVE  /\ DOMAIN Without(blk, n) = DOMAIN blk \ {n}
         /\ \A m \in DOMAIN Without(blk, n) : Without(blk, n)[m] = blk[m]
  BY DEF Without

Valued(en, x, v) == [en EXCEPT ![x].value = v]

LEMMA ValueStored ==
  ASSUME NEW sl, NEW en, NEW z, NEW size, Headers(sl, en, z, size),
         NEW x \in 0 .. Size(sl) - 1, NEW v \in Block \cup {Nil},
         NEW ey, ey = Valued(en, x, v)
  PROVE  /\ ey \in [0 .. Size(sl) - 1 -> Entries]
         /\ \A e \in 0 .. Size(sl) - 1 :
              /\ ey[e].key = en[e].key /\ (Valid(ey, e) <=> Valid(en, e))
              /\ e # x => ey[e] = en[e]
         /\ ey[x].value = v
<1>1. en \in [0 .. Size(sl) - 1 -> Entries]
  BY DEF Headers
<1>2. en[x] \in Entries
  BY <1>1
<1>3. PICK r : /\ r = [en[x] EXCEPT !.value = v] /\ r \in Entries
               /\ r.key = en[x].key /\ r.value = v
  <2>1. PICK k, u : k \in Index /\ en[x] = [key |-> k, value |-> u]
    BY <1>2 DEF Entries
  <2>2. PICK r : r = [key |-> k, value |-> v]
    OBVIOUS
  <2>3. r = [en[x] EXCEPT !.value = v] /\ r.key = en[x].key /\ r.value = v
    BY <2>1, <2>2
  <2>4. r \in Entries
    BY <2>1, <2>2 DEF Entries
  <2> QED
    BY <2>3, <2>4
<1>4. ey = [en EXCEPT ![x] = r]
  BY <1>1, <1>3 DEF Valued
<1>5. ey \in [0 .. Size(sl) - 1 -> Entries] /\ ey[x] = r
      /\ \A e \in 0 .. Size(sl) - 1 : e # x => ey[e] = en[e]
  BY <1>1, <1>3, <1>4
<1>6. \A e \in 0 .. Size(sl) - 1 : ey[e].key = en[e].key
  BY <1>3, <1>5
<1> QED
  BY <1>3, <1>5, <1>6 DEF Valid

LEMMA IndexWithout ==
  ASSUME NEW sl, NEW en, NEW z, NEW num, NEW f, NEW blk, NEW p, NEW st, NEW size,
         Indexed(sl, en, z, num, f, blk, p, st, size), NEW n \in DOMAIN blk,
         NEW ey, ey = Valued(en, Here(sl, z, n), Nil),
         NEW by, by = Without(blk, n)
  PROVE  /\ Indexed(sl, ey, z, num, f, by, p, st, size)
         /\ \A x : Occupied(sl, en, z, blk, x) => Occupied(sl, ey, z, by, x)
         /\ \A m \in Int : Exact(sl, en, z, num, m) <=> Exact(sl, ey, z, num, m)
         /\ \A e \in 0 .. Size(sl) - 1 : Valid(ey, e) <=> Valid(en, e)
<1>1. Headers(sl, en, z, size) /\ Listed(sl, en, z, num, blk)
  BY DEF Indexed
<1>2. PICK x : x = Here(sl, z, n) /\ x \in 0 .. Size(sl) - 1
  BY <1>1, HeaderFacts DEF Listed
<1>3. /\ ey \in [0 .. Size(sl) - 1 -> Entries]
      /\ \A e \in 0 .. Size(sl) - 1 :
           /\ ey[e].key = en[e].key /\ (Valid(ey, e) <=> Valid(en, e))
           /\ e # x => ey[e] = en[e]
      /\ ey[x].value = Nil
  <2>1. /\ Nil \in Block \cup {Nil} /\ ey = Valued(en, x, Nil)
        /\ Headers(sl, en, z, size) /\ x \in 0 .. Size(sl) - 1
    BY <1>1, <1>2
  <2> QED
    BY <2>1, ValueStored
<1>4. \A m \in Int : Exact(sl, en, z, num, m) <=> Exact(sl, ey, z, num, m)
  BY <1>1, <1>3, HeaderFacts DEF Exact
<1>5. /\ DOMAIN by = DOMAIN blk \ {n}
      /\ \A m \in DOMAIN by : by[m] = blk[m]
  BY WithoutFacts
<1>6. ASSUME NEW m \in DOMAIN by
      PROVE  Here(sl, z, m) # x /\ Here(sl, z, m) \in 0 .. Size(sl) - 1
  <2>1. m \in DOMAIN blk /\ m # n
    BY <1>5
  <2>2. Exact(sl, en, z, num, m) /\ Exact(sl, en, z, num, n) /\ m \in Int
    BY <1>1, <2>1 DEF Listed
  <2> QED
    BY <1>1, <1>2, <2>1, <2>2, HeaderFacts DEF Exact
<1>7. Listed(sl, ey, z, num, by)
  <2>1. ASSUME NEW m \in DOMAIN by
        PROVE  /\ m \in Nat /\ by[m] \in Block
               /\ Exact(sl, ey, z, num, m) /\ ey[Here(sl, z, m)].value = by[m]
    <3>1. /\ m \in Nat /\ blk[m] \in Block /\ by[m] = blk[m]
          /\ Exact(sl, en, z, num, m) /\ en[Here(sl, z, m)].value = blk[m]
      BY <1>1, <1>5 DEF Listed
    <3>2. ey[Here(sl, z, m)] = en[Here(sl, z, m)]
      BY <1>3, <1>6
    <3>3. m \in Int /\ Exact(sl, en, z, num, m)
      BY <3>1
    <3>4. Exact(sl, ey, z, num, m)
      BY <1>4, <3>3
    <3> QED
      BY <3>1, <3>2, <3>4
  <2> QED
    BY <2>1 DEF Listed
<1>8. Indexed(sl, ey, z, num, f, by, p, st, size)
  <2>1. \A e \in 0 .. Size(sl) - 1 : ey[e].key = en[e].key
    BY <1>3
  <2>2. \A m \in DOMAIN by : m \in DOMAIN blk \/ p < m
    BY <1>5
  <2> QED
    BY <1>3, <1>7, <2>1, <2>2, ValuesSet
<1>9. ASSUME NEW y, Occupied(sl, en, z, blk, y) PROVE Occupied(sl, ey, z, by, y)
  <2>1. SUFFICES ASSUME NEW e \in 0 .. Size(sl) - 1, Valid(ey, e), ey[e].value # Nil
                 PROVE  e \in y \/ \E m \in DOMAIN by : Here(sl, z, m) = e
    BY DEF Occupied
  <2>2. e # x /\ Valid(en, e) /\ en[e].value # Nil
    BY <1>3, <2>1
  <2> QED
    BY <1>2, <1>5, <1>9, <2>2 DEF Occupied
<1> QED
  BY <1>3, <1>4, <1>8, <1>9

LEMMA StoredWithout ==
  ASSUME SetupOK, NEW st, NEW el, NEW out, NEW blk, NEW present, NEW gone,
         Stored(st, el, out, blk, present, gone), present \subseteq Int,
         \A m, k \in DOMAIN blk : blk[m] = blk[k] => m = k,
         NEW n \in DOMAIN blk, n \in Int, blk[n] \in Block,
         \A j \in Slot : SlotOf(n, j) \notin present
  PROVE  Stored(st, el, out, Without(blk, n), present, gone)
<1>1. /\ el \in [Block -> [Slot -> Index \cup {Nil}]] /\ out \in [Block -> 0 .. BLOCK_SIZE]
      /\ \A m \in DOMAIN blk : \A j \in Slot :
           el[blk[m]][j] = IF SlotOf(m, j) \in present THEN Plus(st, SlotOf(m, j)) ELSE Nil
      /\ \A m \in DOMAIN blk : out[blk[m]] = Cardinality(GoneOf(m, gone))
      /\ \A x \in Block : (\A m \in DOMAIN blk : blk[m] # x) => el[x] = Vacant
      /\ \A x \in present : x \div BLOCK_SIZE \in DOMAIN blk
  BY StoredMeans
<1>2. PICK by : /\ by = Without(blk, n) /\ DOMAIN by = DOMAIN blk \ {n}
                /\ \A m \in DOMAIN by : by[m] = blk[m]
  <2>1. PICK by : by = Without(blk, n)
    OBVIOUS
  <2>2. DOMAIN by = DOMAIN blk \ {n} /\ \A m \in DOMAIN by : by[m] = blk[m]
    BY <2>1, WithoutFacts
  <2> QED
    BY <2>1, <2>2
<1>3. ASSUME NEW x \in Block, \A m \in DOMAIN by : by[m] # x PROVE el[x] = Vacant
  <2>1. CASE x = blk[n]
    <3>1. el[x] \in [Slot -> Index \cup {Nil}] /\ \A j \in Slot : el[x][j] = Nil
      BY <1>1, <2>1
    <3> QED
      BY <3>1 DEF Vacant
  <2> QED
    BY <1>1, <1>2, <1>3, <2>1
<1>4. ASSUME NEW x \in present PROVE x \div BLOCK_SIZE \in DOMAIN by
  <2>1. x \in Int
    OBVIOUS
  <2>2. x % BLOCK_SIZE \in Slot /\ SlotOf(x \div BLOCK_SIZE, x % BLOCK_SIZE) = x
    BY <2>1, SlotIs
  <2>3. x \div BLOCK_SIZE # n
    BY <2>2
  <2> QED
    BY <1>1, <1>2, <2>3
<1>5. \A m \in DOMAIN by : \A j \in Slot :
        el[by[m]][j] = IF SlotOf(m, j) \in present THEN Plus(st, SlotOf(m, j)) ELSE Nil
  BY <1>1, <1>2
<1>6. \A m \in DOMAIN by : out[by[m]] = Cardinality(GoneOf(m, gone))
  BY <1>1, <1>2
<1>7. Stored(st, el, out, by, present, gone)
  BY <1>1, <1>3, <1>4, <1>5, <1>6, StoredMeans
<1> QED
  BY <1>2, <1>7

LEMMA OwnUnlinked ==
  ASSUME NEW all, NEW pl, NEW loose, NEW blk, NEW dq, Calls(dq), NEW c \in Consumer, NEW d,
         Owned(all, pl, loose, blk, dq), Recycles(d), ~Recycles(dq[c]),
         NEW n \in DOMAIN blk, d.block = blk[n]
  PROVE  Owned(all, pl, loose, Without(blk, n), Set(dq, c, d))
<1>1. PICK dy : dy = Set(dq, c, d) /\ dy[c] = d /\ \A x \in Consumer : x # c => dy[x] = dq[x]
  BY SetFacts
<1>2. PICK by : /\ by = Without(blk, n) /\ DOMAIN by = DOMAIN blk \ {n}
                /\ \A m \in DOMAIN by : by[m] = blk[m]
  <2>1. PICK by : by = Without(blk, n)
    OBVIOUS
  <2>2. DOMAIN by = DOMAIN blk \ {n} /\ \A m \in DOMAIN by : by[m] = blk[m]
    BY <2>1, WithoutFacts
  <2> QED
    BY <2>1, <2>2
<1>3. ASSUME NEW x \in Consumer, Recycles(dy[x])
      PROVE  /\ dy[x].block \in all /\ dy[x].block \notin pl /\ dy[x].block \notin loose
             /\ \A m \in DOMAIN by : by[m] # dy[x].block
  BY <1>1, <1>2, <1>3 DEF Owned
<1>4. ASSUME NEW x \in Consumer, NEW e \in Consumer, Recycles(dy[x]), Recycles(dy[e]),
             dy[x].block = dy[e].block
      PROVE  x = e
  BY <1>1, <1>4 DEF Owned
<1>5. ASSUME NEW b \in all
      PROVE  \/ b \in pl \/ b \in loose
             \/ \E m \in DOMAIN by : by[m] = b
             \/ \E x \in Consumer : Recycles(dy[x]) /\ dy[x].block = b
  <2>1. CASE \E m \in DOMAIN blk : blk[m] = b
    BY <1>1, <1>2, <2>1
  <2>2. CASE \E x \in Consumer : Recycles(dq[x]) /\ dq[x].block = b
    BY <1>1, <2>2
  <2> QED
    BY <2>1, <2>2 DEF Owned
<1>6. /\ \A m \in DOMAIN by : by[m] \in all /\ by[m] \notin pl /\ by[m] \notin loose
      /\ \A m, k \in DOMAIN by : by[m] = by[k] => m = k
  BY <1>2 DEF Owned
<1>7. Owned(all, pl, loose, by, dy)
  BY <1>3, <1>4, <1>5, <1>6 DEF Owned
<1> QED
  BY <1>1, <1>2, <1>7

LEMMA ConsumeWithout ==
  ASSUME NEW st, NEW dq, NEW dy, NEW sl, NEW en, NEW z, NEW num, NEW blk, NEW gone,
         Consuming(st, dq, sl, en, z, num, blk, gone), NEW n, NEW by, by = Without(blk, n),
         NEW size, Headers(sl, en, z, size), NEW ey,
         \A e \in 0 .. Size(sl) - 1 : Valid(ey, e) <=> Valid(en, e),
         \A x \in Consumer :
           \/ /\ dy[x] = dq[x]
              /\ dq[x].pc \in {"read", "unlink"} =>
                   Number(st, dq[x]) # n /\ Number(st, dq[x]) \in DOMAIN blk
           \/ /\ dy[x].pc = "recycle" /\ Unlinks(st, dq[x], n)
              /\ LookedUp(st, dy[x], sl, ey, z, num, by, gone)
  PROVE  Consuming(st, dy, sl, ey, z, num, by, gone)
<1>1. DOMAIN by = DOMAIN blk \ {n} /\ \A m \in DOMAIN by : by[m] = blk[m]
  BY WithoutFacts
<1>2. ASSUME NEW x \in Consumer PROVE LookedUp(st, dy[x], sl, ey, z, num, by, gone)
  <2>1. CASE /\ dy[x] = dq[x]
             /\ dq[x].pc \in {"read", "unlink"} =>
                  Number(st, dq[x]) # n /\ Number(st, dq[x]) \in DOMAIN blk
    <3>1. LookedUp(st, dq[x], sl, en, z, num, blk, gone)
      BY DEF Consuming
    <3>2. dq[x].pc = "base" => Valid(ey, sl[dq[x].header][dq[x].front])
      BY <3>1, HeaderFacts DEF LookedUp, LookingPcs
    <3> QED
      BY <1>1, <2>1, <3>1, <3>2 DEF LookedUp
  <2> QED
    BY <2>1
<1>3. ASSUME NEW x \in Consumer, NEW m, Unlinks(st, dy[x], m) PROVE dy[x] = dq[x]
  BY <1>3 DEF Unlinks
<1>4. ASSUME NEW x \in Consumer, NEW e \in Consumer, NEW m \in DOMAIN by,
             Unlinks(st, dy[x], m), Unlinks(st, dy[e], m)
      PROVE  x = e
  BY <1>1, <1>3, <1>4 DEF Consuming
<1>5. ASSUME NEW m \in DOMAIN by, Whole(m, gone) PROVE \E x \in Consumer : Unlinks(st, dy[x], m)
  <2>1. PICK x \in Consumer : Unlinks(st, dq[x], m)
    BY <1>1, <1>5 DEF Consuming
  <2>2. dy[x] = dq[x]
    BY <1>1, <2>1 DEF Unlinks
  <2> QED
    BY <2>1, <2>2
<1> QED
  BY <1>2, <1>4, <1>5 DEF Consuming

(* The producer does not look back at a block that is full.                *)
Behind(n, total) == n \in Int /\ n * BLOCK_SIZE + BLOCK_SIZE <= total

LEMMA BehindFacts ==
  ASSUME SetupOK, NEW n, NEW total \in Int, Behind(n, total)
  PROVE  /\ total % BLOCK_SIZE # 0 => n < Tip(total)
         /\ n <= Tip(total)
         /\ \A x \in Int : total <= x => n < x \div BLOCK_SIZE
         /\ \A k \in Nat \ {0} : n < Last(total, k)
<1>1. PICK b, g : /\ b = BLOCK_SIZE /\ b \in Nat \ {0} /\ n \in Int /\ g = n * b /\ g \in Int
                  /\ g + b <= total /\ n + 1 \in Int /\ (n + 1) * b = g + b
  BY SetupMore, MulStep DEF Behind
<1>2. ASSUME NEW x \in Int, total <= x PROVE n < x \div b
  <2>1. (n + 1) * b <= x
    BY <1>1, <1>2
  <2>2. PICK q, y : q = x \div b /\ q \in Int /\ y = q * b /\ y \in Int /\ x < y + b
    BY <1>1, DivFacts
  <2>3. CASE q <= n
    <3>1. q * b <= n * b
      BY <1>1, <2>2, <2>3, MulStep
    <3> QED
      BY <1>1, <2>1, <2>2, <3>1
  <2> QED
    BY <1>1, <2>2, <2>3
<1>3. ASSUME NEW k \in Nat \ {0} PROVE n < Last(total, k)
  <2>1. PICK x : x = total + k - 1 /\ x \in Int /\ total <= x
    OBVIOUS
  <2> QED
    BY <1>1, <1>2, <2>1 DEF Last, Tip
<1>4. total % b # 0 => n < Tip(total)
  <2>1. total <= total
    OBVIOUS
  <2> QED
    BY <1>1, <1>2, <2>1, TipFacts
<1>5. n <= Tip(total)
  <2>1. n * b < total
    BY <1>1
  <2> QED
    BY <1>1, <2>1, TipFacts
<1> QED
  BY <1>1, <1>2, <1>3, <1>4, <1>5

LEMMA ProduceWithout ==
  ASSUME Counted, InOrder, NEW t, NEW w, NEW ch, NEW f, NEW blk,
         Producing(setup.start, enq, tailBlock, next, enqueued, t, w, ch, f, blk),
         NEW n, Behind(n, enqueued), NEW by, by = Without(blk, n)
  PROVE  Producing(setup.start, enq, tailBlock, next, enqueued, t, w, ch, f, by)
<1>1. DOMAIN by = DOMAIN blk \ {n} /\ \A m \in DOMAIN by : by[m] = blk[m]
  BY WithoutFacts
<1>2. SetupOK /\ enqueued \in Int /\ n \in Int /\ (enq.pc # "idle" => enq.n \in Nat \ {0})
  BY CountsFacts DEF Behind
<1>3. /\ enqueued % BLOCK_SIZE # 0 => n < Tip(enqueued)
      /\ \A x \in Int : enqueued <= x => n < x \div BLOCK_SIZE
      /\ \A k \in Nat \ {0} : n < Last(enqueued, k)
  BY <1>2, BehindFacts
<1>4. Tip(enqueued) \in Int
  BY CountsFacts
<1>5. ASSUME NEW start, NEW first, Starts(start, first, next, enqueued, blk)
      PROVE  Starts(start, first, next, enqueued, by)
  <2>1. Tip(enqueued) \in DOMAIN by => start = by[Tip(enqueued)]
    BY <1>1, <1>5 DEF Starts
  <2>2. enqueued % BLOCK_SIZE # 0 => Tip(enqueued) \in DOMAIN by
    BY <1>1, <1>2, <1>3, <1>4, <1>5 DEF Starts
  <2> QED
    BY <1>5, <2>1, <2>2 DEF Starts
<1>6. CASE enq.pc = "construct"
  <2>1. Constructing(setup.start, enq, tailBlock, next, enqueued, t, w, f, blk)
    BY <1>6 DEF Producing
  <2>2. PICK x, k : /\ x = Begin(setup.start, enq) /\ x \in Int /\ enqueued <= x
                    /\ k = x \div BLOCK_SIZE /\ k = Number(setup.start, enq)
    <3>1. enq.at \in Index /\ enqueued <= Begin(setup.start, enq)
      BY <2>1 DEF Constructing
    <3>2. Off(enq.at) \in Index
      BY <1>2, <3>1, OffsetFacts
    <3>3. Index \subseteq Int
      BY <1>2, SetupFacts DEF Index
    <3>4. Begin(setup.start, enq) \in Int
      BY <3>2, <3>3 DEF Off, Begin
    <3> QED
      BY <3>1, <3>4 DEF Number
  <2>3. n < k /\ k \in Int /\ t \in Int
    <3>1. k \in Int
      BY <1>2, <2>2, SetupMore, DivFacts
    <3>2. t \in Int
      BY <1>2, <1>6, <2>1, TipFacts DEF Constructing, Last
    <3> QED
      BY <1>3, <2>2, <3>1, <3>2
  <2>4. \A m \in k .. t : m \in DOMAIN by /\ by[m] = blk[m]
    BY <1>1, <1>2, <2>1, <2>2, <2>3 DEF Constructing
  <2>5. k <= t
    <3>1. PICK y, b : y = (enqueued + enq.n) - 1 /\ y \in Int /\ x <= y /\ b = BLOCK_SIZE /\ b \in Nat \ {0}
      BY <1>2, <1>6, <2>1, <2>2, SetupMore DEF Constructing
    <3>2. x \div b <= y \div b
      BY <2>2, <3>1, DivMono
    <3> QED
      BY <2>1, <2>2, <3>1, <3>2 DEF Constructing, Last, Tip
  <2>6. tailBlock = by[k] /\ enq.last = by[t]
    BY <2>1, <2>2, <2>3, <2>4, <2>5 DEF Constructing
  <2>7. \A m \in k .. t - 1 : next[by[m]] = by[m + 1]
    <3>1. TAKE m \in k .. t - 1
    <3>2. m \in k .. t /\ m + 1 \in k .. t
      BY <2>3
    <3> QED
      BY <2>1, <2>2, <2>4, <3>2 DEF Constructing
  <2>8. \A m \in k .. t : m \in DOMAIN by
    BY <2>4
  <2>9. Constructing(setup.start, enq, tailBlock, next, enqueued, t, w, f, by)
    BY <2>1, <2>2, <2>6, <2>7, <2>8 DEF Constructing
  <2> QED
    BY <1>6, <2>9 DEF Producing, FindingPcs
<1>7. CASE enq.pc = "publish"
  <2>1. Publishing(enq, tailBlock, enqueued, t, w, f, blk)
    BY <1>7 DEF Producing
  <2>2. n < t
    BY <1>2, <1>3, <1>7, <2>1 DEF Publishing
  <2>3. t \in DOMAIN by
    BY <1>1, <1>2, <2>1, <2>2 DEF Publishing
  <2>4. Publishing(enq, tailBlock, enqueued, t, w, f, by)
    BY <1>1, <2>1, <2>3 DEF Publishing
  <2> QED
    BY <1>7, <2>4 DEF Producing, FindingPcs
<1>8. CASE enq.pc = "idle"
  <2>1. Resting(enq, tailBlock, next, enqueued, t, w, f, by)
    BY <1>5, <1>8 DEF Producing, Resting
  <2> QED
    BY <1>8, <2>1 DEF Producing, FindingPcs
<1>9. CASE enq.pc \in FindingPcs
  <2>1. Finding(setup.start, enq, tailBlock, next, enqueued, t, w, ch, f, by)
    BY <1>5, <1>9 DEF Producing, Finding
  <2> QED
    BY <1>9, <2>1 DEF Producing, FindingPcs
<1>10. CASE enq.pc \in {"unindex", "free"}
  <2>1. Withdrawing(setup.start, enq, next, enqueued, t, w, ch, f, by)
    BY <1>5, <1>10 DEF Producing, Withdrawing
  <2> QED
    BY <1>10, <2>1 DEF Producing, FindingPcs
<1> QED
  BY <1>6, <1>7, <1>8, <1>9, <1>10 DEF Producing

LEMMA ChosenWithout ==
  ASSUME NEW all, NEW tip, NEW t, NEW w, NEW ch, NEW blk, Chosen(all, tip, t, w, ch, blk),
         NEW n \in Int, n <= tip
  PROVE  Chosen(all, tip, t, w, ch, Without(blk, n))
<1>1. PICK by : by = Without(blk, n)
  OBVIOUS
<1>2. DOMAIN by = DOMAIN blk \ {n} /\ \A m \in DOMAIN by : by[m] = blk[m]
  BY <1>1, WithoutFacts
<1>3. tip \in Int /\ w \in Int /\ tip <= w /\ t \in Int /\ w <= t
  BY DEF Chosen
<1>4. \A m \in tip + 1 .. t : m # n
  BY <1>3
<1>5. Chosen(all, tip, t, w, ch, by)
  BY <1>2, <1>3, <1>4 DEF Chosen
<1> QED
  BY <1>1, <1>5

(* A block all of whose elements are out.                                  *)
LEMMA WholeFacts ==
  ASSUME Counted, InOrder, NEW z, NEW num, NEW f, NEW blk, NEW t, NEW w, NEW ch,
         Settled(z, num, f, blk, t, w, ch), NEW n \in Int, Whole(n, GoneNow)
  PROVE  /\ Behind(n, HeadNo) /\ Behind(n, enqueued)
         /\ \A j \in Slot : SlotOf(n, j) \notin PresentNow
         /\ \A c \in Consumer : Taking(deq[c]) /\ deq[c].pc \notin {"unlink", "recycle"} =>
              Number(setup.start, deq[c]) # n
<1>1. SetupOK /\ HeadNo \in Int /\ enqueued \in Int /\ HeadNo <= enqueued
  BY CountsFacts
<1>2. PICK b, k : b = BLOCK_SIZE /\ b \in Nat \ {0} /\ k = n * b /\ k \in Int /\ Slot = 0 .. b - 1
  BY <1>1, SetupMore DEF Slot
<1>3. \A j \in Slot : SlotOf(n, j) \in GoneNow
  BY DEF Whole, SlotOf
<1>4. Behind(n, HeadNo) /\ Behind(n, enqueued)
  <2>1. b - 1 \in Slot
    BY <1>2
  <2>2. k + (b - 1) \in GoneNow
    BY <1>2, <1>3, <2>1 DEF SlotOf
  <2>3. k + (b - 1) <= HeadNo - 1
    BY <1>1, <1>2, <2>2 DEF GoneNow, Gone
  <2>4. k + b <= HeadNo /\ k + b <= enqueued
    BY <1>1, <1>2, <2>3
  <2> QED
    BY <1>2, <2>4 DEF Behind
<1>5. \A x \in GoneNow : x \notin PresentNow
  <2>1. Claimed(setup.start, deq) \cap GoneNow = {}
    BY DEF GoneNow, Gone
  <2>2. \A x \in GoneNow : x < HeadNo
    BY <1>1 DEF GoneNow, Gone
  <2> QED
    BY <1>1, <2>1, <2>2 DEF PresentNow, Present
<1>6. ASSUME NEW c \in Consumer, Taking(deq[c]), deq[c].pc \notin {"unlink", "recycle"},
             Number(setup.start, deq[c]) = n
      PROVE  FALSE
  <2>1. PICK a, e \in Int : /\ a = Begin(setup.start, deq[c]) /\ e = Finish(setup.start, deq[c])
                            /\ a < e /\ n = a \div BLOCK_SIZE
    BY <1>6, LookFacts
  <2>2. a % BLOCK_SIZE \in Slot /\ SlotOf(n, a % BLOCK_SIZE) = a
    BY <1>1, <2>1, SlotIs
  <2>3. a \in From(setup.start, deq[c]) .. Finish(setup.start, deq[c]) - 1
    BY <1>6, <2>1 DEF From
  <2>4. a \in PresentNow
    BY <1>6, <2>3 DEF PresentNow, Present, Claimed, Mine
  <2> QED
    BY <1>3, <1>5, <2>2, <2>4
<1> QED
  BY <1>3, <1>4, <1>5, <1>6

LEMMA UnlinkMeans ==
  ASSUME Counted, InOrder, NEW z, NEW num, NEW f, NEW blk, NEW t, NEW w, NEW ch,
         Settled(z, num, f, blk, t, w, ch), NEW c \in Consumer, Implicit!Unlink(c),
         NEW n, n = Number(setup.start, deq[c])
  PROVE  /\ deq[c].pc = "unlink" /\ n \in Int /\ n \in DOMAIN blk /\ deq[c].block = blk[n]
         /\ Whole(n, GoneNow) /\ entry' = Valued(entry, Here(Rings(index), z, n), Nil)
         /\ \E d : /\ Becomes(c, d) /\ d.pc = "recycle" /\ d.at = deq[c].at
                   /\ d.end = deq[c].end /\ d.header = deq[c].header /\ d.pos = deq[c].pos
                   /\ d.block = blk[n]
<1>1. deq[c].pc = "unlink"
  BY DEF Implicit!Unlink, Implicit!At
<1>2. LookedUp(setup.start, deq[c], Rings(index), entry, z, num, blk, GoneNow)
  BY DEF Settled, Consuming
<1>3. PICK j : /\ j = deq[c].header /\ n \in DOMAIN blk /\ deq[c].block = blk[n]
               /\ Whole(n, GoneNow) /\ j \in 1 .. Len(Rings(index))
               /\ deq[c].pos = Turn(Cap(Rings(index), j), z[j], n)
               /\ {"at", "end", "header", "pos", "block"} \subseteq DOMAIN deq[c]
               /\ n * BLOCK_SIZE < Finish(setup.start, deq[c]) =>
                    EntryNo(Rings(index), z, j, n) = Here(Rings(index), z, n)
  <2>1. n \in DOMAIN blk
    BY <1>1, <1>2 DEF LookedUp
  <2>2. n \in Nat
    BY <2>1 DEF Settled, Indexed, Listed
  <2>3. n <= n
    BY <2>2
  <2> QED
    BY <1>1, <1>2, <2>1, <2>3 DEF LookedUp, LookingPcs
<1>4. n \in Int /\ n * BLOCK_SIZE < Finish(setup.start, deq[c])
  <2>1. PICK a, e, s \in Int :
           /\ e = Finish(setup.start, deq[c]) /\ a < s /\ s <= e /\ Within(n, a, s)
    BY <1>1, StopOf DEF Taking, LookingPcs
  <2>2. n \in Int /\ n * BLOCK_SIZE <= a /\ BLOCK_SIZE \in Nat
    BY <2>1, CountsFacts, SetupMore DEF Within
  <2>3. n * BLOCK_SIZE < e
    BY <2>1, <2>2
  <2> QED
    BY <2>1, <2>2, <2>3
<1>5. Implicit!Opened(c).slots[deq[c].pos] = Here(Rings(index), z, n)
  <2>1. Rings(index)[j] = Implicit!Opened(c).slots
    BY <1>3, IndexShape DEF Settled, Implicit!Opened
  <2> QED
    BY <1>3, <1>4, <2>1 DEF EntryNo
<1>6. entry' = Valued(entry, Here(Rings(index), z, n), Nil)
  BY <1>5 DEF Implicit!Unlink, Valued
<1>7. PICK d : d = [deq[c] EXCEPT !.pc = "recycle"]
  OBVIOUS
<1>8. Becomes(c, d)
  BY <1>7 DEF Implicit!Unlink, Implicit!Go, Becomes
<1>9. /\ d.pc = "recycle" /\ d.at = deq[c].at /\ d.end = deq[c].end /\ d.header = deq[c].header
      /\ d.pos = deq[c].pos /\ d.block = blk[n]
  <2>1. "pc" \in DOMAIN deq[c]
    BY DEF Counted, Counting
  <2> QED
    BY <1>3, <1>7, <2>1
<1> QED
  BY <1>1, <1>3, <1>4, <1>6, <1>8, <1>9

LEMMA UnlinkKeeps ==
  ASSUME Counted, InOrder, NEW z, NEW num, NEW f, NEW blk, NEW t, NEW w, NEW ch,
         Settled(z, num, f, blk, t, w, ch), NEW c \in Consumer, Implicit!Unlink(c),
         NEW n, n = Number(setup.start, deq[c]), NEW by, by = Without(blk, n)
  PROVE  Settled(z, num, f, by, t, w, ch)'
<1>1. /\ deq[c].pc = "unlink" /\ n \in Int /\ n \in DOMAIN blk /\ deq[c].block = blk[n]
      /\ Whole(n, GoneNow) /\ entry' = Valued(entry, Here(Rings(index), z, n), Nil)
  BY UnlinkMeans
<1>2. PICK d : /\ Becomes(c, d) /\ d.pc = "recycle" /\ d.at = deq[c].at
               /\ d.end = deq[c].end /\ d.header = deq[c].header /\ d.pos = deq[c].pos
               /\ d.block = blk[n]
  BY UnlinkMeans
<1>3. SetupOK /\ HeadNo \in Int /\ enqueued \in Int /\ Calls(deq)
  BY CountsFacts
<1>4. /\ Behind(n, enqueued) /\ \A j \in Slot : SlotOf(n, j) \notin PresentNow
      /\ \A x \in Consumer : Taking(deq[x]) /\ deq[x].pc \notin {"unlink", "recycle"} =>
           Number(setup.start, deq[x]) # n
  BY <1>1, WholeFacts
<1>5. PICK ey : ey = Valued(entry, Here(Rings(index), z, n), Nil) /\ entry' = ey
  BY <1>1
<1>6. /\ Indexed(Rings(index), ey, z, num, f, by, Tip(enqueued), setup.start, setup.indexSize)
      /\ \A x : Occupied(Rings(index), entry, z, blk, x) => Occupied(Rings(index), ey, z, by, x)
      /\ \A m \in Int : Exact(Rings(index), entry, z, num, m) <=> Exact(Rings(index), ey, z, num, m)
      /\ \A e \in 0 .. Size(Rings(index)) - 1 : Valid(ey, e) <=> Valid(entry, e)
  <2>1. Indexed(Rings(index), entry, z, num, f, blk, Tip(enqueued), setup.start, setup.indexSize)
    BY DEF Settled
  <2> QED
    BY <1>1, <1>5, <2>1, IndexWithout
<1>7. Marked(enq.pc, Rings(index), ey, z, num, f, by)
  <2>1. f \in Int
    BY FrontFacts
  <2>2. f + 1 \in Int
    BY <2>1
  <2> QED
    BY <1>6, <2>2 DEF Settled, Marked
<1>8. UNCHANGED <<setup, headIndex, elements, dequeued, next, pool, index, tailBlock, enq, enqueued>>
  BY DEF Implicit!Unlink, Implicit!counters, Implicit!memory, Implicit!producer
<1>9. deq' = Set(deq, c, d)
  BY <1>2 DEF Becomes, Set
<1>10. HeadNo' = HeadNo /\ Built(setup.start, enq, enqueued)' = Built(setup.start, enq, enqueued)
  BY <1>8 DEF HeadNo, Off, Minus, Built, Begin
<1>11. Shared(setup.start, deq', HeadNo) /\ PresentNow' = PresentNow /\ GoneNow' = GoneNow
  <2>1. Ranged(setup.start, d, HeadNo)
    <3>1. Ranged(setup.start, deq[c], HeadNo)
      BY DEF Settled, Shared
    <3> QED
      BY <1>1, <1>2, <3>1 DEF Ranged, Taking, LookingPcs, Begin, Finish
  <2>2. Mine(setup.start, d) = Mine(setup.start, deq[c])
    BY <1>1, <1>2 DEF Mine, Taking, LookingPcs, From, Halt, Finish, Begin
  <2>3. /\ Shared(setup.start, deq', HeadNo)
        /\ \A built : Present(setup.start, deq', HeadNo, built)
                        = Present(setup.start, deq, HeadNo, built)
        /\ Gone(setup.start, deq', HeadNo) = Gone(setup.start, deq, HeadNo)
    BY <1>3, <1>9, <2>1, <2>2, ShareKept DEF Settled
  <2> QED
    BY <1>8, <1>10, <2>3 DEF PresentNow, GoneNow
<1>12. Stored(setup.start, elements, dequeued, by, PresentNow, GoneNow)
  <2>1. PresentNow \subseteq Int
    <3>1. Claimed(setup.start, deq) \subseteq 0 .. HeadNo - 1
      BY <1>3, ClaimedFacts DEF Settled
    <3> QED
      BY <1>3, <3>1 DEF PresentNow, Present
  <2>2. /\ \A m, k \in DOMAIN blk : blk[m] = blk[k] => m = k
        /\ Stored(setup.start, elements, dequeued, blk, PresentNow, GoneNow)
        /\ blk[n] \in Block
    BY <1>1 DEF Settled, Owned, Indexed, Listed
  <2> QED
    BY <1>1, <1>3, <1>4, <2>1, <2>2, StoredWithout
<1>13. Owned(setup.blocks, pool, Loose(Tip(enqueued), w, ch), by, deq')
  <2>1. Recycles(d) /\ ~Recycles(deq[c])
    BY <1>1, <1>2 DEF Recycles
  <2> QED
    BY <1>1, <1>2, <1>3, <1>9, <2>1, OwnUnlinked DEF Settled
<1>14. Consuming(setup.start, deq', Rings(index), ey, z, num, by, GoneNow)
  <2>1. PICK dy : dy = deq' /\ dy[c] = d /\ \A x \in Consumer : x # c => dy[x] = deq[x]
    BY <1>3, <1>9, SetFacts
  <2>2. LookedUp(setup.start, d, Rings(index), ey, z, num, by, GoneNow)
    <3>1. LookedUp(setup.start, deq[c], Rings(index), entry, z, num, blk, GoneNow)
      BY DEF Settled, Consuming
    <3>2. Number(setup.start, d) = n /\ Finish(setup.start, d) = Finish(setup.start, deq[c])
      BY <1>2 DEF Number, Begin, Finish
    <3>3. DOMAIN by = DOMAIN blk \ {n}
      BY WithoutFacts
    <3> QED
      BY <1>1, <1>2, <3>1, <3>2, <3>3 DEF LookedUp, LookingPcs
  <2>3. ASSUME NEW x \in Consumer, x # c, deq[x].pc \in {"read", "unlink"}
        PROVE  Number(setup.start, deq[x]) # n /\ Number(setup.start, deq[x]) \in DOMAIN blk
    <3>1. CASE deq[x].pc = "read"
      <4>1. Taking(deq[x]) /\ deq[x].pc \notin {"unlink", "recycle"}
        BY <3>1 DEF Taking, LookingPcs
      <4> QED
        BY <1>4, <4>1, LookFacts
    <3>2. CASE deq[x].pc = "unlink"
      <4>1. Number(setup.start, deq[x]) \in DOMAIN blk
        BY <3>2 DEF Settled, Consuming, LookedUp
      <4>2. ~Unlinks(setup.start, deq[x], n)
        <5>1. Unlinks(setup.start, deq[c], n)
          BY <1>1 DEF Unlinks
        <5> QED
          BY <1>1, <2>3, <5>1 DEF Settled, Consuming
      <4> QED
        BY <3>2, <4>1, <4>2 DEF Unlinks
    <3> QED
      BY <2>3, <3>1, <3>2
  <2>4. \A x \in Consumer :
           \/ /\ dy[x] = deq[x]
              /\ deq[x].pc \in {"read", "unlink"} =>
                   Number(setup.start, deq[x]) # n /\ Number(setup.start, deq[x]) \in DOMAIN blk
           \/ /\ dy[x].pc = "recycle" /\ Unlinks(setup.start, deq[x], n)
              /\ LookedUp(setup.start, dy[x], Rings(index), ey, z, num, by, GoneNow)
    BY <1>1, <1>2, <2>1, <2>2, <2>3 DEF Unlinks
  <2>5. /\ Consuming(setup.start, deq, Rings(index), entry, z, num, blk, GoneNow)
        /\ Headers(Rings(index), entry, z, setup.indexSize)
    BY DEF Settled, Indexed
  <2>6. Consuming(setup.start, dy, Rings(index), ey, z, num, by, GoneNow)
    BY <1>6, <2>4, <2>5, ConsumeWithout
  <2> QED
    BY <2>1, <2>6
<1>15. Chosen(setup.blocks, Tip(enqueued), t, w, ch, by)
  BY <1>1, <1>3, <1>4, BehindFacts, ChosenWithout DEF Settled
<1>16. Producing(setup.start, enq, tailBlock, next, enqueued, t, w, ch, f, by)
  BY <1>4, ProduceWithout DEF Settled
<1> QED
  BY <1>5, <1>6, <1>7, <1>8, <1>10, <1>11, <1>12, <1>13, <1>14, <1>15, <1>16 DEF Settled

(* A block goes back to the pool.                                          *)
LEMMA OwnRecycled ==
  ASSUME NEW all, NEW pl, NEW loose, NEW blk, NEW dq, Calls(dq), NEW c \in Consumer, NEW d,
         Owned(all, pl, loose, blk, dq), ~Recycles(d), Recycles(dq[c])
  PROVE  Owned(all, pl \cup {dq[c].block}, loose, blk, Set(dq, c, d))
<1>1. PICK dy : dy = Set(dq, c, d) /\ dy[c] = d /\ \A x \in Consumer : x # c => dy[x] = dq[x]
  BY SetFacts
<1>2. PICK b : /\ b = dq[c].block /\ b \in all /\ b \notin pl /\ b \notin loose
               /\ \A m \in DOMAIN blk : blk[m] # b
               /\ \A x \in Consumer : x # c /\ Recycles(dq[x]) => dq[x].block # b
  BY DEF Owned
<1>3. \A x \in Consumer : Recycles(dy[x]) => x # c /\ Recycles(dq[x]) /\ dy[x] = dq[x]
  BY <1>1
<1>4. Owned(all, pl \cup {b}, loose, blk, dy)
  <2>1. \A v \in all : \/ v \in pl \cup {b} \/ v \in loose
                       \/ \E m \in DOMAIN blk : blk[m] = v
                       \/ \E x \in Consumer : Recycles(dy[x]) /\ dy[x].block = v
    BY <1>1, <1>2 DEF Owned
  <2> QED
    BY <1>2, <1>3, <2>1 DEF Owned
<1> QED
  BY <1>1, <1>2, <1>4

LEMMA RecycleKeeps ==
  ASSUME Counted, InOrder, NEW z, NEW num, NEW f, NEW blk, NEW t, NEW w, NEW ch,
         Settled(z, num, f, blk, t, w, ch), NEW c \in Consumer, Implicit!Recycle(c)
  PROVE  Settled(z, num, f, blk, t, w, ch)'
<1>1. deq[c].pc = "recycle" /\ pool' = pool \cup {deq[c].block}
  BY DEF Implicit!Recycle, Implicit!At
<1>2. PICK d : d = Implicit!NextBlock(c, Implicit!capacity(Implicit!Opened(c)), deq[c].got)
  OBVIOUS
<1>3. UNCHANGED <<setup, headIndex, elements, dequeued, next, index, entry, tailBlock, enq, enqueued>>
  BY DEF Implicit!Recycle, Implicit!counters, Implicit!producer, Implicit!blockIndex
<1>4. deq' = Set(deq, c, d) /\ Calls(deq) /\ SetupOK
  BY <1>2, CountsFacts DEF Set, Implicit!Recycle, Implicit!Go
<1>5. /\ d.pc \in {"idle", "block"} /\ Ranged(setup.start, d, HeadNo)
      /\ Mine(setup.start, d) = Halt(setup.start, deq[c]) .. Finish(setup.start, deq[c]) - 1
      /\ LookedUp(setup.start, d, Rings(index), entry, z, num, blk, GoneNow)
  BY <1>1, <1>2, NextOf
<1>6. Mine(setup.start, d) = Mine(setup.start, deq[c])
  BY <1>1, <1>5 DEF Mine, Taking, LookingPcs, From
<1>7. /\ Shared(setup.start, deq', HeadNo)
      /\ \A built : Present(setup.start, deq', HeadNo, built)
                      = Present(setup.start, deq, HeadNo, built)
      /\ Gone(setup.start, deq', HeadNo) = Gone(setup.start, deq, HeadNo)
  <2>1. Shared(setup.start, deq, HeadNo)
    BY DEF Settled
  <2> QED
    BY <1>4, <1>5, <1>6, <2>1, ShareKept
<1>8. Owned(setup.blocks, pool', Loose(Tip(enqueued), w, ch), blk, deq')
  <2>1. Recycles(deq[c]) /\ ~Recycles(d)
    BY <1>1, <1>5 DEF Recycles
  <2> QED
    BY <1>1, <1>4, <2>1, OwnRecycled DEF Settled
<1>9. Consuming(setup.start, deq', Rings(index), entry, z, num, blk, GoneNow)
  <2>1. d.pc # "unlink" /\ deq[c].pc # "unlink"
    BY <1>1, <1>5
  <2> QED
    BY <1>4, <1>5, <2>1, ConsumeKept DEF Settled
<1>10. HeadNo' = HeadNo /\ PresentNow' = PresentNow /\ GoneNow' = GoneNow
  BY <1>3, <1>7 DEF PresentNow, GoneNow, HeadNo, Off, Minus
<1> QED
  BY <1>3, <1>7, <1>8, <1>9, <1>10 DEF Settled

(* Every step of a consumer.                                               *)
LEMMA ConsumerKeeps ==
  ASSUME Counted, InOrder, NEW z, NEW num, NEW f, NEW blk, NEW t, NEW w, NEW ch,
         Settled(z, num, f, blk, t, w, ch), NEW c \in Consumer,
         (\E max \in setup.dequeue : Dequeue(c, max)) \/ Implicit!Consume(c)
  PROVE  \E by : Settled(z, num, f, by, t, w, ch)'
<1>1. CASE \/ \E max \in setup.dequeue : Dequeue(c, max)
           \/ LoadOvercommit(c) \/ TestOptimistic(c) \/ Reserve(c) \/ Recheck(c) \/ Overcommit(c)
  BY <1>1, CountingKeeps
<1>2. CASE Implicit!Unlink(c)
  BY <1>2, UnlinkKeeps
<1>3. CASE ~Implicit!Unlink(c) /\ Implicit!Consume(c)
  <2>1. \/ Count(c) \/ LoadHeader(c) \/ Implicit!SetEmpty(c) \/ Implicit!Recycle(c)
        \/ At(c, "base") /\ LoadBase(c, Implicit!capacity(Implicit!Opened(c)),
                                     Implicit!EntryAt(c, deq[c].front).key)
        \/ At(c, "block") /\ LoadBlock(c, Implicit!EntryAt(c, deq[c].pos).value)
    BY <1>3, ImplicitConsumes
  <2>2. CASE Count(c)
    BY <2>2, CountingKeeps, ClaimKeeps DEF Count
  <2> QED
    BY <2>1, <2>2, LoadHeaderKeeps, SetEmptyKeeps, RecycleKeeps, LoadBaseKeeps, LoadBlockKeeps
<1> QED
  BY <1>1, <1>2, <1>3

-----------------------------------------------------------------------------
(* The steps of the producer.  Its blocks, by their bases.                 *)
LEMMA KeyNext ==
  ASSUME SetupOK, NEW m \in Int
  PROVE  Plus(Key(setup.start, m), BLOCK_SIZE) = Key(setup.start, m + 1)
<1>1. m * BLOCK_SIZE \in Int /\ (m + 1) * BLOCK_SIZE = m * BLOCK_SIZE + BLOCK_SIZE
      /\ BLOCK_SIZE \in Int /\ setup.start \in Int
  BY SetupMore, MulStep
<1>2. PICK x \in Int : x = m * BLOCK_SIZE /\ (m + 1) * BLOCK_SIZE = x + BLOCK_SIZE
  BY <1>1
<1>3. Plus(Plus(setup.start, x), BLOCK_SIZE) = Plus(setup.start, x + BLOCK_SIZE)
  BY <1>1, PlusPlus
<1> QED
  BY <1>2, <1>3 DEF Key

LEMMA KeysApart ==
  ASSUME SetupOK, NEW m \in Int, NEW n \in Int,
         (m - n) * BLOCK_SIZE < Modulus, (n - m) * BLOCK_SIZE < Modulus
  PROVE  Key(setup.start, m) = Key(setup.start, n) <=> m = n
<1>1. /\ BLOCK_SIZE \in Nat \ {0} /\ setup.start \in Int /\ Modulus \in Nat \ {0}
  BY SetupMore
<1>2. PICK x, y \in Int : x = m * BLOCK_SIZE /\ y = n * BLOCK_SIZE
  BY <1>1, MulStep
<1>3. x - y < Modulus /\ y - x < Modulus
  <2>1. (m - n) * BLOCK_SIZE = x - y /\ (n - m) * BLOCK_SIZE = y - x
    BY <1>1, <1>2, MulStep
  <2> QED
    BY <2>1
<1>4. SUFFICES ASSUME Key(setup.start, m) = Key(setup.start, n) PROVE m = n
  OBVIOUS
<1>5. (setup.start + x) % Modulus = (setup.start + y) % Modulus
  BY <1>2, <1>4 DEF Key, Plus
<1>6. PICK u, v \in Int : u = setup.start + x /\ v = setup.start + y
  BY <1>1
<1>7. (u - v) % Modulus = 0
  BY <1>1, <1>5, <1>6, ModZero, ZenonT(40)
<1>8. x = y
  <2>1. u - v < Modulus /\ v - u < Modulus
    BY <1>1, <1>3, <1>6
  <2>2. u = v
    BY <1>1, <1>7, <2>1, ModNear
  <2> QED
    BY <1>1, <1>6, <2>2
<1>9. m < n => x < y
  BY <1>1, <1>2, MulStep
<1>10. n < m => y < x
  BY <1>1, <1>2, MulStep
<1> QED
  BY <1>8, <1>9, <1>10

LEMMA BaseFacts ==
  ASSUME Counted, InOrder, NEW n \in Nat \ {0}, enqueued + n <= setup.elements
  PROVE  /\ Tip(enqueued) \in Int /\ Last(enqueued, n) \in Int
         /\ Tip(enqueued) <= Last(enqueued, n)
         /\ BlockBase(Minus(tailIndex, 1)) = Key(setup.start, Tip(enqueued))
         /\ BlockBase(Plus(tailIndex, n - 1)) = Key(setup.start, Last(enqueued, n))
         /\ \A m \in Int : Tip(enqueued) <= m /\ m <= Last(enqueued, n) =>
              (Key(setup.start, m) = Key(setup.start, Last(enqueued, n)) <=> m = Last(enqueued, n))
<1>1. PICK k \in Nat : k = enqueued /\ tailIndex = Idx(k) /\ k + n <= setup.elements
  BY CountsFacts
<1>2. /\ SetupOK /\ BLOCK_SIZE \in Nat \ {0} /\ setup.start \in Int /\ Modulus \in Nat \ {0}
      /\ setup.elements \in Nat /\ setup.elements <= Modulus - BLOCK_SIZE
  BY SetupMore, CountsFacts
<1>3. PICK p, l \in Int : p = Tip(k) /\ l = Last(k, n)
  <2>1. (k + n) \in Int
    OBVIOUS
  <2> QED
    BY <1>2, <2>1, TipFacts, SMTT(40) DEF Last
<1>4. p = (k - 1) \div BLOCK_SIZE /\ l = (k + n - 1) \div BLOCK_SIZE
  BY <1>3 DEF Tip, Last
<1>5. PICK x, y \in Int : x = p * BLOCK_SIZE /\ y = l * BLOCK_SIZE
  BY <1>2, MulStep
<1>6. x <= k - 1 /\ k - 1 < x + BLOCK_SIZE
  BY <1>2, <1>4, <1>5, DivFacts
<1>7. y <= k + n - 1 /\ k + n - 1 < y + BLOCK_SIZE
  BY <1>2, <1>4, <1>5, DivFacts
<1>8. p <= l
  BY <1>2, <1>4, DivMono
<1>9. Minus(tailIndex, 1) = Idx(k - 1) /\ Plus(tailIndex, n - 1) = Idx(k + n - 1)
  <2>1. Plus(Idx(k), n - 1) = Idx(k + (n - 1))
    BY <1>2, OffsetFacts
  <2>2. Minus(Idx(k), 1) = Plus(setup.start, k - 1)
    <3>1. k \in Int /\ 1 \in Int /\ setup.start \in Int
      BY <1>1, <1>2
    <3>2. Minus(Plus(setup.start, k), 1) = Plus(setup.start, k - 1)
      BY <1>2, <3>1, PlusMinus
    <3> QED
      BY <3>2 DEF Idx
  <2> QED
    BY <1>1, <2>1, <2>2 DEF Idx
<1>10. /\ BlockBase(Idx(k - 1)) = Key(setup.start, p)
       /\ BlockBase(Idx(k + n - 1)) = Key(setup.start, l)
  <2>1. k - 1 \in Int /\ k + n - 1 \in Int
    BY <1>1
  <2> QED
    BY <1>2, <1>4, <2>1, IdxBlock DEF Key, Idx
<1>11. ASSUME NEW m \in Int, p <= m, m <= l
       PROVE  Key(setup.start, m) = Key(setup.start, l) <=> m = l
  <2>1. PICK v \in Int : v = m * BLOCK_SIZE /\ x <= v /\ v <= y
    BY <1>2, <1>5, <1>11, MulStep
  <2>2. (m - l) * BLOCK_SIZE = v - y /\ (l - m) * BLOCK_SIZE = y - v
    BY <1>2, <1>5, <2>1, MulStep
  <2>3. y - v < Modulus /\ v - y < Modulus
    BY <1>1, <1>2, <1>5, <1>6, <1>7, <2>1
  <2> QED
    BY <1>2, <2>2, <2>3, KeysApart
<1> QED
  BY <1>1, <1>3, <1>8, <1>9, <1>10, <1>11

LEMMA NearAround ==
  ASSUME SetupOK, NEW n \in Int, NEW m \in Int, NEW k \in Nat, k <= setup.indexSize,
         m < n + k, n < m + k
  PROVE  Near(n, m)
<1>1. /\ BLOCK_SIZE \in Nat \ {0} /\ Half \in Nat /\ setup.indexSize \in Nat
      /\ setup.indexSize * BLOCK_SIZE <= Half
  BY SetupMore
<1>2. PICK d \in Int : d = n - m /\ d < setup.indexSize /\ -setup.indexSize < d
  BY <1>1
<1>3. d * BLOCK_SIZE \in Int /\ setup.indexSize * BLOCK_SIZE \in Int
  BY <1>1, MulStep
<1>4. d * BLOCK_SIZE + BLOCK_SIZE <= setup.indexSize * BLOCK_SIZE
  BY <1>1, <1>2, MulStep
<1>5. (0 - setup.indexSize) * BLOCK_SIZE <= d * BLOCK_SIZE
  <2>1. 0 - setup.indexSize <= d /\ 0 - setup.indexSize \in Int
    BY <1>1, <1>2
  <2> QED
    BY <1>1, <1>2, <2>1, MulStep
<1>6. (0 - setup.indexSize) * BLOCK_SIZE = 0 * BLOCK_SIZE - setup.indexSize * BLOCK_SIZE
  BY <1>1, MulStep
<1>7. 0 * BLOCK_SIZE = 0
  BY <1>1
<1> QED
  BY <1>1, <1>2, <1>3, <1>4, <1>5, <1>6, <1>7 DEF Near

(* The entry at the front of the newest header, and the next one.          *)
LEMMA FrontEntry ==
  ASSUME Counted, InOrder, NEW z, NEW num, NEW f, NEW blk, NEW t, NEW w, NEW ch,
         Settled(z, num, f, blk, t, w, ch)
  PROVE  /\ Header.slots = Rings(index)[Len(Rings(index))]
         /\ Implicit!capacity(Header) = Size(Rings(index))
         /\ Implicit!Header = Header /\ Len(Rings(index)) = Len(index)
         /\ Header.front = Turn(Size(Rings(index)), z[Len(index)], f)
         /\ Header.slots[Header.front] = Here(Rings(index), z, f)
         /\ \A k \in Int : (Header.front + k) % Size(Rings(index))
                             = Turn(Size(Rings(index)), z[Len(index)], f + k)
         /\ Implicit!newTail = Turn(Size(Rings(index)), z[Len(index)], f + 1)
         /\ Implicit!idxEntry = Here(Rings(index), z, f + 1)
<1>1. /\ Fronts(index, z, f, setup.indexSize) /\ f \in Int
      /\ Headers(Rings(index), entry, z, setup.indexSize)
  BY FrontFacts DEF Settled, Indexed
<1>2. PICK k : k = Len(index) /\ k = Len(Rings(index)) /\ k \in 1 .. Len(index)
  BY <1>1, IndexShape, HeaderFacts
<1>3. /\ Header.slots = Rings(index)[k] /\ Implicit!capacity(Header) = Size(Rings(index))
      /\ Header.front = Turn(Size(Rings(index)), z[k], f) /\ Implicit!Header = Header
  BY <1>1, <1>2, IndexShape DEF Header, Size
<1>4. Size(Rings(index)) \in Nat \ {0} /\ z[k] \in Int
  BY <1>1, <1>2, HeaderFacts
<1>5. \A x \in Int : (Header.front + x) % Size(Rings(index)) = Turn(Size(Rings(index)), z[k], f + x)
  BY <1>1, <1>3, <1>4, TurnStep
<1>6. Implicit!newTail = Turn(Size(Rings(index)), z[k], f + 1)
  BY <1>3, <1>5 DEF Implicit!newTail
<1>7. Header.slots[Header.front] = Here(Rings(index), z, f)
  BY <1>2, <1>3 DEF Here, EntryNo, Size
<1>8. Implicit!idxEntry = Here(Rings(index), z, f + 1)
  BY <1>2, <1>3, <1>6 DEF Here, EntryNo, Size, Implicit!idxEntry
<1> QED
  BY <1>2, <1>3, <1>5, <1>6, <1>7, <1>8

LEMMA CallMoves ==
  ASSUME NEW z, NEW num, NEW f, NEW blk, NEW t, NEW w, NEW ch,
         Settled(z, num, f, blk, t, w, ch),
         UNCHANGED <<setup, headIndex, elements, next, dequeued, pool, index, entry, deq, enqueued>>,
         Built(setup.start, enq', enqueued) = Built(setup.start, enq, enqueued),
         Producing(setup.start, enq', tailBlock', next, enqueued, t, w, ch, f, blk),
         Marked(enq'.pc, Rings(index), entry, z, num, f, blk)
  PROVE  Settled(z, num, f, blk, t, w, ch)'
<1>1. HeadNo' = HeadNo
  BY DEF HeadNo, Off, Minus
<1>2. PresentNow' = PresentNow /\ GoneNow' = GoneNow
  BY <1>1 DEF PresentNow, GoneNow
<1> QED
  BY <1>1, <1>2 DEF Settled

LEMMA EnqueueKeeps ==
  ASSUME Counted, InOrder, NEW z, NEW num, NEW f, NEW blk, NEW t, NEW w, NEW ch,
         Settled(z, num, f, blk, t, w, ch), NEW n \in setup.enqueue, Implicit!Enqueue(n)
  PROVE  Settled(z, num, f, blk, t, w, ch)'
<1>1. /\ enq = NoCall /\ n \in Nat \ {0} /\ enqueued + n <= setup.elements /\ SetupOK
      /\ tailIndex = Idx(enqueued) /\ enqueued \in Nat /\ enqueued \in Index
      /\ BLOCK_SIZE \in Nat \ {0}
  <2>1. enq.pc = "idle" /\ enqueued + n <= setup.elements
    BY DEF Implicit!Enqueue, Implicit!Calling
  <2> QED
    <3>1. enq = NoCall
      BY <2>1 DEF Counted, Enqueuing
    <3>2. enqueued < Modulus /\ SetupOK /\ enqueued \in Nat /\ tailIndex = Idx(enqueued)
      BY CountsFacts
    <3> QED
      BY <2>1, <3>1, <3>2, SetupMore, SetupFacts DEF Index
<1>2. /\ t = Tip(enqueued) /\ w = t /\ f = t /\ Starts(tailBlock, Nil, next, enqueued, blk)
      /\ next \in [Block -> BlockOrNil] /\ tailBlock \in BlockOrNil
  BY <1>1 DEF Settled, Producing, Resting, NoCall
<1>3. PICK l \in Int : l = Last(enqueued, n) /\ t \in Int /\ t <= l
  BY <1>1, <1>2, BaseFacts
<1>4. /\ BlockBase(Minus(tailIndex, 1)) = Key(setup.start, t)
      /\ BlockBase(Plus(tailIndex, n - 1)) = Key(setup.start, l)
      /\ Key(setup.start, t) = Key(setup.start, l) <=> t = l
  BY <1>1, <1>2, <1>3, BaseFacts
<1>5. UNCHANGED <<setup, headIndex, elements, next, dequeued, pool, index, entry, deq, enqueued>>
  BY DEF Implicit!Enqueue, Implicit!counters, Implicit!memory, Implicit!blockIndex
<1>6. ASSUME enq'.pc \in {"room", "construct"}
      PROVE  Marked(enq'.pc, Rings(index), entry, z, num, f, blk)
  BY <1>1, <1>6 DEF Settled, Marked, Unsettled, NoCall
<1>7. Built(setup.start, enq, enqueued) = enqueued
  BY <1>1 DEF Built, NoCall
<1>8. CASE t = l
  <2>1. PICK e : /\ e = [pc |-> "construct", n |-> n, at |-> tailIndex, last |-> tailBlock]
                 /\ enq' = e /\ tailBlock' = tailBlock
    BY <1>4, <1>8 DEF Implicit!Enqueue, Implicit!BlockBase, Implicit!Minus, Implicit!Plus,
                      BlockBase, Minus, Plus, Implicit!Filling
  <2>2. /\ {"pc", "n", "at", "last"} \subseteq DOMAIN e /\ e.pc = "construct" /\ e.n = n
        /\ e.at = tailIndex /\ e.last = tailBlock
    BY <2>1
  <2>3. Begin(setup.start, e) = enqueued /\ e.at \in Index
    BY <1>1, <2>2, OffsetFacts DEF Begin, Off
  <2>4. enqueued % BLOCK_SIZE # 0
    <3>1. SUFFICES ASSUME enqueued % BLOCK_SIZE = 0 PROVE FALSE
      OBVIOUS
    <3>2. PICK x \in Int : x = t * BLOCK_SIZE /\ x + BLOCK_SIZE = enqueued
      <4>1. t * BLOCK_SIZE \in Int
        BY <1>1, <1>3, MulStep
      <4>2. t * BLOCK_SIZE + BLOCK_SIZE = enqueued
        BY <1>1, <1>2, <3>1, TipFacts
      <4> QED
        BY <4>1, <4>2
    <3>3. (enqueued + n) \in Int /\ enqueued \in Int /\ (t + 1) * BLOCK_SIZE = x + BLOCK_SIZE
      BY <1>1, <1>3, <3>2, MulStep
    <3>4. (t + 1) * BLOCK_SIZE < enqueued + n
      BY <1>1, <3>2, <3>3
    <3>5. t + 1 <= l
      <4>1. t + 1 \in Int /\ SetupOK
        BY <1>1, <1>3
      <4>2. t + 1 <= Tip(enqueued + n)
        BY <3>3, <3>4, <4>1, TipFacts
      <4> QED
        BY <1>3, <4>2 DEF Last
    <3> QED
      BY <1>3, <1>8, <3>5
  <2>5. t \in DOMAIN blk /\ tailBlock = blk[t] /\ Number(setup.start, e) = t
    BY <1>1, <1>2, <2>3, <2>4, TipFacts DEF Starts, Number
  <2>6. \A m \in t .. t : m = t
    BY <1>3
  <2>7. t .. t - 1 = {}
    BY <1>3
  <2>8. enqueued < enqueued + n
    BY <1>1
  <2>9. Constructing(setup.start, e, tailBlock, next, enqueued, t, w, f, blk)
    BY <1>1, <1>2, <1>3, <1>8, <2>2, <2>3, <2>5, <2>6, <2>7, <2>8 DEF Constructing
  <2>10. Producing(setup.start, e, tailBlock, next, enqueued, t, w, ch, f, blk)
    BY <1>2, <2>2, <2>9 DEF Producing, FindingPcs
  <2>11. Built(setup.start, e, enqueued) = enqueued
    BY <2>2, <2>3 DEF Built
  <2> QED
    BY <1>5, <1>6, <1>7, <2>1, <2>2, <2>10, <2>11, CallMoves
<1>9. CASE t # l
  <2>1. PICK e : /\ e = [pc |-> "room", n |-> n, base |-> Key(setup.start, t), first |-> Nil,
                         start |-> tailBlock]
                 /\ enq' = e /\ tailBlock' = tailBlock
    BY <1>4, <1>9 DEF Implicit!Enqueue, Implicit!BlockBase, Implicit!Minus, Implicit!Plus,
                      BlockBase, Minus, Plus
  <2>2. /\ {"pc", "n", "base", "first", "start"} \subseteq DOMAIN e /\ e.pc = "room" /\ e.n = n
        /\ e.base = Key(setup.start, t) /\ e.first = Nil /\ e.start = tailBlock
    BY <2>1
  <2>3. t + 1 .. t = {} /\ t < l
    BY <1>3, <1>9
  <2>4. Chained(next, Tip(enqueued), t, ch) /\ FirstTaken(Tip(enqueued), t, ch) = Nil
    BY <1>2, <2>3 DEF Chained, FirstTaken
  <2>5. Finding(setup.start, e, tailBlock, next, enqueued, t, w, ch, f, blk)
    BY <1>2, <1>3, <2>2, <2>3, <2>4 DEF Finding
  <2>6. Producing(setup.start, e, tailBlock, next, enqueued, t, w, ch, f, blk)
    BY <1>2, <2>2, <2>5 DEF Producing, FindingPcs
  <2>7. Built(setup.start, e, enqueued) = enqueued
    BY <2>2 DEF Built
  <2> QED
    BY <1>5, <1>6, <1>7, <2>1, <2>2, <2>6, <2>7, CallMoves
<1> QED
  BY <1>8, <1>9

(* The call of the producer is at another step, with the same fields.      *)
MovedTo(e, l) == [e EXCEPT !.pc = l]
LEMMA MovedFacts ==
  ASSUME Counted, NEW l, NEW e, e = MovedTo(enq, l), NEW t, NEW w, NEW ch, NEW f, NEW blk,
         Finding(setup.start, enq, tailBlock, next, enqueued, t, w, ch, f, blk)
  PROVE  /\ e.pc = l /\ e.n = enq.n
         /\ \A g : g = (IF l = "take" THEN t + 1 ELSE t)
                   => Finding(setup.start, e, tailBlock, next, enqueued, t, w, ch, g, blk)
<1>1. /\ {"pc", "n", "base", "first", "start"} \subseteq DOMAIN e
      /\ e.pc = l /\ e.n = enq.n /\ e.base = enq.base /\ e.first = enq.first /\ e.start = enq.start
  BY DEF MovedTo, Finding
<1> QED
  BY <1>1 DEF Finding

LEMMA FindingNow ==
  ASSUME Counted, InOrder, NEW z, NEW num, NEW f, NEW blk, NEW t, NEW w, NEW ch,
         Settled(z, num, f, blk, t, w, ch), enq.pc \in FindingPcs
  PROVE  /\ Finding(setup.start, enq, tailBlock, next, enqueued, t, w, ch, f, blk)
         /\ next \in [Block -> BlockOrNil] /\ tailBlock \in BlockOrNil
         /\ enq.n \in Nat \ {0} /\ enqueued + enq.n <= setup.elements
         /\ Built(setup.start, enq, enqueued) = enqueued
         /\ t \in Int /\ w \in Int /\ w = Tip(enqueued) /\ Tip(enqueued) <= t /\ f \in Int
         /\ SetupOK /\ enqueued \in Int
<1>1. enq.pc \notin {"idle", "construct", "publish"}
  BY DEF FindingPcs
<1> QED
  BY <1>1, CountsFacts, FrontFacts DEF Settled, Producing, Built, Finding

LEMMA RoomKeeps ==
  ASSUME Counted, InOrder, NEW z, NEW num, NEW f, NEW blk, NEW t, NEW w, NEW ch,
         Settled(z, num, f, blk, t, w, ch), Implicit!Room
  PROVE  Settled(z, num, f, blk, t, w, ch)'
<1>1. enq.pc = "room" /\ enq.pc \in FindingPcs
  BY DEF Implicit!Room, Implicit!Calling, FindingPcs
<1>2. PICK l, e : l \in {"undo", "insert"} /\ e = MovedTo(enq, l) /\ enq' = e
  BY DEF Implicit!Room, MovedTo
<1>3. /\ UNCHANGED <<setup, headIndex, elements, next, dequeued, pool, index, entry, deq, enqueued>>
      /\ UNCHANGED tailBlock
  BY DEF Implicit!Room, Implicit!counters, Implicit!memory, Implicit!blockIndex
<1>4. /\ Finding(setup.start, enq, tailBlock, next, enqueued, t, w, ch, f, blk) /\ f = t
      /\ next \in [Block -> BlockOrNil] /\ tailBlock \in BlockOrNil
      /\ Built(setup.start, enq, enqueued) = enqueued
  BY <1>1, FindingNow DEF Finding
<1>5. e.pc = l /\ Finding(setup.start, e, tailBlock, next, enqueued, t, w, ch, f, blk)
  BY <1>2, <1>4, MovedFacts
<1>6. /\ Producing(setup.start, e, tailBlock, next, enqueued, t, w, ch, f, blk)
      /\ Built(setup.start, e, enqueued) = enqueued
  BY <1>2, <1>4, <1>5 DEF Producing, FindingPcs, Built
<1>7. Marked(e.pc, Rings(index), entry, z, num, f, blk)
  BY <1>1, <1>2, <1>5 DEF Settled, Marked, Unsettled
<1> QED
  BY <1>2, <1>3, <1>4, <1>6, <1>7, CallMoves

LEMMA UndoKeeps ==
  ASSUME Counted, InOrder, NEW z, NEW num, NEW f, NEW blk, NEW t, NEW w, NEW ch,
         Settled(z, num, f, blk, t, w, ch), Implicit!Undo
  PROVE  Settled(z, num, f, blk, t, w, ch)'
<1>1. enq.pc = "undo" /\ enq.pc \in FindingPcs
  BY DEF Implicit!Undo, Implicit!Calling, FindingPcs
<1>2. PICK e : /\ e = [pc |-> IF enq.first = Nil THEN "free" ELSE "unindex", n |-> enq.n,
                       first |-> enq.first, start |-> enq.start, at |-> enq.first,
                       base |-> Implicit!UndoBase]
               /\ enq' = e
  BY DEF Implicit!Undo
<1>3. /\ UNCHANGED <<setup, headIndex, elements, next, dequeued, pool, index, entry, deq, enqueued>>
      /\ UNCHANGED tailBlock
  BY DEF Implicit!Undo, Implicit!counters, Implicit!memory, Implicit!blockIndex
<1>4. /\ Finding(setup.start, enq, tailBlock, next, enqueued, t, w, ch, f, blk) /\ f = t
      /\ next \in [Block -> BlockOrNil] /\ tailBlock \in BlockOrNil
      /\ Built(setup.start, enq, enqueued) = enqueued
      /\ t \in Int /\ w = Tip(enqueued) /\ w \in Int /\ w <= t
      /\ enq.n \in Nat \ {0} /\ enqueued + enq.n <= setup.elements
  BY <1>1, FindingNow DEF Finding
<1>5. /\ {"pc", "n", "base", "first", "start", "at"} \subseteq DOMAIN e
      /\ e.pc = (IF enq.first = Nil THEN "free" ELSE "unindex")
      /\ e.first = enq.first /\ e.start = enq.start /\ e.at = enq.first
      /\ e.base = Implicit!UndoBase
  BY <1>2
<1>6. e.base = Key(setup.start, w)
  <2>1. BlockBase(Minus(tailIndex, 1)) = Key(setup.start, w)
    BY <1>4, BaseFacts
  <2> QED
    BY <1>5, <2>1 DEF Implicit!UndoBase, Implicit!BlockBase, Implicit!Minus, BlockBase, Minus
<1>7. enq.first = (IF w = t THEN Nil ELSE ch[w + 1]) /\ (enq.first = Nil <=> w = t)
  <2>1. enq.first = FirstTaken(w, t, ch)
    BY <1>4 DEF Finding
  <2>2. w # t => ch[w + 1] \in setup.blocks
    <3>1. w # t => w + 1 \in w + 1 .. t
      BY <1>4
    <3> QED
      BY <1>4, <3>1 DEF Settled, Chosen
  <2>3. Nil \notin setup.blocks
    BY CountsFacts, SetupFacts, ProducerBaseAssumption
  <2> QED
    BY <2>1, <2>2, <2>3 DEF FirstTaken
<1>8. Withdrawing(setup.start, e, next, enqueued, t, w, ch, f, blk)
  <2>1. Starts(e.start, Nil, next, enqueued, blk) /\ Chained(next, Tip(enqueued), t, ch)
        /\ e.first = FirstTaken(Tip(enqueued), t, ch)
    BY <1>4, <1>5 DEF Finding, Starts
  <2>2. f = t - (w - Tip(enqueued))
    BY <1>4
  <2> QED
    BY <1>5, <1>6, <1>7, <2>1, <2>2 DEF Withdrawing
<1>9. /\ Producing(setup.start, e, tailBlock, next, enqueued, t, w, ch, f, blk)
      /\ Built(setup.start, e, enqueued) = enqueued
  BY <1>4, <1>5, <1>8 DEF Producing, FindingPcs, Built
<1>10. Marked(e.pc, Rings(index), entry, z, num, f, blk)
  BY <1>1, <1>5 DEF Settled, Marked, Unsettled
<1> QED
  BY <1>2, <1>3, <1>4, <1>9, <1>10, CallMoves

(* What the producer does with the index and its new blocks, the consumers *)
(* see no difference.                                                      *)
LEMMA ReachesTip ==
  ASSUME Counted, InOrder, NEW c \in Consumer, Ranged(setup.start, deq[c], HeadNo), Taking(deq[c])
  PROVE  /\ Number(setup.start, deq[c]) \in Int /\ Number(setup.start, deq[c]) <= Tip(enqueued)
         /\ \A m \in Int : m * BLOCK_SIZE < Finish(setup.start, deq[c]) => m <= Tip(enqueued)
<1>1. SetupOK /\ HeadNo \in Int /\ enqueued \in Int /\ HeadNo <= enqueued
  BY CountsFacts
<1>2. PICK a, e, n \in Int :
        /\ e = Finish(setup.start, deq[c]) /\ n = Number(setup.start, deq[c])
        /\ e <= HeadNo /\ a < e /\ n * BLOCK_SIZE \in Int /\ n * BLOCK_SIZE <= a
  <2>1. PICK a, e, s, n \in Int :
          /\ e = Finish(setup.start, deq[c]) /\ n = Number(setup.start, deq[c])
          /\ a < s /\ s <= e /\ e <= HeadNo /\ n * BLOCK_SIZE \in Int /\ n * BLOCK_SIZE <= a
    BY <1>1, CallFacts, SMTT(40)
  <2> QED
    BY <2>1
<1>3. ASSUME NEW m \in Int, m * BLOCK_SIZE < e PROVE m <= Tip(enqueued)
  <2>1. m * BLOCK_SIZE \in Int
    BY <1>1, SetupMore, MulStep
  <2>2. m * BLOCK_SIZE < enqueued
    BY <1>1, <1>2, <1>3, <2>1
  <2> QED
    BY <1>1, <2>2, TipFacts
<1>4. n * BLOCK_SIZE < e
  BY <1>2
<1> QED
  BY <1>2, <1>3, <1>4

SameBelow(p, blk, by, sl, z, sy, zy) ==
  /\ Len(sy) \in Nat /\ Len(sl) <= Len(sy)
  /\ \A j \in 1 .. Len(sl) : sy[j] = sl[j] /\ zy[j] = z[j]
  /\ \A m \in DOMAIN by : m \in Int /\ (m <= p => m \in DOMAIN blk)
  /\ \A m \in DOMAIN blk : m <= p => m \in DOMAIN by /\ by[m] = blk[m]
                                     /\ Here(sy, zy, m) = Here(sl, z, m)
NoLess(p, sl, en, num, ey, numy) ==
  \A e \in 0 .. Size(sl) - 1 : Valid(en, e) =>
    Valid(ey, e) /\ numy[e] \in Int /\ (num[e] <= numy[e] \/ p <= numy[e])
LEMMA ConsumeGrown ==
  ASSUME Counted, InOrder, NEW z, NEW num, NEW f, NEW blk, NEW t, NEW w, NEW ch,
         Settled(z, num, f, blk, t, w, ch),
         NEW sy, NEW ey, NEW zy, NEW numy, NEW by,
         SameBelow(Tip(enqueued), blk, by, Rings(index), z, sy, zy),
         NoLess(Tip(enqueued), Rings(index), entry, num, ey, numy)
  PROVE  Consuming(setup.start, deq, sy, ey, zy, numy, by, GoneNow)
<1>1. PICK sl, p, gone : sl = Rings(index) /\ p = Tip(enqueued) /\ gone = GoneNow
  OBVIOUS
<1>2. /\ Consuming(setup.start, deq, sl, entry, z, num, blk, gone) /\ p \in Int
      /\ Headers(sl, entry, z, setup.indexSize) /\ num \in [0 .. Size(sl) - 1 -> Int]
      /\ \A m \in DOMAIN blk : m \in Int
  BY <1>1, FrontFacts DEF Settled, Indexed, Keys, Listed
<1>3. ASSUME NEW m \in DOMAIN by, Whole(m, gone) PROVE m <= p
  <2>1. m \in Int
    BY <1>3 DEF SameBelow
  <2>2. Behind(m, enqueued)
    BY <1>1, <1>3, <2>1, WholeFacts
  <2> QED
    BY <1>1, <2>1, <2>2, CountsFacts, BehindFacts
<1>4. ASSUME NEW c \in Consumer, Taking(deq[c])
      PROVE  /\ Number(setup.start, deq[c]) \in Int /\ Number(setup.start, deq[c]) <= p
             /\ \A m \in Int : m * BLOCK_SIZE < Finish(setup.start, deq[c]) => m <= p
  BY <1>1, <1>4, ReachesTip DEF Settled, Shared
<1>5. ASSUME NEW c \in Consumer, Taking(deq[c])
      PROVE  LookedUp(setup.start, deq[c], sy, ey, zy, numy, by, gone)
  <2>1. PICK d, n : d = deq[c] /\ n = Number(setup.start, d)
    OBVIOUS
  <2>2. /\ LookedUp(setup.start, d, sl, entry, z, num, blk, gone) /\ n \in Int /\ n <= p
        /\ \A m \in Int : m * BLOCK_SIZE < Finish(setup.start, d) => m <= p
    BY <1>2, <1>4, <1>5, <2>1 DEF Consuming
  <2>3. \A j \in 1 .. Len(sl) : /\ Cap(sy, j) = Cap(sl, j) /\ j \in 1 .. Len(sy)
                                /\ \A m : EntryNo(sy, zy, j, m) = EntryNo(sl, z, j, m)
    <3>1. Len(sl) \in Nat
      BY <1>2, HeaderFacts
    <3> QED
      BY <1>1, <3>1 DEF SameBelow, Cap, EntryNo
  <2>4. d.pc \in LookingPcs \ {"header"} =>
          /\ d.header \in 1 .. Len(sy)
          /\ \A m \in DOMAIN by : n <= m /\ m * BLOCK_SIZE < Finish(setup.start, d) =>
               EntryNo(sy, zy, d.header, m) = Here(sy, zy, m)
    BY <1>1, <2>1, <2>2, <2>3 DEF LookedUp, SameBelow
  <2>5. d.pc = "base" =>
          /\ d.front \in 0 .. Cap(sy, d.header) - 1 /\ Valid(ey, sy[d.header][d.front])
          /\ n <= numy[sy[d.header][d.front]]
    <3>1. SUFFICES ASSUME d.pc = "base"
                   PROVE  /\ d.front \in 0 .. Cap(sy, d.header) - 1
                          /\ Valid(ey, sy[d.header][d.front])
                          /\ n <= numy[sy[d.header][d.front]]
      OBVIOUS
    <3>2. /\ d.header \in 1 .. Len(sl) /\ d.front \in 0 .. Cap(sl, d.header) - 1
          /\ Valid(entry, sl[d.header][d.front]) /\ n <= num[sl[d.header][d.front]]
      BY <2>1, <2>2, <3>1 DEF LookedUp, LookingPcs
    <3>3. PICK e : e = sl[d.header][d.front] /\ e \in 0 .. Size(sl) - 1
      BY <1>2, <3>2, HeaderFacts
    <3>4. /\ num[e] \in Int /\ numy[e] \in Int /\ Valid(ey, e)
          /\ num[e] <= numy[e] \/ p <= numy[e]
      BY <1>1, <1>2, <3>2, <3>3 DEF NoLess
    <3>5. n <= numy[e]
      BY <1>2, <2>2, <3>2, <3>3, <3>4
    <3>6. sy[d.header] = sl[d.header] /\ Cap(sy, d.header) = Cap(sl, d.header)
      BY <1>1, <2>3, <3>2 DEF SameBelow
    <3> QED
      BY <3>2, <3>3, <3>4, <3>5, <3>6
  <2>6. d.pc \in {"block", "read", "unlink", "recycle"} =>
          d.pos = Turn(Cap(sy, d.header), zy[d.header], n)
    BY <1>1, <2>1, <2>2, <2>3 DEF LookedUp, LookingPcs, SameBelow
  <2>7. d.pc = "read" => d.block = by[n]
    <3>1. d.pc = "read" => n \in DOMAIN blk
      BY <1>5, <2>1, LookFacts
    <3> QED
      BY <1>1, <2>1, <2>2, <3>1 DEF LookedUp, SameBelow
  <2>8. d.pc = "unlink" => n \in DOMAIN by /\ d.block = by[n] /\ Whole(n, gone)
    BY <1>1, <2>1, <2>2 DEF LookedUp, SameBelow
  <2>9. d.pc \in {"read", "unlink"} => {"at", "end", "header", "pos", "block"} \subseteq DOMAIN d
    BY <2>2 DEF LookedUp
  <2> QED
    BY <2>1, <2>4, <2>5, <2>6, <2>7, <2>8, <2>9 DEF LookedUp
<1>6. \A c \in Consumer : LookedUp(setup.start, deq[c], sy, ey, zy, numy, by, gone)
  BY <1>5, Idles
<1>7. ASSUME NEW c \in Consumer, NEW m \in DOMAIN by, Unlinks(setup.start, deq[c], m)
      PROVE  m \in DOMAIN blk
  <2>1. m <= p
    BY <1>4, <1>7 DEF Unlinks, Taking, LookingPcs
  <2> QED
    BY <1>1, <2>1 DEF SameBelow
<1>8. ASSUME NEW m \in DOMAIN by, Whole(m, gone)
      PROVE  \E c \in Consumer : Unlinks(setup.start, deq[c], m)
  <2>1. m \in DOMAIN blk
    BY <1>1, <1>3, <1>8 DEF SameBelow
  <2> QED
    BY <1>2, <1>8, <2>1 DEF Consuming
<1> QED
  BY <1>1, <1>2, <1>6, <1>7, <1>8 DEF Consuming

LEMMA IndexMoves ==
  ASSUME NEW z, NEW num, NEW f, NEW blk, NEW t, NEW w, NEW ch,
         Settled(z, num, f, blk, t, w, ch),
         UNCHANGED <<setup, headIndex, elements, next, dequeued, pool, deq, enqueued, tailBlock>>,
         Built(setup.start, enq', enqueued) = Built(setup.start, enq, enqueued),
         NEW zy, NEW numy, NEW g,
         Consuming(setup.start, deq, Rings(index'), entry', zy, numy, blk, GoneNow),
         Producing(setup.start, enq', tailBlock, next, enqueued, t, w, ch, g, blk),
         Indexed(Rings(index'), entry', zy, numy, g, blk, Tip(enqueued), setup.start, setup.indexSize),
         Fronts(index', zy, g, setup.indexSize),
         Marked(enq'.pc, Rings(index'), entry', zy, numy, g, blk)
  PROVE  Settled(zy, numy, g, blk, t, w, ch)'
<1>1. HeadNo' = HeadNo
  BY DEF HeadNo, Off, Minus
<1>2. PresentNow' = PresentNow /\ GoneNow' = GoneNow
  BY <1>1 DEF PresentNow, GoneNow
<1>3. Rings(index)' = Rings(index')
  BY DEF Rings
<1> QED
  BY <1>1, <1>2, <1>3 DEF Settled

(* What the steps that find room in the index have in common.              *)
LEMMA RoomFacts ==
  ASSUME Counted, InOrder, NEW z, NEW num, NEW f, NEW blk, NEW t, NEW w, NEW ch,
         Settled(z, num, f, blk, t, w, ch), enq.pc \in FindingPcs, NEW l, l \in FindingPcs,
         NEW e, e = MovedTo(enq, l), NEW g, g = (IF l = "take" THEN t + 1 ELSE t)
  PROVE  /\ Producing(setup.start, e, tailBlock, next, enqueued, t, w, ch, g, blk) /\ e.pc = l
         /\ Built(setup.start, e, enqueued) = Built(setup.start, enq, enqueued)
         /\ f = (IF enq.pc = "take" THEN t + 1 ELSE t) /\ t \in Int
         /\ Tip(enqueued) \in Int /\ Tip(enqueued) <= t /\ enq.base = Key(setup.start, t)
         /\ \A m \in DOMAIN blk : m \in Nat /\ m <= t /\ blk[m] \in Block
         /\ \A m \in Int : Tip(enqueued) < m /\ m <= t => m \in DOMAIN blk
<1>1. /\ Finding(setup.start, enq, tailBlock, next, enqueued, t, w, ch, f, blk)
      /\ next \in [Block -> BlockOrNil] /\ tailBlock \in BlockOrNil
      /\ Built(setup.start, enq, enqueued) = enqueued
      /\ t \in Int /\ w = Tip(enqueued) /\ Tip(enqueued) <= t /\ Tip(enqueued) \in Int
  BY FindingNow
<1>2. e.pc = l /\ Finding(setup.start, e, tailBlock, next, enqueued, t, w, ch, g, blk)
  BY <1>1, MovedFacts
<1>3. /\ Producing(setup.start, e, tailBlock, next, enqueued, t, w, ch, g, blk)
      /\ Built(setup.start, e, enqueued) = enqueued
  BY <1>1, <1>2 DEF Producing, FindingPcs, Built
<1>4. /\ \A m \in DOMAIN blk : m \in Nat /\ m <= t /\ blk[m] \in Block
      /\ \A m \in Int : Tip(enqueued) < m /\ m <= t => m \in DOMAIN blk
  <2>1. \A m \in Int : Tip(enqueued) < m /\ m <= t => m \in Tip(enqueued) + 1 .. t /\ w < m
    BY <1>1
  <2> QED
    BY <2>1 DEF Settled, Chosen, Indexed, Listed
<1> QED
  BY <1>1, <1>2, <1>3, <1>4 DEF Finding

LEMMA InsertKeeps ==
  ASSUME Counted, InOrder, NEW z, NEW num, NEW f, NEW blk, NEW t, NEW w, NEW ch,
         Settled(z, num, f, blk, t, w, ch), Implicit!Insert
  PROVE  \E numy : Settled(z, numy, f, blk, t, w, ch)'
<1>1. enq.pc = "insert" /\ enq.pc \in FindingPcs
  BY DEF Implicit!Insert, Implicit!Calling, FindingPcs
<1>2. /\ UNCHANGED <<setup, headIndex, elements, next, dequeued, pool, deq, enqueued, tailBlock>>
      /\ index' = index
  BY DEF Implicit!Insert, Implicit!counters, Implicit!memory
<1>3. PICK sl, x, p : /\ sl = Rings(index) /\ x = Here(Rings(index), z, f + 1)
                      /\ x = Implicit!idxEntry /\ p = Tip(enqueued)
  BY FrontEntry
<1>4. /\ f = t /\ t \in Int /\ p \in Int /\ p <= t /\ enq.base = Key(setup.start, t) /\ SetupOK
      /\ \A m \in DOMAIN blk : m \in Nat /\ m <= f /\ blk[m] \in Block
      /\ \A m \in Int : p < m /\ m <= f => m \in DOMAIN blk
  <2>1. "tail" \in FindingPcs
    BY DEF FindingPcs
  <2> QED
    BY <1>1, <1>3, <2>1, RoomFacts, CountsFacts
<1>5. /\ Indexed(sl, entry, z, num, f, blk, p, setup.start, setup.indexSize)
      /\ Headers(sl, entry, z, setup.indexSize) /\ num \in [0 .. Size(sl) - 1 -> Int]
      /\ Reach(sl, entry, z, num, f, blk, p)
      /\ Fronts(index, z, f, setup.indexSize)
      /\ Occupied(sl, entry, z, blk, {})
  BY <1>1, <1>3 DEF Settled, Indexed, Keys, Marked, Unsettled
<1>6. x \in 0 .. Size(sl) - 1
  BY <1>3, <1>4, <1>5, HeaderFacts
<1>7. CASE ~Valid(entry, x) \/ entry[x].value = Nil
  <2>1. PICK ey : ey = Keyed(entry, x, Key(setup.start, f + 1)) /\ entry' = ey
    <3>1. Implicit!Base = Key(setup.start, f + 1)
      BY <1>4, KeyNext DEF Implicit!Base, Implicit!Plus, Plus
    <3> QED
      BY <1>3, <1>7, <3>1 DEF Implicit!Insert, Valid, Keyed
  <2>2. PICK e : e = MovedTo(enq, "tail") /\ enq' = e
    BY <1>3, <1>7 DEF Implicit!Insert, Valid, MovedTo
  <2>3. PICK numy : numy = Numbered(num, x, f + 1)
    OBVIOUS
  <2>4. ~Valid(entry, x) \/ entry[x].value \notin Block
    BY <1>7, ProducerBaseAssumption
  <2>5. /\ Indexed(sl, ey, z, numy, f, blk, p, setup.start, setup.indexSize)
        /\ Exact(sl, ey, z, numy, f + 1)
        /\ \A v \in 0 .. Size(sl) - 1 : /\ v # x => ey[v] = entry[v] /\ numy[v] = num[v]
                                        /\ Valid(entry, v) => Valid(ey, v)
        /\ numy[x] = f + 1
    <3>1. /\ SetupOK /\ Indexed(sl, entry, z, num, f, blk, p, setup.start, setup.indexSize)
          /\ p <= f /\ \A n \in DOMAIN blk : n <= f
          /\ \A n \in Int : p < n /\ n <= f => n \in DOMAIN blk
          /\ x = Here(sl, z, f + 1)
      BY <1>3, <1>4, <1>5
    <3> QED
      BY <2>1, <2>3, <2>4, <3>1, EntryStored, SMTT(40)
  <2>6. SameBelow(p, blk, blk, sl, z, sl, z)
    BY <1>4, <1>5, HeaderFacts DEF SameBelow
  <2>7. NoLess(p, sl, entry, num, ey, numy)
    <3>1. \A v \in 0 .. Size(sl) - 1 : num[v] \in Int /\ num[v] <= num[v]
      BY <1>5
    <3>2. f + 1 \in Int /\ p <= f + 1
      BY <1>4
    <3> QED
      BY <2>5, <3>1, <3>2 DEF NoLess
  <2>8. Consuming(setup.start, deq, sl, ey, z, numy, blk, GoneNow)
    BY <1>3, <2>6, <2>7, ConsumeGrown
  <2>9. Marked("tail", sl, ey, z, numy, f, blk)
    <3>1. Occupied(sl, ey, z, blk, {x})
      BY <1>5, <2>5 DEF Occupied, Valid
    <3> QED
      BY <1>3, <2>5, <3>1 DEF Marked, Unsettled
  <2>10. /\ Producing(setup.start, e, tailBlock, next, enqueued, t, w, ch, f, blk) /\ e.pc = "tail"
         /\ Built(setup.start, e, enqueued) = Built(setup.start, enq, enqueued)
    <3>1. "tail" \in FindingPcs
      BY DEF FindingPcs
    <3> QED
      BY <1>1, <1>4, <2>2, <3>1, RoomFacts
  <2> QED
    BY <1>2, <1>3, <1>5, <2>1, <2>2, <2>5, <2>8, <2>9, <2>10, IndexMoves
<1>8. CASE ~(~Valid(entry, x) \/ entry[x].value = Nil)
  <2>1. PICK e : e = MovedTo(enq, "grow") /\ enq' = e /\ entry' = entry
    BY <1>3, <1>8 DEF Implicit!Insert, Valid, MovedTo
  <2>2. PICK m \in DOMAIN blk : Here(sl, z, m) = x
    BY <1>5, <1>6, <1>8 DEF Occupied
  <2>3. m \in Int /\ m <= f /\ f < m + Size(sl) /\ Size(sl) \in Nat \ {0}
    <3>1. m \in Int /\ m <= f /\ Reached(blk, p, m)
      BY <1>4, <2>2 DEF Reached
    <3> QED
      BY <1>5, <3>1, HeaderFacts, Window
  <2>4. m <= f + 1 - Size(sl)
    <3>1. PICK k \in Int : k = f + 1
      BY <1>4
    <3>2. Alike(Size(sl), k, m)
      BY <1>3, <1>5, <2>2, <2>3, <3>1, SameEntry
    <3>3. k - m < Size(sl) /\ m - k < Size(sl) => k = m
      BY <2>3, <3>1, <3>2, AlikeFacts
    <3> QED
      BY <1>4, <2>3, <3>1, <3>3
  <2>5. \A n \in Int : f - Size(sl) < n /\ n <= f => Exact(sl, entry, z, num, n)
    <3>1. \A n \in Int : f - Size(sl) < n => m <= n
      BY <1>4, <2>3, <2>4
    <3> QED
      BY <1>5, <2>2, <3>1 DEF Reach, Reached
  <2>6. Marked("grow", sl, entry, z, num, f, blk)
    BY <1>5, <2>5 DEF Marked, Unsettled
  <2>7. /\ Producing(setup.start, e, tailBlock, next, enqueued, t, w, ch, f, blk) /\ e.pc = "grow"
        /\ Built(setup.start, e, enqueued) = Built(setup.start, enq, enqueued)
    <3>1. "grow" \in FindingPcs
      BY DEF FindingPcs
    <3> QED
      BY <1>1, <1>4, <2>1, <3>1, RoomFacts
  <2>8. Consuming(setup.start, deq, sl, entry, z, num, blk, GoneNow)
    BY <1>3 DEF Settled
  <2> QED
    BY <1>2, <1>3, <1>5, <2>1, <2>6, <2>7, <2>8, IndexMoves
<1> QED
  BY <1>7, <1>8

LEMMA StoreTailKeeps ==
  ASSUME Counted, InOrder, NEW z, NEW num, NEW f, NEW blk, NEW t, NEW w, NEW ch,
         Settled(z, num, f, blk, t, w, ch), Implicit!StoreTail, NEW g, g = f + 1
  PROVE  Settled(z, num, g, blk, t, w, ch)'
<1>1. enq.pc = "tail" /\ enq.pc \in FindingPcs /\ "take" \in FindingPcs
  BY DEF Implicit!StoreTail, Implicit!Calling, FindingPcs
<1>2. /\ UNCHANGED <<setup, headIndex, elements, next, dequeued, pool, deq, enqueued, tailBlock>>
      /\ entry' = entry
  BY DEF Implicit!StoreTail, Implicit!counters, Implicit!memory
<1>3. PICK e : e = MovedTo(enq, "take") /\ enq' = e
  BY DEF Implicit!StoreTail, MovedTo
<1>4. /\ f = t /\ t \in Int /\ g = t + 1 /\ g \in Int /\ e.pc = "take"
      /\ Producing(setup.start, e, tailBlock, next, enqueued, t, w, ch, g, blk)
      /\ Built(setup.start, e, enqueued) = Built(setup.start, enq, enqueued)
  <2>1. f = t /\ t \in Int
    BY <1>1, RoomFacts
  <2>2. g = t + 1 /\ g \in Int
    BY <2>1
  <2> QED
    BY <1>1, <1>3, <2>1, <2>2, RoomFacts
<1>5. /\ Indexed(Rings(index), entry, z, num, f, blk, Tip(enqueued), setup.start, setup.indexSize)
      /\ Headers(Rings(index), entry, z, setup.indexSize)
      /\ Fronts(index, z, f, setup.indexSize)
      /\ Occupied(Rings(index), entry, z, blk, {Here(Rings(index), z, g)})
      /\ Exact(Rings(index), entry, z, num, g)
  BY <1>1 DEF Settled, Indexed, Marked, Unsettled
<1>6. PICK iy : /\ iy = Fronted(index, Turn(Size(Rings(index)), z[Len(index)], g))
                /\ index' = iy
  BY FrontEntry DEF Implicit!StoreTail, Fronted
<1>7. Fronts(iy, z, g, setup.indexSize) /\ Rings(iy) = Rings(index)
  <2>1. /\ g \in Int /\ Headers(Rings(index), entry, z, setup.indexSize)
        /\ Fronts(index, z, f, setup.indexSize)
    BY <1>4, <1>5
  <2> QED
    BY <1>6, <2>1, FrontSet
<1>8. Indexed(Rings(index), entry, z, num, g, blk, Tip(enqueued), setup.start, setup.indexSize)
  BY <1>4, <1>5, ReachMoves DEF Indexed
<1>9. Marked("take", Rings(index), entry, z, num, g, blk)
  BY <1>5 DEF Marked, Unsettled
<1>10. Consuming(setup.start, deq, Rings(index), entry, z, num, blk, GoneNow)
  BY DEF Settled
<1> QED
  BY <1>2, <1>3, <1>4, <1>6, <1>7, <1>8, <1>9, <1>10, IndexMoves

LEMMA GrowKeeps ==
  ASSUME Counted, InOrder, NEW z, NEW num, NEW f, NEW blk, NEW t, NEW w, NEW ch,
         Settled(z, num, f, blk, t, w, ch), Implicit!Grow
  PROVE  \E zy, numy : Settled(zy, numy, f, blk, t, w, ch)'
<1>1. /\ enq.pc = "grow" /\ enq.pc \in FindingPcs
      /\ "insert" \in FindingPcs /\ "undo" \in FindingPcs
  BY DEF Implicit!Grow, Implicit!Calling, FindingPcs
<1>2. UNCHANGED <<setup, headIndex, elements, next, dequeued, pool, deq, enqueued, tailBlock>>
  BY DEF Implicit!Grow, Implicit!counters, Implicit!memory
<1>3. PICK sl, c, p : sl = Rings(index) /\ c = Size(Rings(index)) /\ p = Tip(enqueued)
  OBVIOUS
<1>4. /\ f = t /\ f \in Int /\ SetupOK /\ \A m \in DOMAIN blk : m \in Nat /\ m <= f
      /\ p \in Int
  BY <1>1, <1>3, RoomFacts, CountsFacts
<1>5. /\ Indexed(sl, entry, z, num, f, blk, p, setup.start, setup.indexSize)
      /\ Headers(sl, entry, z, setup.indexSize) /\ num \in [0 .. Size(sl) - 1 -> Int]
      /\ Fronts(index, z, f, setup.indexSize)
      /\ Occupied(sl, entry, z, blk, {})
      /\ \A n \in Int : f - c < n /\ n <= f => Exact(sl, entry, z, num, n)
  BY <1>1, <1>3 DEF Settled, Indexed, Keys, Marked, Unsettled
<1>6. Implicit!capacity(Implicit!Header) = c /\ Implicit!Header = index[Len(index)]
      /\ c \in Nat \ {0}
  BY <1>3, <1>5, FrontEntry, HeaderFacts DEF Header
<1>7. ASSUME NEW l, l \in {"insert", "undo"}, NEW e, e = MovedTo(enq, l)
      PROVE  /\ Producing(setup.start, e, tailBlock, next, enqueued, t, w, ch, f, blk) /\ e.pc = l
             /\ Built(setup.start, e, enqueued) = Built(setup.start, enq, enqueued)
  BY <1>1, <1>4, <1>7, RoomFacts
<1>8. CASE 2 * c <= setup.indexSize
  <2>1. PICK e : e = MovedTo(enq, "insert") /\ enq' = e
    BY <1>6, <1>8 DEF Implicit!Grow, MovedTo
  <2>2. PICK iy, ey, zy, numy : /\ Grows(index, entry, z, num, f, c, iy, ey, zy, numy)
                                /\ index' = iy /\ entry' = ey
    BY <1>6, <1>8 DEF Implicit!Grow, Implicit!new_block_index, Grows, NewRing, Longer, Fresh
  <2>3. SizeIs(Rings(index), c) /\ \A m \in DOMAIN blk : m <= f
    BY <1>3, <1>4 DEF SizeIs
  <2>4. /\ Indexed(Rings(iy), ey, zy, numy, f, blk, p, setup.start, setup.indexSize)
        /\ Fronts(iy, zy, f, setup.indexSize)
        /\ GrownFrom(sl, z, entry, num, Rings(iy), zy, ey, numy, f)
    BY <1>3, <1>4, <1>5, <1>8, <2>2, <2>3, IndexGrown
  <2>5. \A m \in DOMAIN blk : /\ m \in Int /\ f - Size(sl) < m /\ m <= f
                              /\ Here(Rings(iy), zy, m) = Here(sl, z, m)
    <3>1. ASSUME NEW m \in DOMAIN blk PROVE m \in Int /\ f - Size(sl) < m /\ m <= f
      <4>1. m \in Int /\ m <= f /\ Reached(blk, p, m)
        BY <1>4 DEF Reached
      <4>2. f < m + Size(sl)
        BY <1>5, <4>1, Window
      <4> QED
        BY <1>3, <1>4, <1>6, <4>1, <4>2
    <3> QED
      BY <2>4, <3>1 DEF GrownFrom
  <2>6. SameBelow(p, blk, blk, sl, z, Rings(iy), zy)
    <3>1. Len(sl) \in Nat
      BY <1>5, HeaderFacts
    <3> QED
      BY <2>4, <2>5, <3>1 DEF SameBelow, GrownFrom
  <2>7. NoLess(p, sl, entry, num, ey, numy)
    <3>1. \A v \in 0 .. Size(sl) - 1 : num[v] \in Int /\ num[v] <= num[v]
      BY <1>5
    <3> QED
      BY <2>4, <3>1 DEF NoLess, GrownFrom, Valid
  <2>8. Consuming(setup.start, deq, Rings(iy), ey, zy, numy, blk, GoneNow)
    BY <1>3, <2>6, <2>7, ConsumeGrown
  <2>9. Marked("insert", Rings(iy), ey, zy, numy, f, blk)
    <3>1. ASSUME NEW v \in 0 .. Size(Rings(iy)) - 1, Valid(ey, v), ey[v].value # Nil
          PROVE  \E m \in DOMAIN blk : Here(Rings(iy), zy, m) = v
      <4>1. v \notin Size(sl) .. Size(Rings(iy)) - 1
        BY <2>4, <3>1 DEF GrownFrom
      <4>2. v \in 0 .. Size(sl) - 1
        <5>1. Size(sl) \in Nat /\ Size(Rings(iy)) \in Nat
          BY <1>3, <1>6, <2>4 DEF GrownFrom
        <5> QED
          BY <4>1, <5>1
      <4>3. Valid(entry, v) /\ entry[v].value # Nil
        BY <2>4, <3>1, <4>2 DEF GrownFrom, Valid
      <4> QED
        BY <1>5, <2>5, <4>2, <4>3 DEF Occupied
    <3> QED
      BY <3>1 DEF Marked, Unsettled, Occupied
  <2>10. /\ Producing(setup.start, e, tailBlock, next, enqueued, t, w, ch, f, blk) /\ e.pc = "insert"
         /\ Built(setup.start, e, enqueued) = Built(setup.start, enq, enqueued)
    BY <1>7, <2>1
  <2>11. Settled(zy, numy, f, blk, t, w, ch)'
    BY <1>2, <1>3, <2>1, <2>2, <2>4, <2>8, <2>9, <2>10, IndexMoves
  <2> QED
    BY <2>11
<1>9. CASE ~(2 * c <= setup.indexSize)
  <2>1. PICK e : e = MovedTo(enq, "undo") /\ enq' = e /\ index' = index /\ entry' = entry
    BY <1>6, <1>9 DEF Implicit!Grow, MovedTo
  <2>2. /\ Producing(setup.start, e, tailBlock, next, enqueued, t, w, ch, f, blk) /\ e.pc = "undo"
        /\ Built(setup.start, e, enqueued) = Built(setup.start, enq, enqueued)
    BY <1>7, <2>1
  <2>3. Marked("undo", sl, entry, z, num, f, blk)
    BY <1>5 DEF Marked, Unsettled
  <2>4. Consuming(setup.start, deq, sl, entry, z, num, blk, GoneNow)
    BY <1>3 DEF Settled
  <2>5. Settled(z, num, f, blk, t, w, ch)'
    BY <1>2, <1>3, <1>5, <2>1, <2>2, <2>3, <2>4, IndexMoves
  <2> QED
    BY <2>5
<1> QED
  BY <1>8, <1>9

(* A block comes into use.                                                 *)
With(blk, n, b) == [m \in DOMAIN blk \cup {n} |-> IF m = n THEN b ELSE blk[m]]
(* A value is stored in the entry of the front.                            *)
LEMMA FrontValue ==
  ASSUME NEW sl, NEW en, NEW z, NEW num, NEW f, NEW blk, NEW p, NEW st, NEW size,
         Indexed(sl, en, z, num, f, blk, p, st, size), p < f, f \notin DOMAIN blk,
         NEW v \in Block \cup {Nil}, NEW ey, ey = Valued(en, Here(sl, z, f), v)
  PROVE  /\ Indexed(sl, ey, z, num, f, blk, p, st, size)
         /\ Exact(sl, ey, z, num, f) /\ ey[Here(sl, z, f)].value = v
         /\ \A m \in DOMAIN blk : Exact(sl, ey, z, num, m) /\ ey[Here(sl, z, m)].value = blk[m]
         /\ \A e \in 0 .. Size(sl) - 1 : /\ ey[e].key = en[e].key /\ (Valid(ey, e) <=> Valid(en, e))
                                         /\ e # Here(sl, z, f) => ey[e] = en[e]
         /\ ey \in [0 .. Size(sl) - 1 -> Entries]
<1>1. /\ Headers(sl, en, z, size) /\ Listed(sl, en, z, num, blk) /\ f \in Int /\ p \in Int
      /\ Reach(sl, en, z, num, f, blk, p)
  BY DEF Indexed, Reach, Keys
<1>2. PICK x : x = Here(sl, z, f) /\ x \in 0 .. Size(sl) - 1
  BY <1>1, HeaderFacts
<1>3. /\ ey \in [0 .. Size(sl) - 1 -> Entries]
      /\ \A e \in 0 .. Size(sl) - 1 :
           /\ ey[e].key = en[e].key /\ (Valid(ey, e) <=> Valid(en, e))
           /\ e # x => ey[e] = en[e]
      /\ ey[x].value = v
  <2>1. ey = Valued(en, x, v)
    BY <1>2
  <2> QED
    BY <1>1, <1>2, <2>1, ValueStored
<1>4. Exact(sl, en, z, num, f)
  BY <1>1 DEF Reach, Reached
<1>5. \A m \in Int : Exact(sl, en, z, num, m) => Exact(sl, ey, z, num, m)
  BY <1>1, <1>3, HeaderFacts DEF Exact
<1>6. ASSUME NEW m \in DOMAIN blk
      PROVE  /\ m \in Nat /\ blk[m] \in Block
             /\ Exact(sl, ey, z, num, m) /\ ey[Here(sl, z, m)].value = blk[m]
  <2>1. /\ m \in Nat /\ blk[m] \in Block /\ m \in Int /\ m # f
        /\ Exact(sl, en, z, num, m) /\ en[Here(sl, z, m)].value = blk[m]
    BY <1>1 DEF Listed
  <2>2. Here(sl, z, m) # x /\ Here(sl, z, m) \in 0 .. Size(sl) - 1
    BY <1>1, <1>2, <1>4, <2>1, HeaderFacts DEF Exact
  <2>3. ey[Here(sl, z, m)] = en[Here(sl, z, m)]
    BY <1>3, <2>2
  <2> QED
    BY <1>5, <2>1, <2>3
<1>7. Indexed(sl, ey, z, num, f, blk, p, st, size)
  <2>1. Listed(sl, ey, z, num, blk)
    BY <1>6 DEF Listed
  <2>2. \A e \in 0 .. Size(sl) - 1 : ey[e].key = en[e].key
    BY <1>3
  <2> QED
    BY <1>3, <2>1, <2>2, ValuesSet
<1> QED
  BY <1>1, <1>2, <1>3, <1>4, <1>5, <1>6, <1>7

LEMMA IndexWith ==
  ASSUME NEW sl, NEW en, NEW z, NEW num, NEW f \in Nat, NEW blk, NEW p, NEW st, NEW size,
         Indexed(sl, en, z, num, f, blk, p, st, size), p < f, f \notin DOMAIN blk,
         NEW b \in Block, NEW ey, ey = Valued(en, Here(sl, z, f), b),
         NEW by, by = With(blk, f, b), Occupied(sl, en, z, blk, {Here(sl, z, f)})
  PROVE  Indexed(sl, ey, z, num, f, by, p, st, size) /\ Occupied(sl, ey, z, by, {})
<1>1. /\ Indexed(sl, ey, z, num, f, blk, p, st, size)
      /\ Exact(sl, ey, z, num, f) /\ ey[Here(sl, z, f)].value = b
      /\ \A m \in DOMAIN blk : Exact(sl, ey, z, num, m) /\ ey[Here(sl, z, m)].value = blk[m]
      /\ \A e \in 0 .. Size(sl) - 1 : /\ ey[e].key = en[e].key /\ (Valid(ey, e) <=> Valid(en, e))
                                      /\ e # Here(sl, z, f) => ey[e] = en[e]
      /\ ey \in [0 .. Size(sl) - 1 -> Entries]
  BY FrontValue
<1>2. /\ f \in DOMAIN by /\ by[f] = b
      /\ \A m \in DOMAIN blk : m \in DOMAIN by
      /\ \A m \in DOMAIN by : m # f => m \in DOMAIN blk /\ by[m] = blk[m]
  BY DEF With
<1>3. \A m \in DOMAIN blk : m \in Nat /\ blk[m] \in Block
  BY DEF Indexed, Listed
<1>4. Listed(sl, ey, z, num, by)
  BY <1>1, <1>2, <1>3 DEF Listed
<1>5. Indexed(sl, ey, z, num, f, by, p, st, size)
  <2>1. \A m \in DOMAIN by : m \in DOMAIN blk \/ p < m
    BY <1>2
  <2>2. \A e \in 0 .. Size(sl) - 1 : ey[e].key = ey[e].key
    OBVIOUS
  <2> QED
    BY <1>1, <1>4, <2>1, <2>2, ValuesSet
<1>6. Occupied(sl, ey, z, by, {})
  BY <1>1, <1>2 DEF Occupied
<1> QED
  BY <1>5, <1>6

LEMMA StoredWith ==
  ASSUME SetupOK, NEW st, NEW el, NEW out, NEW blk, NEW present, NEW gone,
         Stored(st, el, out, blk, present, gone),
         NEW n \in Int, n \notin DOMAIN blk, NEW b \in Block, \A m \in DOMAIN blk : blk[m] # b,
         \A j \in Slot : SlotOf(n, j) \notin present /\ SlotOf(n, j) \notin gone,
         NEW by, by = With(blk, n, b), NEW outy, outy = [out EXCEPT ![b] = 0]
  PROVE  Stored(st, el, outy, by, present, gone)
<1>1. /\ el \in [Block -> [Slot -> Index \cup {Nil}]] /\ out \in [Block -> 0 .. BLOCK_SIZE]
      /\ \A m \in DOMAIN blk : \A j \in Slot :
           el[blk[m]][j] = IF SlotOf(m, j) \in present THEN Plus(st, SlotOf(m, j)) ELSE Nil
      /\ \A m \in DOMAIN blk : out[blk[m]] = Cardinality(GoneOf(m, gone))
      /\ \A x \in Block : (\A m \in DOMAIN blk : blk[m] # x) => el[x] = Vacant
      /\ \A x \in present : x \div BLOCK_SIZE \in DOMAIN blk
  BY StoredMeans
<1>2. /\ DOMAIN by = DOMAIN blk \cup {n} /\ n \in DOMAIN by /\ by[n] = b
      /\ \A m \in DOMAIN by : m # n => m \in DOMAIN blk /\ by[m] = blk[m]
      /\ \A m \in DOMAIN blk : m \in DOMAIN by /\ by[m] = blk[m]
  BY DEF With
<1>3. /\ outy \in [Block -> 0 .. BLOCK_SIZE] /\ outy[b] = 0
      /\ \A m \in DOMAIN blk : outy[blk[m]] = out[blk[m]]
  <2>1. 0 \in 0 .. BLOCK_SIZE
    BY SetupMore
  <2> QED
    BY <1>1, <2>1
<1>4. Cardinality(GoneOf(n, gone)) = 0
  <2>1. GoneOf(n, gone) = {}
    BY DEF GoneOf
  <2> QED
    BY <2>1, FS_EmptySet
<1>5. \A j \in Slot : el[b][j] = Nil
  BY <1>1 DEF Vacant
<1>6. \A m \in DOMAIN by : \A j \in Slot :
        el[by[m]][j] = IF SlotOf(m, j) \in present THEN Plus(st, SlotOf(m, j)) ELSE Nil
  BY <1>1, <1>2, <1>5
<1>7. \A m \in DOMAIN by : outy[by[m]] = Cardinality(GoneOf(m, gone))
  BY <1>1, <1>2, <1>3, <1>4
<1>8. \A x \in Block : (\A m \in DOMAIN by : by[m] # x) => el[x] = Vacant
  BY <1>1, <1>2
<1> QED
  BY <1>1, <1>2, <1>3, <1>6, <1>7, <1>8, StoredMeans

LEMMA OwnTaken ==
  ASSUME NEW all, NEW pl, NEW loose, NEW blk, NEW dq, Owned(all, pl, loose, blk, dq),
         NEW b \in pl, NEW n, n \notin DOMAIN blk, NEW by, by = With(blk, n, b)
  PROVE  Owned(all, pl \ {b}, loose, by, dq)
<1>1. /\ DOMAIN by = DOMAIN blk \cup {n} /\ n \in DOMAIN by /\ by[n] = b
      /\ \A m \in DOMAIN by : m # n => m \in DOMAIN blk /\ by[m] = blk[m]
      /\ \A m \in DOMAIN blk : m \in DOMAIN by /\ by[m] = blk[m]
  BY DEF With
<1>2. \A m, k \in DOMAIN by : by[m] = by[k] => m = k
  BY <1>1 DEF Owned
<1>3. \A v \in all : \/ v \in pl \ {b} \/ v \in loose
                     \/ \E m \in DOMAIN by : by[m] = v
                     \/ \E c \in Consumer : Recycles(dq[c]) /\ dq[c].block = v
  BY <1>1 DEF Owned
<1> QED
  BY <1>1, <1>2, <1>3 DEF Owned

LEMMA ChosenWith ==
  ASSUME NEW all, NEW tip, NEW t, NEW w, NEW ch, NEW blk, Chosen(all, tip, t, w, ch, blk), w = tip,
         NEW b \in all, \A m \in DOMAIN blk : m \in Int /\ blk[m] # b, NEW g, g = t + 1,
         NEW by, by = With(blk, g, b), NEW chy, chy = With(ch, g, b)
  PROVE  Chosen(all, tip, g, w, chy, by)
<1>1. /\ tip \in Int /\ t \in Int /\ tip <= t /\ g \in Int /\ ch \in [tip + 1 .. t -> all]
      /\ \A m, n \in tip + 1 .. t : ch[m] = ch[n] => m = n
      /\ \A m \in DOMAIN blk : m <= t
      /\ \A m \in tip + 1 .. t : m \in DOMAIN blk /\ blk[m] = ch[m]
  BY DEF Chosen
<1>2. /\ DOMAIN by = DOMAIN blk \cup {g} /\ g \in DOMAIN by /\ by[g] = b
      /\ \A m \in DOMAIN blk : m # g => m \in DOMAIN by /\ by[m] = blk[m]
  BY DEF With
<1>3. tip + 1 .. g = (tip + 1 .. t) \cup {g} /\ g \notin tip + 1 .. t
  BY <1>1
<1>4. /\ DOMAIN chy = tip + 1 .. g /\ chy[g] = b
      /\ \A m \in tip + 1 .. t : chy[m] = ch[m] /\ chy[m] # b
      /\ chy = [m \in tip + 1 .. g |-> chy[m]]
  <2>1. DOMAIN ch = tip + 1 .. t
    BY <1>1
  <2> QED
    BY <1>1, <1>3, <2>1 DEF With
<1>5. chy \in [tip + 1 .. g -> all]
  BY <1>1, <1>3, <1>4
<1>6. \A m, n \in tip + 1 .. g : chy[m] = chy[n] => m = n
  BY <1>1, <1>3, <1>4
<1>7. \A m \in DOMAIN by : m <= g
  <2>1. \A m \in Int : m <= t => m <= g
    BY <1>1
  <2>2. g <= g
    BY <1>1
  <2> QED
    BY <1>1, <1>2, <2>1, <2>2
<1>8. \A m \in tip + 1 .. g : m \in DOMAIN by /\ w < m /\ by[m] = chy[m]
  <2>1. \A m \in tip + 1 .. g : w < m
    BY <1>1
  <2> QED
    BY <1>1, <1>2, <1>3, <1>4, <2>1
<1> QED
  BY <1>1, <1>5, <1>6, <1>7, <1>8 DEF Chosen

(* The blocks that an enqueue has found are chained, from the one that its *)
(* first element goes to.                                                  *)
Linked(nx, total, t, blk) == \A m \in total \div BLOCK_SIZE .. t - 1 : nx[blk[m]] = blk[m + 1]
FirstBlock(start, tip, total, ch) == IF total % BLOCK_SIZE = 0 THEN ch[tip + 1] ELSE start
LEMMA LinksOf ==
  ASSUME SetupOK, NEW all, NEW total \in Nat, NEW tip, tip = Tip(total), NEW t, NEW ch, NEW blk,
         Chosen(all, tip, t, tip, ch, blk), tip < t,
         NEW nx, NEW start, NEW first, Starts(start, first, nx, total, blk)
  PROVE  /\ total \div BLOCK_SIZE \in Int /\ tip <= total \div BLOCK_SIZE
         /\ total \div BLOCK_SIZE <= tip + 1 /\ (total \div BLOCK_SIZE = tip <=> total % BLOCK_SIZE # 0)
         /\ \A m \in total \div BLOCK_SIZE .. t : m \in DOMAIN blk
         /\ FirstBlock(start, tip, total, ch) = blk[total \div BLOCK_SIZE]
         /\ Chained(nx, tip, t, ch) /\ first = ch[tip + 1] /\ first # Nil =>
              Linked(nx, total, t, blk)
<1>1. /\ tip \in Int /\ t \in Int
      /\ \A m \in tip + 1 .. t : m \in DOMAIN blk /\ blk[m] = ch[m]
  <2>1. tip \in Int /\ t \in Int
    BY DEF Chosen
  <2>2. \A m \in tip + 1 .. t : tip < m
    BY <2>1
  <2> QED
    BY <2>1, <2>2 DEF Chosen
<1>2. PICK l : l = total \div BLOCK_SIZE /\ l \in Int
  BY SetupMore, DivFacts
<1>3. /\ total % BLOCK_SIZE = 0 => l = tip + 1
      /\ total % BLOCK_SIZE # 0 => l = tip /\ tip \in DOMAIN blk /\ start = blk[tip]
  <2>1. ASSUME total % BLOCK_SIZE = 0 PROVE l = tip + 1
    <3>1. PICK x \in Int : x = tip * BLOCK_SIZE /\ (tip + 1) * BLOCK_SIZE = x + BLOCK_SIZE
                           /\ BLOCK_SIZE \in Nat \ {0}
      BY <1>1, SetupMore, MulStep
    <3>2. x + BLOCK_SIZE = total
      BY <2>1, <3>1, TipFacts
    <3>3. tip + 1 \in Int /\ total \in Int
      BY <1>1
    <3>4. (tip + 1) * BLOCK_SIZE <= total /\ total < (tip + 1) * BLOCK_SIZE + BLOCK_SIZE
      BY <3>1, <3>2
    <3> QED
      BY <1>2, <3>1, <3>3, <3>4, DivIs
  <2> QED
    BY <1>2, <2>1, TipFacts DEF Starts
<1>4. \A m \in l .. t : m \in DOMAIN blk
  <2>1. \A m \in l .. t : m = tip \/ m \in tip + 1 .. t
    BY <1>1, <1>2, <1>3
  <2>2. \A m \in l .. t : m = tip => l = tip
    BY <1>1, <1>2, <1>3
  <2> QED
    BY <1>1, <1>3, <2>1, <2>2
<1>5. FirstBlock(start, tip, total, ch) = blk[l]
  <2>1. tip + 1 \in tip + 1 .. t
    BY <1>1
  <2> QED
    BY <1>1, <1>3, <2>1 DEF FirstBlock
<1>6. ASSUME Chained(nx, tip, t, ch), first = ch[tip + 1], first # Nil, NEW m \in l .. t - 1
      PROVE  nx[blk[m]] = blk[m + 1]
  <2>1. m + 1 \in tip + 1 .. t /\ (m = tip \/ m \in tip + 1 .. t) /\ m # t
    BY <1>1, <1>2, <1>3
  <2>2. CASE m = tip
    <3>1. total % BLOCK_SIZE # 0
      BY <1>1, <1>2, <1>3, <2>2
    <3> QED
      BY <1>1, <1>3, <1>6, <2>1, <2>2, <3>1 DEF Starts
  <2>3. CASE m \in tip + 1 .. t
    BY <1>1, <1>6, <2>1, <2>3 DEF Chained
  <2> QED
    BY <2>1, <2>2, <2>3
<1>7. Chained(nx, tip, t, ch) /\ first = ch[tip + 1] /\ first # Nil => Linked(nx, total, t, blk)
  BY <1>2, <1>6 DEF Linked
<1>8. tip <= l /\ l <= tip + 1 /\ (l = tip <=> total % BLOCK_SIZE # 0)
  BY <1>1, <1>2, <1>3
<1> QED
  BY <1>2, <1>4, <1>5, <1>7, <1>8

(* The new block is chained to the one before it.                          *)
Relinked(nx, b, tb, total, first) ==
  [x \in Block |-> IF x = b THEN Nil
                   ELSE IF x = tb /\ (total % BLOCK_SIZE # 0 \/ first # Nil) THEN b ELSE nx[x]]
LEMMA ChainGrows ==
  ASSUME SetupOK, NEW all, Nil \notin all, NEW total \in Nat, NEW tip, tip = Tip(total),
         NEW t, NEW ch, NEW blk, Chosen(all, tip, t, tip, ch, blk), all \subseteq Block,
         NEW b \in all, \A m \in DOMAIN blk : m \in Int /\ blk[m] \in Block /\ blk[m] # b,
         \A m, n \in DOMAIN blk : blk[m] = blk[n] => m = n,
         NEW nx \in [Block -> BlockOrNil], NEW start, NEW first, first = FirstTaken(tip, t, ch),
         Starts(start, first, nx, total, blk), Chained(nx, tip, t, ch),
         NEW tb, tb = (IF t = tip THEN start ELSE ch[t]), NEW g, g = t + 1,
         NEW ny, ny = Relinked(nx, b, tb, total, first),
         NEW chy, chy = With(ch, g, b), NEW by, by = With(blk, g, b)
  PROVE  /\ ny \in [Block -> BlockOrNil] /\ Chained(ny, tip, g, chy)
         /\ Starts(start, chy[tip + 1], ny, total, by)
<1>1. /\ tip \in Int /\ t \in Int /\ tip <= t /\ g \in Int /\ g \notin tip + 1 .. t
      /\ tip + 1 .. g = (tip + 1 .. t) \cup {g}
      /\ DOMAIN ch = tip + 1 .. t /\ \A m \in tip + 1 .. t : ch[m] \in all
      /\ \A m, n \in tip + 1 .. t : ch[m] = ch[n] => m = n
      /\ \A m \in DOMAIN blk : m <= t
  BY DEF Chosen
<1>2. \A m \in tip + 1 .. t : m \in DOMAIN blk /\ blk[m] = ch[m] /\ ch[m] # b /\ ch[m] \in Block
  <2>1. \A m \in tip + 1 .. t : tip < m
    BY <1>1
  <2> QED
    BY <1>1, <2>1 DEF Chosen
<1>3. /\ b \in Block /\ ny \in [Block -> BlockOrNil] /\ ny[b] = Nil
      /\ \A x \in Block : x # b /\ x # tb => ny[x] = nx[x]
      /\ tb \in Block /\ tb # b /\ (total % BLOCK_SIZE # 0 \/ first # Nil) => ny[tb] = b
  BY DEF Relinked, BlockOrNil
<1>4. /\ DOMAIN chy = tip + 1 .. g /\ chy[g] = b
      /\ \A m \in tip + 1 .. t : chy[m] = ch[m]
  BY <1>1 DEF With
<1>5. \A m \in DOMAIN blk : m \in DOMAIN by /\ by[m] = blk[m]
  <2>1. \A m \in DOMAIN blk : m # g
    BY <1>1
  <2> QED
    BY <2>1 DEF With
<1>6. t # tip => t \in tip + 1 .. t /\ tip + 1 \in tip + 1 .. t /\ tb = ch[t] /\ first = ch[tip + 1]
                 /\ first # Nil
  <2>1. t # tip => t \in tip + 1 .. t /\ tip + 1 \in tip + 1 .. t
    BY <1>1
  <2> QED
    BY <1>2, <2>1, ProducerBaseAssumption DEF FirstTaken
<1>7. ASSUME NEW m \in tip + 1 .. g
      PROVE  ny[chy[m]] = IF m = g THEN Nil ELSE chy[m + 1]
  <2>1. CASE m = g
    BY <1>3, <1>4, <2>1
  <2>2. CASE m = t /\ m # g
    <3>1. t # tip /\ m + 1 = g
      BY <1>1, <2>2
    <3>2. chy[m] = tb /\ tb \in Block /\ tb # b
      BY <1>2, <1>4, <1>6, <2>2, <3>1
    <3> QED
      BY <1>3, <1>4, <1>6, <2>2, <3>1, <3>2
  <2>3. CASE m # g /\ m # t
    <3>1. m \in tip + 1 .. t /\ m + 1 \in tip + 1 .. t /\ t # tip
      BY <1>1, <2>3
    <3>2. nx[ch[m]] = ch[m + 1]
      BY <2>3, <3>1 DEF Chained
    <3>3. ch[m] # tb /\ ch[m] # b /\ ch[m] \in Block
      BY <1>1, <1>2, <1>6, <2>3, <3>1
    <3> QED
      BY <1>3, <1>4, <2>3, <3>1, <3>2, <3>3
  <2> QED
    BY <2>1, <2>2, <2>3
<1>8. Chained(ny, tip, g, chy)
  BY <1>7 DEF Chained
<1>9. Starts(start, chy[tip + 1], ny, total, by)
  <2>1. start \in BlockOrNil
    BY DEF Starts
  <2>2. tip \in DOMAIN by => tip \in DOMAIN blk /\ start = by[tip]
    <3>1. tip # g
      BY <1>1
    <3>2. tip \in DOMAIN by => tip \in DOMAIN blk
      BY <3>1 DEF With
    <3> QED
      BY <1>5, <3>2 DEF Starts
  <2>3. ASSUME total % BLOCK_SIZE # 0 PROVE tip \in DOMAIN by /\ ny[start] = chy[tip + 1]
    <3>1. tip \in DOMAIN blk /\ start = blk[tip] /\ start \in Block /\ start # b
      BY <2>3 DEF Starts
    <3>2. CASE t = tip
      <4>1. chy[tip + 1] = b
        BY <1>4, <3>2
      <4> QED
        BY <1>3, <1>5, <2>3, <3>1, <3>2, <4>1
    <3>3. CASE t # tip
      <4>1. nx[start] = first
        BY <1>6, <2>3, <3>3 DEF Starts
      <4>2. start # tb
        <5>1. tip \notin tip + 1 .. t
          BY <1>1
        <5> QED
          BY <1>2, <1>6, <3>1, <3>3, <5>1
      <4> QED
        BY <1>3, <1>4, <1>5, <1>6, <3>1, <3>3, <4>1, <4>2
    <3> QED
      BY <3>2, <3>3
  <2> QED
    BY <2>1, <2>2, <2>3 DEF Starts
<1> QED
  BY <1>3, <1>8, <1>9

(* A call of the producer that takes a block.                              *)
LEMMA TakingFacts ==
  ASSUME Counted, InOrder, NEW z, NEW num, NEW f, NEW blk, NEW t, NEW w, NEW ch,
         Settled(z, num, f, blk, t, w, ch), Implicit!TakeBlock
  PROVE  /\ enq.pc = "take" /\ enq.pc \in FindingPcs
         /\ Finding(setup.start, enq, tailBlock, next, enqueued, t, w, ch, f, blk)
         /\ next \in [Block -> BlockOrNil] /\ tailBlock \in BlockOrNil
         /\ Built(setup.start, enq, enqueued) = enqueued
         /\ f = t + 1 /\ t \in Int /\ f \in Nat /\ w = Tip(enqueued) /\ w \in Int
         /\ w <= t /\ w < f /\ f <= Last(enqueued, enq.n)
         /\ \A m \in DOMAIN blk : m \in Nat /\ m < f /\ blk[m] \in Block
         /\ f \notin DOMAIN blk
         /\ Implicit!Base = Key(setup.start, f)
         /\ Implicit!Base = Implicit!LastBase <=> f = Last(enqueued, enq.n)
<1>1. enq.pc = "take" /\ enq.pc \in FindingPcs
  BY DEF Implicit!TakeBlock, Implicit!Calling, FindingPcs
<1>2. /\ Finding(setup.start, enq, tailBlock, next, enqueued, t, w, ch, f, blk)
      /\ next \in [Block -> BlockOrNil] /\ tailBlock \in BlockOrNil
      /\ Built(setup.start, enq, enqueued) = enqueued
      /\ t \in Int /\ w \in Int /\ w = Tip(enqueued) /\ Tip(enqueued) <= t /\ SetupOK
      /\ enq.n \in Nat \ {0} /\ enqueued + enq.n <= setup.elements
  BY <1>1, FindingNow
<1>3. f = t + 1 /\ t < Last(enqueued, enq.n) /\ enq.base = Key(setup.start, t)
  BY <1>1, <1>2 DEF Finding
<1>4. -1 <= w
  <2>1. (-1) * BLOCK_SIZE < enqueued /\ -1 \in Int /\ enqueued \in Int
    BY CountsFacts, SetupMore
  <2> QED
    BY <1>2, <2>1, TipFacts
<1>5. f \in Nat /\ w < f /\ w <= t
  BY <1>2, <1>3, <1>4
<1>6. \A m \in DOMAIN blk : m \in Nat /\ m < f /\ blk[m] \in Block
  <2>1. \A m \in DOMAIN blk : m \in Nat /\ m <= t /\ blk[m] \in Block
    BY DEF Settled, Chosen, Indexed, Listed
  <2> QED
    BY <1>2, <1>3, <2>1
<1>7. f \notin DOMAIN blk
  BY <1>5, <1>6
<1>8. Implicit!Base = Key(setup.start, f)
  BY <1>2, <1>3, KeyNext DEF Implicit!Base, Implicit!Plus, Plus
<1>9. PICK l \in Int : /\ l = Last(enqueued, enq.n) /\ BlockBase(Plus(tailIndex, enq.n - 1)) = Key(setup.start, l)
                       /\ \A m \in Int : Tip(enqueued) <= m /\ m <= l =>
                            (Key(setup.start, m) = Key(setup.start, l) <=> m = l)
  BY <1>2, BaseFacts
<1>10. Implicit!LastBase = Key(setup.start, l)
  BY <1>9 DEF Implicit!LastBase, Implicit!BlockBase, Implicit!Plus, BlockBase, Plus
<1>11. f <= l /\ f \in Int /\ Tip(enqueued) <= f
  BY <1>2, <1>3, <1>5, <1>9
<1> QED
  BY <1>1, <1>2, <1>3, <1>5, <1>6, <1>7, <1>8, <1>9, <1>10, <1>11

(* The front goes one back.                                                *)
LEMMA FrontBack ==
  ASSUME Counted, InOrder, NEW z, NEW num, NEW f, NEW blk, NEW t, NEW w, NEW ch,
         Settled(z, num, f, blk, t, w, ch), NEW g, g = f - 1
  PROVE  (Header.front - 1) % Size(Rings(index)) = Turn(Size(Rings(index)), z[Len(index)], g)
<1>1. PICK sl : sl = Rings(index)
  OBVIOUS
<1>2. f \in Int
  BY FrontFacts
<1>3. (Header.front + (-1)) % Size(sl) = Turn(Size(sl), z[Len(index)], f + (-1))
  BY <1>1, FrontEntry
<1>4. Header.front = Turn(Size(sl), z[Len(index)], f)
  BY <1>1, FrontEntry
<1>5. Headers(sl, entry, z, setup.indexSize) /\ Len(sl) = Len(index)
  BY <1>1, FrontEntry DEF Settled, Indexed
<1>6. Size(sl) \in Nat \ {0} /\ z[Len(index)] \in Int
  BY <1>5, HeaderFacts
<1>7. Header.front \in Int
  BY <1>2, <1>4, <1>6, TurnIn
<1>8. f + (-1) = g /\ Header.front + (-1) = Header.front - 1
  BY <1>2, <1>7
<1> QED
  BY <1>1, <1>3, <1>8

(* There is no block.                                                      *)
LEMMA NoneKeeps ==
  ASSUME Counted, InOrder, NEW z, NEW num, NEW f, NEW blk, NEW t, NEW w, NEW ch,
         Settled(z, num, f, blk, t, w, ch), Implicit!TakeBlock, pool = {}, NEW g, g = f - 1
  PROVE  Settled(z, num, g, blk, t, w, ch)'
<1>2. /\ enq.pc = "take" /\ enq.pc \in FindingPcs /\ "undo" \in FindingPcs
      /\ f = t + 1 /\ t \in Int /\ w = Tip(enqueued) /\ w < f /\ f \notin DOMAIN blk /\ f \in Int
  BY TakingFacts DEF FindingPcs
<1>3. PICK sl : sl = Rings(index)
  OBVIOUS
<1>4. /\ Implicit!capacity(Implicit!Header) = Size(sl)
      /\ Implicit!Header = Header /\ Header = index[Len(index)]
      /\ Header.slots[Header.front] = Here(sl, z, f)
      /\ (Header.front - 1) % Size(sl) = Turn(Size(sl), z[Len(index)], g)
  BY <1>3, FrontEntry, FrontBack DEF Header
<1>5. PICK ey, iy, e :
        /\ ey = Valued(entry, Here(sl, z, f), Nil) /\ entry' = ey
        /\ iy = Fronted(index, Turn(Size(sl), z[Len(index)], g)) /\ index' = iy
        /\ e = MovedTo(enq, "undo") /\ enq' = e
  <2>1. PICK k : k = Len(index) /\ (index[k].front - 1) % Size(sl) = Turn(Size(sl), z[k], g)
    BY <1>4
  <2>2. index' = [index EXCEPT ![k].front = (index[k].front - 1) % Size(sl)]
    BY <1>4, <2>1 DEF Implicit!TakeBlock
  <2>3. index' = Fronted(index, Turn(Size(sl), z[k], g))
    BY <2>1, <2>2 DEF Fronted
  <2>4. entry' = Valued(entry, Here(sl, z, f), Nil) /\ enq' = MovedTo(enq, "undo")
    BY <1>4 DEF Implicit!TakeBlock, Valued, MovedTo
  <2> QED
    BY <2>1, <2>3, <2>4
<1>6. UNCHANGED <<setup, headIndex, elements, next, dequeued, pool, deq, enqueued, tailBlock>>
  BY DEF Implicit!TakeBlock, Implicit!counters
<1>7. /\ Producing(setup.start, e, tailBlock, next, enqueued, t, w, ch, g, blk) /\ e.pc = "undo"
      /\ Built(setup.start, e, enqueued) = Built(setup.start, enq, enqueued)
  <2>1. g = t
    BY <1>2
  <2> QED
    BY <1>2, <1>5, <2>1, RoomFacts
<1>8. /\ Indexed(sl, entry, z, num, f, blk, w, setup.start, setup.indexSize)
      /\ Headers(sl, entry, z, setup.indexSize) /\ num \in [0 .. Size(sl) - 1 -> Int]
      /\ Fronts(index, z, f, setup.indexSize) /\ Occupied(sl, entry, z, blk, {Here(sl, z, f)})
      /\ \A m \in DOMAIN blk : m \in Int
  BY <1>2, <1>3 DEF Settled, Indexed, Keys, Listed, Marked, Unsettled
<1>9. /\ Indexed(sl, ey, z, num, f, blk, w, setup.start, setup.indexSize)
      /\ ey[Here(sl, z, f)].value = Nil
      /\ \A x \in 0 .. Size(sl) - 1 : /\ Valid(ey, x) <=> Valid(entry, x)
                                      /\ x # Here(sl, z, f) => ey[x] = entry[x]
  BY <1>2, <1>5, <1>8, FrontValue
<1>10. Indexed(sl, ey, z, num, g, blk, w, setup.start, setup.indexSize)
  <2>1. g \in Int /\ g <= f
    BY <1>2
  <2> QED
    BY <1>9, <2>1, ReachMoves DEF Indexed
<1>11. Fronts(iy, z, g, setup.indexSize) /\ Rings(iy) = sl
  <2>1. g \in Int /\ Headers(Rings(index), entry, z, setup.indexSize)
        /\ iy = Fronted(index, Turn(Size(Rings(index)), z[Len(index)], g))
    BY <1>2, <1>3, <1>5, <1>8
  <2> QED
    BY <1>3, <1>8, <2>1, FrontSet
<1>12. Marked("undo", sl, ey, z, num, g, blk)
  BY <1>8, <1>9 DEF Marked, Unsettled, Occupied
<1>13. Consuming(setup.start, deq, sl, ey, z, num, blk, GoneNow)
  <2>1. SameBelow(w, blk, blk, sl, z, sl, z)
    BY <1>8, HeaderFacts DEF SameBelow
  <2>2. NoLess(w, sl, entry, num, ey, num)
    <3>1. \A x \in 0 .. Size(sl) - 1 : num[x] \in Int /\ num[x] <= num[x]
      BY <1>8
    <3> QED
      BY <1>9, <3>1 DEF NoLess
  <2> QED
    BY <1>2, <1>3, <2>1, <2>2, ConsumeGrown
<1> QED
  BY <1>2, <1>5, <1>6, <1>7, <1>10, <1>11, <1>12, <1>13, IndexMoves

LEMMA BeyondTip ==
  ASSUME Counted, InOrder, NEW z, NEW num, NEW f, NEW blk, NEW t, NEW w, NEW ch,
         Settled(z, num, f, blk, t, w, ch), Built(setup.start, enq, enqueued) = enqueued,
         NEW n \in Int, Tip(enqueued) < n
  PROVE  \A j \in Slot : SlotOf(n, j) \notin PresentNow /\ SlotOf(n, j) \notin GoneNow
<1>1. /\ SetupOK /\ HeadNo \in Int /\ enqueued \in Int /\ HeadNo <= enqueued
      /\ Tip(enqueued) \in Int
  BY CountsFacts
<1>2. Claimed(setup.start, deq) \subseteq 0 .. HeadNo - 1
  BY <1>1, ClaimedFacts DEF Settled
<1>3. \A x \in PresentNow \cup GoneNow : x \in Int /\ x < enqueued
  BY <1>1, <1>2 DEF PresentNow, GoneNow, Present, Gone
<1>4. ~(n * BLOCK_SIZE < enqueued)
  BY <1>1, TipFacts
<1> QED
  <2>1. ASSUME NEW j \in Slot PROVE SlotOf(n, j) \in Int /\ enqueued <= SlotOf(n, j)
    <3>1. SlotOf(n, j) \in Int /\ n * BLOCK_SIZE \in Int /\ j \in Int /\ 0 <= j
      BY <1>1, SlotFacts
    <3> QED
      BY <1>1, <1>4, <3>1 DEF SlotOf
  <2> QED
    BY <1>1, <1>3, <2>1

(* The call of the producer after it has taken block b.                    *)
LEMMA TakenCall ==
  ASSUME Counted, InOrder, NEW z, NEW num, NEW f, NEW blk, NEW t, NEW w, NEW ch,
         Settled(z, num, f, blk, t, w, ch), Implicit!TakeBlock,
         NEW b \in pool, pool' = pool \ {b}, pool # {},
         NEW by, by = With(blk, f, b), NEW chy, chy = With(ch, f, b)
  PROVE  /\ Producing(setup.start, enq', tailBlock', next', enqueued, f, w, chy, f, by)
         /\ Built(setup.start, enq', enqueued) = enqueued
         /\ enq'.pc \in {"room", "construct"}
         /\ Chosen(setup.blocks, w, f, w, chy, by)
<1>1. /\ enq.pc = "take" /\ f = t + 1 /\ t \in Int /\ f \in Nat /\ w = Tip(enqueued) /\ w \in Int
      /\ w <= t /\ w < f /\ f <= Last(enqueued, enq.n)
      /\ Finding(setup.start, enq, tailBlock, next, enqueued, t, w, ch, f, blk)
      /\ next \in [Block -> BlockOrNil] /\ tailBlock \in BlockOrNil
      /\ \A m \in DOMAIN blk : m \in Int /\ m \in Nat /\ m < f /\ blk[m] \in Block
      /\ Implicit!Base = Key(setup.start, f)
      /\ Implicit!Base = Implicit!LastBase <=> f = Last(enqueued, enq.n)
  BY TakingFacts
<1>2. /\ SetupOK /\ enqueued \in Nat /\ enqueued \in Int /\ tailIndex = Idx(enqueued)
      /\ enq.n \in Nat \ {0} /\ enqueued \in Index /\ BLOCK_SIZE \in Nat \ {0}
      /\ setup.blocks \subseteq Block /\ Nil \notin setup.blocks
  <2>1. enqueued < Modulus /\ enqueued \in Nat /\ SetupOK /\ tailIndex = Idx(enqueued)
        /\ enq.n \in Nat \ {0}
    BY <1>1, CountsFacts
  <2> QED
    BY <2>1, SetupMore, SetupFacts, ProducerBaseAssumption DEF Index
<1>3. /\ b \in setup.blocks /\ \A m \in DOMAIN blk : blk[m] # b
      /\ \A m, n \in DOMAIN blk : blk[m] = blk[n] => m = n
  BY DEF Settled, Owned
<1>4. Chosen(setup.blocks, w, t, w, ch, blk)
  BY <1>1 DEF Settled
<1>5. Chosen(setup.blocks, w, f, w, chy, by)
  BY <1>1, <1>3, <1>4, ChosenWith
<1>6. /\ {"pc", "n", "base", "first", "start"} \subseteq DOMAIN enq
      /\ enq.first = FirstTaken(w, t, ch) /\ Starts(enq.start, enq.first, next, enqueued, blk)
      /\ tailBlock = (IF t = w THEN enq.start ELSE ch[t]) /\ Chained(next, w, t, ch)
  BY <1>1 DEF Finding
<1>7. PICK first : /\ first = (IF enq.first = Nil THEN b ELSE enq.first)
                   /\ first = chy[w + 1] /\ first # Nil /\ by[f] = b /\ chy[f] = b
  <2>1. w + 1 \in w + 1 .. f
    BY <1>1
  <2>2. CASE t = w
    <3>1. enq.first = Nil /\ w + 1 = f
      BY <1>1, <1>6, <2>2 DEF FirstTaken
    <3> QED
      BY <1>2, <1>3, <3>1 DEF With
  <2>3. CASE t # w
    <3>1. w + 1 \in w + 1 .. t /\ w + 1 # f
      BY <1>1, <2>3
    <3>2. DOMAIN ch = w + 1 .. t /\ ch[w + 1] \in setup.blocks
      BY <1>4, <3>1 DEF Chosen
    <3>3. enq.first = ch[w + 1] /\ enq.first # Nil
      BY <1>2, <1>6, <2>3, <3>2 DEF FirstTaken
    <3> QED
      BY <3>1, <3>2, <3>3 DEF With
  <2> QED
    BY <2>2, <2>3
<1>8. PICK ny : ny = next' /\ ny = (IF enq.n = 1 THEN next
                                    ELSE Relinked(next, b, tailBlock, enqueued, enq.first))
  <2>1. tailIndex % BLOCK_SIZE = enqueued % BLOCK_SIZE
    BY <1>2, IdxBlock
  <2>2. next' = IF enq.n = 1 THEN next
                ELSE [x \in Block |->
                        IF x = b THEN Nil
                        ELSE IF x = tailBlock /\ (enqueued % BLOCK_SIZE # 0 \/ enq.first # Nil)
                             THEN b ELSE next[x]]
    <3>1. PICK x \in pool : /\ pool' = pool \ {x}
                            /\ next' = IF enq.n = 1 THEN next
                                ELSE [y \in Block |->
                                        IF y = x THEN Nil
                                        ELSE IF y = tailBlock /\ (tailIndex % BLOCK_SIZE # 0 \/ enq.first # Nil)
                                             THEN x ELSE next[y]]
      BY DEF Implicit!TakeBlock
    <3>2. x = b
      BY <3>1
    <3> QED
      BY <2>1, <3>1, <3>2
  <2> QED
    BY <2>2 DEF Relinked
<1>9. enq.n = 1 => f = enqueued \div BLOCK_SIZE /\ f = Last(enqueued, enq.n)
  <2>1. SUFFICES ASSUME enq.n = 1
                 PROVE  f = enqueued \div BLOCK_SIZE /\ f = Last(enqueued, enq.n)
    OBVIOUS
  <2>2. PICK l \in Int : l = Last(enqueued, enq.n) /\ l = enqueued \div BLOCK_SIZE
    <3>1. (enqueued + 1) - 1 = enqueued
      BY <1>2
    <3>2. enqueued \div BLOCK_SIZE \in Int
      BY <1>2, DivFacts
    <3> QED
      BY <2>1, <3>1, <3>2 DEF Last, Tip
  <2>3. l <= w + 1
    <3>1. (w + 1) \in Int /\ ~(w + 1 <= w)
      BY <1>1
    <3>2. ~((w + 1) * BLOCK_SIZE < enqueued)
      BY <1>1, <1>2, <3>1, TipFacts
    <3>3. (w + 1) * BLOCK_SIZE \in Int /\ enqueued <= (w + 1) * BLOCK_SIZE
      BY <1>2, <3>1, <3>2, MulStep
    <3>4. l * BLOCK_SIZE \in Int /\ l * BLOCK_SIZE <= enqueued
      BY <1>2, <2>2, DivFacts
    <3>5. w + 1 < l => (w + 1) * BLOCK_SIZE + BLOCK_SIZE <= l * BLOCK_SIZE
      BY <1>2, <2>2, <3>1, MulStep
    <3> QED
      BY <1>1, <1>2, <2>2, <3>3, <3>4, <3>5
  <2> QED
    BY <1>1, <2>2, <2>3
<1>10. /\ ny \in [Block -> BlockOrNil] /\ Starts(enq.start, first, ny, enqueued, by)
       /\ enq.n # 1 => Chained(ny, w, f, chy)
  <2>1. CASE enq.n # 1
    <3>1. ny = Relinked(next, b, tailBlock, enqueued, enq.first)
      BY <1>8, <2>1
    <3>2. /\ Chosen(setup.blocks, w, t, w, ch, blk)
          /\ \A m \in DOMAIN blk : m \in Int /\ blk[m] \in Block /\ blk[m] # b
      BY <1>1, <1>3, <1>4
    <3> QED
      BY <1>1, <1>2, <1>3, <1>6, <1>7, <3>1, <3>2, ChainGrows
  <2>2. CASE enq.n = 1
    <3>1. ny = next /\ f = enqueued \div BLOCK_SIZE
      BY <1>8, <1>9, <2>2
    <3>2. enqueued % BLOCK_SIZE = 0
      BY <1>1, <1>2, <3>1, TipFacts
    <3>3. w \in DOMAIN by => w \in DOMAIN blk /\ by[w] = blk[w]
      BY <1>1 DEF With
    <3> QED
      BY <1>1, <1>6, <2>2, <3>1, <3>2, <3>3 DEF Starts
  <2> QED
    BY <2>1, <2>2
<1>11. CASE f = Last(enqueued, enq.n)
  <2>1. PICK e : /\ e = [pc |-> "construct", n |-> enq.n, at |-> tailIndex, last |-> b] /\ enq' = e
                 /\ tailBlock' = FirstBlock(enq.start, w, enqueued, chy)
    <3>1. tailIndex % BLOCK_SIZE = enqueued % BLOCK_SIZE
      BY <1>2, IdxBlock
    <3>2. PICK x \in pool :
            /\ pool' = pool \ {x}
            /\ tailBlock' = IF tailIndex % BLOCK_SIZE = 0 /\ (IF enq.first = Nil THEN x ELSE enq.first) # Nil
                            THEN (IF enq.first = Nil THEN x ELSE enq.first) ELSE enq.start
            /\ enq' = [pc |-> "construct", n |-> enq.n, at |-> tailIndex, last |-> x]
      BY <1>1, <1>11 DEF Implicit!TakeBlock, Implicit!Filling
    <3>3. x = b
      BY <3>2
    <3> QED
      BY <1>7, <3>1, <3>2, <3>3 DEF FirstBlock
  <2>2. /\ {"pc", "n", "at", "last"} \subseteq DOMAIN e /\ e.pc = "construct" /\ e.n = enq.n
        /\ e.at = tailIndex /\ e.last = b
    BY <2>1
  <2>3. Begin(setup.start, e) = enqueued /\ e.at \in Index
    BY <1>2, <2>2, OffsetFacts DEF Begin, Off
  <2>4. PICK l \in Int :
           /\ l = Number(setup.start, e) /\ l <= w + 1
           /\ \A m \in l .. f : m \in DOMAIN by
           /\ FirstBlock(enq.start, w, enqueued, chy) = by[l]
           /\ \A m \in l .. f - 1 : ny[by[m]] = by[m + 1]
    <3>1. PICK l \in Int : l = Number(setup.start, e) /\ l = enqueued \div BLOCK_SIZE
      <4>1. enqueued \div BLOCK_SIZE \in Int
        BY <1>2, DivFacts
      <4> QED
        BY <2>3, <4>1 DEF Number
    <3>2. /\ SetupOK /\ enqueued \in Nat /\ w = Tip(enqueued) /\ w < f
          /\ Chosen(setup.blocks, w, f, w, chy, by)
          /\ Starts(enq.start, first, ny, enqueued, by)
          /\ first = chy[w + 1] /\ first # Nil
      BY <1>1, <1>2, <1>5, <1>7, <1>10
    <3>3. /\ enqueued \div BLOCK_SIZE <= w + 1
          /\ \A m \in enqueued \div BLOCK_SIZE .. f : m \in DOMAIN by
          /\ FirstBlock(enq.start, w, enqueued, chy) = by[enqueued \div BLOCK_SIZE]
      BY <3>2, LinksOf
    <3>4. Chained(ny, w, f, chy) => Linked(ny, enqueued, f, by)
      BY <3>2, LinksOf, ZenonT(40)
    <3>5. CASE enq.n = 1
      <4>1. l .. f - 1 = {}
        BY <1>1, <1>9, <3>1, <3>5
      <4> QED
        BY <3>1, <3>3, <4>1
    <3>6. CASE enq.n # 1
      BY <1>10, <3>1, <3>3, <3>4, <3>6 DEF Linked
    <3> QED
      BY <3>5, <3>6
  <2>6. Constructing(setup.start, e, tailBlock', ny, enqueued, f, w, f, by)
    <3>1. enqueued <= enqueued /\ enqueued < enqueued + enq.n
      BY <1>2
    <3> QED
      BY <1>1, <1>7, <1>11, <2>1, <2>2, <2>3, <2>4, <3>1 DEF Constructing
  <2>7. tailBlock' \in BlockOrNil
    <3>1. tailBlock' = by[l] /\ l \in DOMAIN by
      <4>1. l \in l .. f
        BY <1>1, <2>4
      <4> QED
        BY <2>1, <2>4, <4>1
    <3>2. by[l] \in Block
      BY <1>1, <1>2, <1>3, <3>1 DEF With
    <3> QED
      BY <3>1, <3>2 DEF BlockOrNil
  <2>8. Producing(setup.start, e, tailBlock', ny, enqueued, f, w, chy, f, by)
    BY <1>10, <2>2, <2>6, <2>7 DEF Producing, FindingPcs
  <2>9. Built(setup.start, e, enqueued) = enqueued
    BY <2>2, <2>3 DEF Built
  <2> QED
    BY <1>5, <1>8, <2>1, <2>2, <2>8, <2>9
<1>12. CASE f # Last(enqueued, enq.n)
  <2>1. PICK e : /\ e = [enq EXCEPT !.pc = "room", !.base = Implicit!Base, !.first = first]
                 /\ enq' = e /\ tailBlock' = b
    <3>1. PICK x \in pool :
            /\ pool' = pool \ {x} /\ tailBlock' = x
            /\ enq' = [enq EXCEPT !.pc = "room", !.base = Implicit!Base,
                                  !.first = IF enq.first = Nil THEN x ELSE enq.first]
      BY <1>1, <1>12 DEF Implicit!TakeBlock
    <3>2. x = b
      BY <3>1
    <3> QED
      BY <1>7, <3>1, <3>2
  <2>2. /\ {"pc", "n", "base", "first", "start"} \subseteq DOMAIN e /\ e.pc = "room"
        /\ e.n = enq.n /\ e.base = Key(setup.start, f) /\ e.first = first /\ e.start = enq.start
    BY <1>1, <1>6, <2>1
  <2>3. Chained(ny, w, f, chy)
    BY <1>9, <1>10, <1>12
  <2>4. f < Last(enqueued, enq.n)
    <3>1. Last(enqueued, enq.n) \in Int
      <4>1. enqueued + enq.n \in Int
        BY <1>2
      <4> QED
        BY <1>2, <4>1, TipFacts DEF Last
    <3> QED
      BY <1>1, <1>12, <3>1
  <2>5. Finding(setup.start, e, tailBlock', ny, enqueued, f, w, chy, f, by)
    <3>1. FirstTaken(w, f, chy) = first /\ f # w
      BY <1>1, <1>7 DEF FirstTaken
    <3> QED
      BY <1>1, <1>7, <1>10, <2>1, <2>2, <2>3, <2>4, <3>1 DEF Finding
  <2>6. Producing(setup.start, e, tailBlock', ny, enqueued, f, w, chy, f, by)
    <3>1. tailBlock' \in BlockOrNil
      BY <1>2, <1>3, <2>1 DEF BlockOrNil
    <3> QED
      BY <1>10, <2>2, <2>5, <3>1 DEF Producing, FindingPcs
  <2>7. Built(setup.start, e, enqueued) = enqueued
    BY <2>2 DEF Built
  <2> QED
    BY <1>5, <1>8, <2>1, <2>2, <2>6, <2>7
<1> QED
  BY <1>11, <1>12

LEMMA TakenKeeps ==
  ASSUME Counted, InOrder, NEW z, NEW num, NEW f, NEW blk, NEW t, NEW w, NEW ch,
         Settled(z, num, f, blk, t, w, ch), Implicit!TakeBlock,
         NEW b \in pool, pool' = pool \ {b}, pool # {},
         NEW by, by = With(blk, f, b), NEW chy, chy = With(ch, f, b)
  PROVE  Settled(z, num, f, by, f, w, chy)'
<1>1. /\ enq.pc = "take" /\ f = t + 1 /\ t \in Int /\ f \in Nat /\ f \in Int
      /\ w = Tip(enqueued) /\ w \in Int /\ w < f /\ f \notin DOMAIN blk
      /\ Built(setup.start, enq, enqueued) = enqueued
      /\ \A m \in DOMAIN blk : m \in Int /\ m < f /\ blk[m] \in Block
  BY TakingFacts
<1>2. /\ Producing(setup.start, enq', tailBlock', next', enqueued, f, w, chy, f, by)
      /\ Built(setup.start, enq', enqueued) = enqueued
      /\ enq'.pc \in {"room", "construct"}
      /\ Chosen(setup.blocks, w, f, w, chy, by)
  BY TakenCall
<1>3. UNCHANGED <<setup, headIndex, elements, index, deq, enqueued>>
  BY DEF Implicit!TakeBlock, Implicit!counters
<1>4. PICK sl : sl = Rings(index)
  OBVIOUS
<1>5. PICK ey, outy : /\ ey = Valued(entry, Here(sl, z, f), b) /\ entry' = ey
                      /\ outy = [dequeued EXCEPT ![b] = 0] /\ dequeued' = outy
  <2>1. PICK x \in pool : /\ pool' = pool \ {x}
                          /\ dequeued' = [dequeued EXCEPT ![x] = 0]
                          /\ entry' = [entry EXCEPT ![Implicit!Header.slots[Implicit!Header.front]].value = x]
    BY DEF Implicit!TakeBlock, Implicit!Reset
  <2>2. x = b
    BY <2>1
  <2>3. Implicit!Header.slots[Implicit!Header.front] = Here(sl, z, f)
    BY <1>4, FrontEntry
  <2> QED
    BY <2>1, <2>2, <2>3 DEF Valued
<1>6. SetupOK /\ setup.blocks \subseteq Block
  BY CountsFacts, SetupFacts
<1>7. b \in setup.blocks /\ b \in Block /\ \A m \in DOMAIN blk : blk[m] # b
  BY <1>6 DEF Settled, Owned
<1>8. Stored(setup.start, elements, outy, by, PresentNow, GoneNow)
  <2>1. \A j \in Slot : SlotOf(f, j) \notin PresentNow /\ SlotOf(f, j) \notin GoneNow
    BY <1>1, BeyondTip
  <2>2. Stored(setup.start, elements, dequeued, blk, PresentNow, GoneNow)
    BY DEF Settled
  <2> QED
    BY <1>1, <1>5, <1>6, <1>7, <2>1, <2>2, StoredWith
<1>9. Owned(setup.blocks, pool \ {b}, Loose(w, w, chy), by, deq)
  <2>1. Loose(w, w, chy) = Loose(w, w, ch)
    <3>1. w + 1 .. w = {}
      BY <1>1
    <3> QED
      BY <3>1 DEF Loose
  <2>2. Owned(setup.blocks, pool, Loose(w, w, ch), blk, deq)
    BY <1>1 DEF Settled
  <2> QED
    BY <1>1, <2>1, <2>2, OwnTaken
<1>10. /\ Indexed(sl, entry, z, num, f, blk, w, setup.start, setup.indexSize)
       /\ Headers(sl, entry, z, setup.indexSize) /\ num \in [0 .. Size(sl) - 1 -> Int]
       /\ Fronts(index, z, f, setup.indexSize) /\ Occupied(sl, entry, z, blk, {Here(sl, z, f)})
  BY <1>1, <1>4 DEF Settled, Indexed, Keys, Marked, Unsettled
<1>11. /\ Indexed(sl, ey, z, num, f, by, w, setup.start, setup.indexSize)
       /\ Occupied(sl, ey, z, by, {})
  BY <1>1, <1>5, <1>7, <1>10, IndexWith
<1>12. Marked(enq'.pc, sl, ey, z, num, f, by)
  BY <1>2, <1>11 DEF Marked, Unsettled
<1>13. Consuming(setup.start, deq, sl, ey, z, num, by, GoneNow)
  <2>1. SameBelow(w, blk, by, sl, z, sl, z)
    <3>1. /\ DOMAIN by = DOMAIN blk \cup {f}
          /\ \A m \in DOMAIN blk : by[m] = blk[m]
      BY <1>1 DEF With
    <3>2. \A m \in DOMAIN by : m \in Int /\ (m <= w => m \in DOMAIN blk)
      BY <1>1, <3>1
    <3>3. \A m \in DOMAIN blk : m \in DOMAIN by /\ by[m] = blk[m]
      BY <3>1
    <3> QED
      BY <3>2, <3>3, HeaderFacts DEF SameBelow
  <2>2. NoLess(w, sl, entry, num, ey, num)
    <3>1. \A x \in 0 .. Size(sl) - 1 : num[x] \in Int /\ num[x] <= num[x]
      BY <1>10
    <3>2. b \in Block \cup {Nil}
      BY <1>7
    <3>3. \A x \in 0 .. Size(sl) - 1 : Valid(ey, x) <=> Valid(entry, x)
      BY <1>1, <1>5, <1>10, <3>2, FrontValue
    <3> QED
      BY <3>1, <3>3 DEF NoLess
  <2> QED
    BY <1>1, <1>4, <2>1, <2>2, ConsumeGrown
<1>14. HeadNo' = HeadNo
  BY <1>3 DEF HeadNo, Off, Minus
<1>15. PresentNow' = PresentNow /\ GoneNow' = GoneNow
  BY <1>1, <1>2, <1>3, <1>14 DEF PresentNow, GoneNow
<1>16. Shared(setup.start, deq, HeadNo) /\ Rings(index') = sl /\ Rings(index)' = sl
  BY <1>3, <1>4 DEF Settled, Rings
<1>17. next' \in [Block -> BlockOrNil]
  BY <1>2 DEF Producing
<1> QED
  BY <1>1, <1>2, <1>3, <1>5, <1>8, <1>9, <1>10, <1>11, <1>12, <1>13, <1>14, <1>15, <1>16 DEF Settled

LEMMA TakeKeeps ==
  ASSUME Counted, InOrder, NEW z, NEW num, NEW f, NEW blk, NEW t, NEW w, NEW ch,
         Settled(z, num, f, blk, t, w, ch), Implicit!TakeBlock
  PROVE  \E g, by, ty, chy : Settled(z, num, g, by, ty, w, chy)'
<1>1. CASE pool = {}
  <2>1. PICK g : g = f - 1
    OBVIOUS
  <2>2. Settled(z, num, g, blk, t, w, ch)'
    BY <1>1, <2>1, NoneKeeps
  <2> QED
    BY <2>2
<1>2. CASE pool # {}
  <2>1. PICK b \in pool : pool' = pool \ {b}
    BY <1>2 DEF Implicit!TakeBlock
  <2>2. PICK by, chy : by = With(blk, f, b) /\ chy = With(ch, f, b)
    OBVIOUS
  <2>3. Settled(z, num, f, by, f, w, chy)'
    BY <1>2, <2>1, <2>2, TakenKeeps
  <2> QED
    BY <2>3
<1> QED
  BY <1>1, <1>2

=============================================================================
