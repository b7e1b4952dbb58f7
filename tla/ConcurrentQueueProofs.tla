----------------------- MODULE ConcurrentQueueProofs -----------------------
(* Theorems about ConcurrentQueue, for any threads, tokens, producers,     *)
(* hash functions, table sizes and memory.                                 *)
EXTENDS ConcurrentQueue, FiniteSetTheorems, SequenceTheorems, TLAPS

(* Where a thread may be.                                                  *)
AddPcs == {"fetch_add", "link", "push"}
ListPcs == {"scan", "grab", "create"} \cup AddPcs
ResizePcs == {"load", "resize", "allocate", "clear", "room"}
QuietPcs == {"idle", "score", "best", "reload", "rest", "false", "check", "tail", "count",
             "offset", "current", "rotate", "reset", "turn"}

(* The callers of recycle_or_create_producer.                              *)
Back == [pc : {"register"}, token : Token] \cup [pc : {"new"}, main : Nat]

FrameOK(f) ==
  \/ f.pc \in QuietPcs /\ "pc" \in DOMAIN f
  \/ /\ f \in [pc : ListPcs, ptr : ProducerOrNil, explicit : BOOLEAN, back : Back]
     /\ f.pc \in AddPcs \cup {"grab"} => f.ptr \in Producer
     /\ f.explicit <=> f.back.pc = "register"
  \/ /\ f \in [producer : ProducerOrNil, recycled : BOOLEAN, back : Back,
               pc : {"register", "new"}]
     /\ f.pc = f.back.pc
  \/ f \in [pc : {"deactivate"}, producer : Producer]
  \/ f \in [pc : {"probe"}, main : Nat, table : Nat, index : Nat]
  \/ f \in [pc : {"insert"}, main : Nat, producer : Producer, index : Nat]
  \/ f \in [pc : {"got"}, producer : ProducerOrNil]
  \/ f \in [pc : {"add"}, main : Nat]
  \/ f \in [pc : ResizePcs, main : Nat, count : Int]
  \/ f = [pc |-> "giveup"]

VarsTyped ==
  /\ setup \in Setups
  /\ producerListTail \in ProducerOrNil /\ next \in [Producer -> ProducerOrNil]
  /\ producerCount \in Nat
  /\ isExplicit \in [Producer -> BOOLEAN] /\ inactive \in [Producer -> BOOLEAN]
  /\ token \in [Producer -> Token \cup {Nil}] /\ unborn \subseteq setup.producers
  /\ implicitProducerHashCount \in Int
  /\ implicitProducerHashResizeInProgress \in BOOLEAN
  /\ tokenProducer \in [Token -> ProducerOrNil] /\ alive \in BOOLEAN

Typed ==
  /\ VarsTyped
  /\ call = [t \in Thread |-> call[t]] /\ \A t \in Thread : FrameOK(call[t])
  /\ ~alive => Idle

-----------------------------------------------------------------------------
(* The tables: each has a slot, and those that a thread works in exist.    *)
Slots(k) == 0 .. capacity(k) - 1
AllTables == {implicitProducerHash[k] : k \in 1 .. Newest}
MainsExist(f) ==
  /\ f.pc \in {"probe", "insert", "add"} \cup ResizePcs => f.main \in 1 .. Newest
  /\ f.pc \in ListPcs \cup {"new"} /\ f.back.pc = "new" => f.back.main \in 1 .. Newest
TablesOK ==
  /\ implicitProducerHash \in Seq(AllTables) /\ Newest > 0
  /\ \A k \in 1 .. Newest :
       capacity(k) \in Nat \ {0} /\ implicitProducerHash[k] \in [Slots(k) -> Entry]
  /\ \A t \in Thread : MainsExist(call[t])

(* The slots from the first, at which the search for an id begins, up to   *)
(* the one before i.                                                       *)
Walked(first, i, n) == IF first <= i THEN first .. i - 1 ELSE (first .. n - 1) \cup (0 .. i - 1)
Key(k, i) == implicitProducerHash[k][i].key
Before(t, k, i) == Walked(FirstSlot(t, k), i, capacity(k))
HasKey(t, k) == \E i \in Slots(k) : Key(k, i) = t
Unknown(t) == \A k \in 1 .. Newest : ~HasKey(t, k)

(* An id is never behind a free slot, so that the search for it ends at    *)
(* its slot; it has one slot in a table, and one producer in all.          *)
Reachable ==
  /\ \A k \in 1 .. Newest : \A i \in Slots(k) :
       Key(k, i) # Nil => /\ implicitProducerHash[k][i].value \in Producer
                          /\ \A j \in Before(Key(k, i), k, i) : Key(k, j) # Nil
  /\ \A k \in 1 .. Newest : \A i, j \in Slots(k) :
       Key(k, i) = Key(k, j) /\ Key(k, i) # Nil => i = j
  /\ \A k, l \in 1 .. Newest : \A i \in Slots(k), j \in Slots(l) :
       Key(k, i) = Key(l, j) /\ Key(k, i) # Nil =>
         implicitProducerHash[k][i].value = implicitProducerHash[l][j].value

(* All entries of t have producer p.                                       *)
OnlyWith(t, p) ==
  \A k \in 1 .. Newest : \A i \in Slots(k) :
    Key(k, i) = t => implicitProducerHash[k][i].value = p

(* What a thread knows: a search has passed by slots with other ids, and   *)
(* the tables before have no entry; a thread that makes a producer has no  *)
(* entry in any table.                                                     *)
Searched(t, f) ==
  /\ f.pc = "probe" =>
       /\ f.table \in 1 .. f.main /\ f.index \in Slots(f.table)
       /\ \A k \in 1 .. Newest : k > f.table => ~HasKey(t, k)
       /\ \A j \in Before(t, f.table, f.index) : Key(f.table, j) \notin {Nil, t}
  /\ f.pc = "insert" =>
       /\ f.index \in Slots(f.main)
       /\ ~HasKey(t, f.main)
       /\ \A j \in Before(t, f.main, f.index) : Key(f.main, j) # Nil
       /\ OnlyWith(t, f.producer)
  /\ f.pc = "got" /\ f.producer # Nil =>
       OnlyWith(t, f.producer) /\ \E k \in 1 .. Newest : HasKey(t, k)
  /\ f.pc \in {"add", "giveup"} \cup ResizePcs => Unknown(t)
  /\ f.pc \in ListPcs \cup {"new"} /\ f.back.pc = "new" => Unknown(t)

HashOK == TablesOK /\ Reachable /\ \A t \in Thread : Searched(t, call[t])

-----------------------------------------------------------------------------
(* A producer is one thread's: it adds it to the list, has it in hand, or  *)
(* entered it under its id.                                                *)
Adds(t, p) == call[t].pc \in AddPcs /\ call[t].ptr = p
Has(t, p) ==
  call[t].pc \in {"register", "new", "deactivate", "insert", "got"} /\ call[t].producer = p
Entered(t, p) ==
  \E k \in 1 .. Newest : \E i \in Slots(k) :
    implicitProducerHash[k][i] = [key |-> t, value |-> p]
Mine(t, p) == Adds(t, p) \/ Has(t, p) \/ Entered(t, p)

(* Or a token's, or on the list and free, or not created.                  *)
Owned ==
  /\ \A t, u \in Thread, p \in Producer : Mine(t, p) /\ Mine(u, p) => t = u
  /\ \A t \in Thread, p \in Producer : Mine(t, p) =>
       p \notin unborn /\ ~inactive[p] /\ token[p] = Nil /\ \A k \in Token : tokenProducer[k] # p
  /\ \A p \in Producer : inactive[p] \/ p \in unborn =>
       /\ token[p] = Nil /\ \A k \in Token : tokenProducer[k] # p
       /\ inactive[p] => p \in Listed /\ isExplicit[p] /\ p \notin unborn
  /\ \A k \in Token : Valid(k) =>
       LET p == tokenProducer[k] IN
         alive /\ token[p] = k /\ isExplicit[p] /\ p \in Listed
  /\ \A p \in Producer : alive /\ token[p] # Nil => tokenProducer[token[p]] = p

(* Implicit producers go with ids, explicit ones with tokens; recycled are *)
(* the explicit ones alone.                                                *)
Kinds ==
  /\ \A t \in Thread, p \in Producer :
       /\ Adds(t, p) => (isExplicit[p] <=> call[t].explicit)
       /\ Has(t, p) => /\ isExplicit[p] <=> call[t].pc \in {"register", "deactivate"}
                       /\ isExplicit[p] => p \in Listed
       /\ Entered(t, p) => ~isExplicit[p]
  /\ \A t \in Thread : LET f == call[t] IN
       /\ f.pc = "grab" => f.ptr \notin unborn /\ isExplicit[f.ptr] /\ f.explicit
       /\ f.pc = "new" => ~f.recycled
       /\ f.pc \in ListPcs \cup {"register"} /\ f.back.pc = "register" =>
            tokenProducer[f.back.token] = Nil /\ setup.owner[f.back.token] = t

(* The list has the producers that were added, and no one that is about to *)
(* be: none is lost.                                                       *)
InitiallyListed == {setup.listed[i] : i \in DOMAIN setup.listed}
ListOK ==
  \A p \in Producer :
    /\ \A t \in Thread : Adds(t, p) => p \notin Listed
    /\ p \in Listed \/ (\E t \in Thread : Adds(t, p))
         <=> p \in (setup.producers \ unborn) \cup InitiallyListed

IInv == Typed /\ HashOK /\ Owned /\ Kinds /\ ListOK

-----------------------------------------------------------------------------
(* The steps of consumers, and whatever leaves the list, the tables and    *)
(* the tokens alone.                                                       *)
QuietStep ==
  /\ UNCHANGED <<fixed, rest>>
  /\ \/ UNCHANGED call
     \/ \E t \in Thread : \E f :
          /\ alive \/ ~At(t, "idle")
          /\ call[t].pc \in QuietPcs /\ f.pc \in QuietPcs /\ "pc" \in DOMAIN f
          /\ Go(t, f)

LEMMA CallTyped == Typed => /\ call = [t \in Thread |-> call[t]]
                            /\ \A f : \A t \in Thread : Go(t, f) => call'[t] = f
  BY DEF Typed, Go

LEMMA FrameHasPc == \A f : FrameOK(f) => "pc" \in DOMAIN f
  BY DEF FrameOK

LEMMA QuietIntro ==
  ASSUME Typed, UNCHANGED <<fixed, rest>>, NEW t \in Thread, NEW f,
         alive \/ ~At(t, "idle"), call[t].pc \in QuietPcs,
         f.pc \in QuietPcs, "pc" \in DOMAIN f, Go(t, f)
  PROVE  QuietStep
  BY CallTyped DEF QuietStep

LEMMA ScoredQuiet ==
  \A f : f.pc \in QuietPcs /\ "pc" \in DOMAIN f =>
    Scored(f).pc \in QuietPcs /\ "pc" \in DOMAIN Scored(f)
  BY DEF Scored, False, QuietPcs
LEMMA AlongQuiet ==
  \A f : f.pc \in QuietPcs /\ "pc" \in DOMAIN f =>
    Along(f).pc \in QuietPcs /\ "pc" \in DOMAIN Along(f)
  BY DEF Along, False, NoCall, QuietPcs
LEMMA AroundQuiet ==
  \A f, c : f.pc \in QuietPcs /\ "pc" \in DOMAIN f =>
    Around(f, c).pc \in QuietPcs /\ "pc" \in DOMAIN Around(f, c)
  BY DEF Around, False, NoCall, QuietPcs
LEMMA FromTailQuiet ==
  \A p, m : FromTail(p, m).pc \in QuietPcs /\ "pc" \in DOMAIN FromTail(p, m)
  BY AlongQuiet DEF FromTail, QuietPcs

LEMMA DequeueStepsQuiet ==
  ASSUME Typed, NEW t \in Thread, DequeueStep(t), UNCHANGED rest
  PROVE  QuietStep
<1> DEFINE c == call[t]
<1>0. c.pc \in QuietPcs => "pc" \in DOMAIN c
  BY FrameHasPc DEF Typed
<1>1. CASE Score(t)
  <2>1. /\ At(t, "score") /\ UNCHANGED fixed
        /\ \E g : /\ Go(t, Scored([c EXCEPT !.ptr = next[c.ptr],
                                             !.nonEmptyCount = g[1],
                                             !.best = g[2], !.bestSize = g[3]]))
    <3> DEFINE better == size[c.ptr] > c.bestSize
               g == <<IF size[c.ptr] > 0 THEN c.nonEmptyCount + 1 ELSE c.nonEmptyCount,
                      IF better THEN c.ptr ELSE c.best,
                      IF better THEN size[c.ptr] ELSE c.bestSize>>
    <3>1. Go(t, Scored([c EXCEPT !.ptr = next[c.ptr], !.nonEmptyCount = g[1],
                                 !.best = g[2], !.bestSize = g[3]]))
      BY <1>1 DEF Score
    <3> QED
      BY <1>1, <3>1 DEF Score
  <2>2. PICK g : Go(t, Scored([c EXCEPT !.ptr = next[c.ptr], !.nonEmptyCount = g[1],
                                        !.best = g[2], !.bestSize = g[3]]))
    BY <2>1
  <2> DEFINE f == [c EXCEPT !.ptr = next[c.ptr], !.nonEmptyCount = g[1],
                            !.best = g[2], !.bestSize = g[3]]
  <2>3. f.pc = "score" /\ "pc" \in DOMAIN f
    BY <1>0, <2>1 DEF At, QuietPcs
  <2> HIDE DEF f
  <2>4. Scored(f).pc \in QuietPcs /\ "pc" \in DOMAIN Scored(f)
    BY <2>3, ScoredQuiet DEF QuietPcs
  <2> QED
    BY <2>1, <2>2, <2>4, QuietIntro DEF At, QuietPcs, f
<1>2. CASE DequeueBest(t)
  <2>1. At(t, "best") /\ UNCHANGED fixed
        /\ (Go(t, NoCall) \/ Go(t, [pc |-> "reload", best |-> c.best]))
    BY <1>2 DEF DequeueBest, Take
  <2> QED
    BY <2>1, QuietIntro DEF At, QuietPcs, NoCall
<1>3. CASE Reload(t)
  <2>1. At(t, "reload") /\ UNCHANGED fixed /\ Go(t, FromTail(c.best, 1))
    BY <1>3 DEF Reload
  <2> QED
    BY <2>1, FromTailQuiet, QuietIntro DEF At, QuietPcs
<1>4. CASE DequeueRest(t)
  <2>1. /\ At(t, "rest") /\ UNCHANGED fixed
        /\ \E n : Go(t, Along([c EXCEPT !.count = n, !.ptr = next[c.ptr]]))
    <3> DEFINE n == IF c.ptr = c.skip THEN 0 ELSE Available(c.ptr, c.max - c.count)
    <3>1. Go(t, Along([c EXCEPT !.count = c.count + n, !.ptr = next[c.ptr]]))
      BY <1>4 DEF DequeueRest, Take
    <3> QED
      BY <1>4, <3>1 DEF DequeueRest
  <2>2. PICK n : Go(t, Along([c EXCEPT !.count = n, !.ptr = next[c.ptr]]))
    BY <2>1
  <2> DEFINE f == [c EXCEPT !.count = n, !.ptr = next[c.ptr]]
  <2>3. f.pc = "rest" /\ "pc" \in DOMAIN f
    BY <1>0, <2>1 DEF At, QuietPcs
  <2> HIDE DEF f
  <2>4. Along(f).pc \in QuietPcs /\ "pc" \in DOMAIN Along(f)
    BY <2>3, AlongQuiet DEF QuietPcs
  <2> QED
    BY <2>1, <2>2, <2>4, QuietIntro DEF At, QuietPcs, f
<1>5. CASE CheckOffset(t)
  <2>1. /\ At(t, "check") /\ UNCHANGED fixed
        /\ \/ Go(t, [c EXCEPT !.pc = "tail"])
           \/ Go(t, [c EXCEPT !.pc = "current"])
    BY <1>5 DEF CheckOffset
  <2>2. /\ [c EXCEPT !.pc = "tail"].pc = "tail" /\ "pc" \in DOMAIN [c EXCEPT !.pc = "tail"]
        /\ [c EXCEPT !.pc = "current"].pc = "current"
        /\ "pc" \in DOMAIN [c EXCEPT !.pc = "current"]
    BY <1>0, <2>1 DEF At, QuietPcs
  <2> QED
    BY <2>1, <2>2, QuietIntro DEF At, QuietPcs
<1>6. CASE LoadList(t)
  <2>1. /\ c.pc \in {"tail", "count"} /\ UNCHANGED fixed
        /\ \E f \in {False, Going(t, "count", producerListTail, 0),
                     Going(t, "offset", c.tail, producerCount)} : Go(t, f)
    BY <1>6 DEF LoadList, At
  <2> QED
    BY <2>1, QuietIntro DEF At, QuietPcs, False, Going
<1>7. CASE Update(t)
  <2>1. /\ At(t, "offset") /\ UNCHANGED fixed
        /\ Go(t, [pc |-> "current", max |-> c.max, bulk |-> c.bulk])
    BY <1>7 DEF Update
  <2> QED
    BY <2>1, QuietIntro DEF At, QuietPcs
<1>8. CASE DequeueCurrent(t)
  <2>1. /\ At(t, "current") /\ UNCHANGED fixed
        /\ \E n, m : \E f \in {[pc |-> "reset", max |-> n, count |-> m], [pc |-> "rotate"],
                               NoCall} : Go(t, f)
    BY <1>8 DEF DequeueCurrent, Take
  <2> QED
    BY <2>1, QuietIntro DEF At, QuietPcs, NoCall
<1>9. CASE Rotate(t) \/ ReturnFalse(t)
  <2>1. c.pc \in {"rotate", "false"} /\ UNCHANGED fixed /\ Go(t, NoCall)
    BY <1>9 DEF Rotate, ReturnFalse, At
  <2> QED
    BY <2>1, QuietIntro DEF At, QuietPcs, NoCall
<1>10. CASE ResetTail(t)
  <2>1. /\ At(t, "reset") /\ UNCHANGED fixed
        /\ \E p, q : Go(t, Around([pc |-> "turn", max |-> c.max, count |-> c.count,
                                   tail |-> producerListTail, ptr |-> q], p))
    BY <1>10 DEF ResetTail
  <2>2. PICK p, q : Go(t, Around([pc |-> "turn", max |-> c.max, count |-> c.count,
                                  tail |-> producerListTail, ptr |-> q], p))
    BY <2>1
  <2> QED
    BY <2>1, <2>2, AroundQuiet, QuietIntro DEF At, QuietPcs
<1>11. CASE DequeueTurn(t)
  <2>1. /\ At(t, "turn") /\ UNCHANGED fixed
        /\ \/ Go(t, NoCall)
           \/ \E m, n, q, p : Go(t, Around([c EXCEPT !.max = m, !.count = n, !.ptr = q], p))
    <3> DEFINE n == Available(c.ptr, c.max)
               d == IF n = 0 THEN consumer[t]
                    ELSE [consumer[t] EXCEPT !.currentProducer = c.ptr,
                                             !.itemsConsumedFromCurrent = n]
    <3>1. \/ Go(t, NoCall)
          \/ Go(t, Around([c EXCEPT !.max = c.max - n, !.count = c.count + n,
                                    !.ptr = After(c.ptr, c.tail)], d.currentProducer))
      BY <1>11 DEF DequeueTurn, Take
    <3> HIDE DEF n, d
    <3> QED
      BY <1>11, <3>1 DEF DequeueTurn
  <2>2. CASE Go(t, NoCall)
    BY <2>1, <2>2, QuietIntro DEF At, QuietPcs, NoCall
  <2>3. CASE \E m, n, q, p : Go(t, Around([c EXCEPT !.max = m, !.count = n, !.ptr = q], p))
    <3>1. PICK m, n, q, p : Go(t, Around([c EXCEPT !.max = m, !.count = n, !.ptr = q], p))
      BY <2>3
    <3> DEFINE f == [c EXCEPT !.max = m, !.count = n, !.ptr = q]
    <3>2. f.pc = "turn" /\ "pc" \in DOMAIN f
      BY <1>0, <2>1 DEF At, QuietPcs
    <3> HIDE DEF f
    <3>3. Around(f, p).pc \in QuietPcs /\ "pc" \in DOMAIN Around(f, p)
      BY <3>2, AroundQuiet DEF QuietPcs
    <3> QED
      BY <2>1, <3>1, <3>3, QuietIntro DEF At, QuietPcs, f
  <2> QED
    BY <2>1, <2>2, <2>3
<1> QED
  BY <1>1, <1>2, <1>3, <1>4, <1>5, <1>6, <1>7, <1>8, <1>9, <1>10, <1>11 DEF DequeueStep

LEMMA CallsQuiet ==
  ASSUME Typed, alive, NEW t \in Thread, UNCHANGED rest,
         Dequeue(t) \/ DequeueWithToken(t) \/ CreateConsumer(t)
  PROVE  QuietStep
<1>1. CASE TryDequeue(t)
  <2>1. /\ At(t, "idle") /\ UNCHANGED fixed
        /\ Go(t, Scored([pc |-> "score", ptr |-> producerListTail, nonEmptyCount |-> 0,
                         best |-> Nil, bestSize |-> 0]))
    BY <1>1 DEF TryDequeue, Begin
  <2> QED
    BY <2>1, ScoredQuiet, QuietIntro DEF At, QuietPcs
<1>2. CASE \E max \in setup.bulk : TryDequeueAlong(t, max)
  <2>1. PICK max : TryDequeueAlong(t, max)
    BY <1>2
  <2>2. At(t, "idle") /\ UNCHANGED fixed /\ Go(t, FromTail(Nil, max))
    BY <2>1 DEF TryDequeueAlong, Begin
  <2> QED
    BY <2>2, FromTailQuiet, QuietIntro DEF At, QuietPcs
<1>3. CASE DequeueWithToken(t)
  <2>1. PICK max, bulk : TryDequeueToken(t, max, bulk)
    BY <1>3 DEF DequeueWithToken
  <2>2. At(t, "idle") /\ UNCHANGED fixed /\ Go(t, [pc |-> "check", max |-> max, bulk |-> bulk])
    BY <2>1 DEF TryDequeueToken, Begin
  <2> QED
    BY <2>2, QuietIntro DEF At, QuietPcs
<1>4. CASE CreateConsumer(t)
  BY <1>4 DEF CreateConsumer, QuietStep
<1> QED
  BY <1>1, <1>2, <1>3, <1>4 DEF Dequeue

LEMMA TokenCallsQuiet ==
  ASSUME Typed, alive, NEW t \in Thread, NEW k \in Token, NEW n,
         EnqueueToken(t, k, n) \/ TryDequeueFromProducer(t, k, n)
  PROVE  QuietStep
<1>1. CASE EnqueueToken(t, k, n)
  BY <1>1 DEF EnqueueToken, QuietStep
<1>2. CASE TryDequeueFromProducer(t, k, n)
  <2>1. At(t, "idle") /\ UNCHANGED <<fixed, rest>> /\ Go(t, NoCall)
    BY <1>2 DEF TryDequeueFromProducer, Take, Owns
  <2> QED
    BY <2>1, QuietIntro DEF At, QuietPcs, NoCall
<1> QED
  BY <1>1, <1>2

-----------------------------------------------------------------------------
(* Types.                                                                  *)
LEMMA FrameShapes ==
  \A f : FrameOK(f) =>
    /\ f.pc \in ListPcs =>
         /\ f \in [pc : ListPcs, ptr : ProducerOrNil, explicit : BOOLEAN, back : Back]
         /\ f.pc \in AddPcs \cup {"grab"} => f.ptr \in Producer
         /\ f.explicit <=> f.back.pc = "register"
    /\ f.pc \in {"register", "new"} =>
         /\ f \in [producer : ProducerOrNil, recycled : BOOLEAN, back : Back,
                   pc : {"register", "new"}]
         /\ f.pc = f.back.pc
    /\ f.pc = "deactivate" => f \in [pc : {"deactivate"}, producer : Producer]
    /\ f.pc = "probe" => f \in [pc : {"probe"}, main : Nat, table : Nat, index : Nat]
    /\ f.pc = "insert" => f \in [pc : {"insert"}, main : Nat, producer : Producer, index : Nat]
    /\ f.pc = "got" => f \in [pc : {"got"}, producer : ProducerOrNil]
    /\ f.pc = "add" => f \in [pc : {"add"}, main : Nat]
    /\ f.pc \in ResizePcs => f \in [pc : ResizePcs, main : Nat, count : Int]
  BY DEF FrameOK, ListPcs, AddPcs, ResizePcs, QuietPcs

LEMMA BackShape ==
  \A b \in Back : /\ b.pc = "register" => b.token \in Token
                  /\ b.pc = "new" => b.main \in Nat
                  /\ b.pc \in {"register", "new"}
  BY DEF Back

LEMMA CalledAlive == Typed => \A t \in Thread : ~At(t, "idle") => alive
  BY DEF Typed, Idle

LEMMA GoTyped ==
  ASSUME Typed, NEW t \in Thread, NEW f, FrameOK(f), Go(t, f), alive' = alive, alive,
         VarsTyped'
  PROVE  Typed'
  BY DEF Typed, Go

LEMMA ListStepTyped ==
  ASSUME Typed, NEW t \in Thread, ListStep(t),
         UNCHANGED <<setup, hashes, content, rotation, rest>>
  PROVE  Typed'
<1> DEFINE c == call[t]
<1>1. /\ c.pc \in ListPcs => /\ c \in [pc : ListPcs, ptr : ProducerOrNil, explicit : BOOLEAN,
                                       back : Back]
                             /\ c.pc \in AddPcs \cup {"grab"} => c.ptr \in Producer
                             /\ c.explicit <=> c.back.pc = "register"
      /\ c.pc \in ListPcs => alive
  BY FrameShapes, CalledAlive DEF Typed, At, ListPcs, AddPcs
<1>2. ASSUME NEW p \in ProducerOrNil, NEW b \in BOOLEAN, c.pc \in ListPcs, Return(t, p, b)
      PROVE  /\ FrameOK([producer |-> p, recycled |-> b, back |-> c.back, pc |-> c.back.pc])
             /\ Go(t, [producer |-> p, recycled |-> b, back |-> c.back, pc |-> c.back.pc])
  BY <1>1, <1>2, BackShape DEF Return, FrameOK
<1>3. CASE Scan(t)
  <2>1. c.pc = "scan" /\ VarsTyped'
    BY <1>3 DEF Scan, At, Typed, VarsTyped, list, states, hashes, rest
  <2>2. next[c.ptr] \in ProducerOrNil \/ c.ptr = Nil
    BY <1>1, <2>1 DEF Typed, VarsTyped, ListPcs, ProducerOrNil
  <2>3. PICK f : Go(t, f) /\ f \in {[c EXCEPT !.pc = "create"], [c EXCEPT !.pc = "grab"],
                                    [c EXCEPT !.ptr = next[c.ptr]]}
                 /\ (c.ptr = Nil => f = [c EXCEPT !.pc = "create"])
    BY <1>3 DEF Scan
  <2>4. FrameOK(f)
    BY <1>1, <2>1, <2>2, <2>3 DEF FrameOK, ListPcs, AddPcs, ProducerOrNil
  <2> QED
    BY <1>1, <2>1, <2>3, <2>4, GoTyped DEF rest, ListPcs
<1>4. CASE Grab(t)
  <2>1. c.pc = "grab" /\ c.ptr \in Producer /\ c.ptr \in ProducerOrNil
        /\ next[c.ptr] \in ProducerOrNil
    BY <1>1, <1>4 DEF Grab, At, Typed, VarsTyped, ListPcs, AddPcs, ProducerOrNil
  <2>2. VarsTyped'
    BY <1>4, <2>1 DEF Grab, Typed, VarsTyped, list, hashes, rest
  <2>3. CASE Return(t, c.ptr, TRUE)
    BY <1>1, <1>2, <2>1, <2>2, <2>3, GoTyped DEF rest, ListPcs
  <2>4. CASE Go(t, [c EXCEPT !.pc = "scan", !.ptr = next[c.ptr]])
    <3>1. FrameOK([c EXCEPT !.pc = "scan", !.ptr = next[c.ptr]])
      BY <1>1, <2>1 DEF FrameOK, ListPcs, AddPcs
    <3> QED
      BY <1>1, <2>1, <2>2, <2>4, <3>1, GoTyped DEF rest, ListPcs
  <2> QED
    BY <1>4, <2>3, <2>4 DEF Grab
<1>5. CASE Create(t)
  <2>1. c.pc = "create"
    BY <1>5 DEF Create, At
  <2>2. CASE unborn = {}
    <3>1. Return(t, Nil, FALSE) /\ VarsTyped'
      BY <1>5, <2>2 DEF Create, Typed, VarsTyped, list, hashes, rest
    <3> QED
      BY <1>1, <1>2, <2>1, <3>1, GoTyped DEF rest, ListPcs, ProducerOrNil
  <2>3. CASE unborn # {}
    <3>1. PICK p \in unborn :
            /\ unborn' = unborn \ {p}
            /\ isExplicit' = [isExplicit EXCEPT ![p] = c.explicit]
            /\ Go(t, [c EXCEPT !.pc = "fetch_add", !.ptr = p])
      BY <1>5, <2>3 DEF Create
    <3>2. p \in Producer
      BY ProducerListAssumption DEF Typed, VarsTyped
    <3>3. VarsTyped'
      BY <1>1, <1>5, <2>1, <3>1, <3>2 DEF Create, Typed, VarsTyped, list, hashes, rest, ListPcs
    <3>4. FrameOK([c EXCEPT !.pc = "fetch_add", !.ptr = p])
      BY <1>1, <2>1, <3>2 DEF FrameOK, ListPcs, AddPcs, ProducerOrNil
    <3> QED
      BY <1>1, <2>1, <3>1, <3>3, <3>4, GoTyped DEF rest, ListPcs
  <2> QED
    BY <2>2, <2>3
<1>6. CASE CountProducer(t)
  <2>1. c.pc = "fetch_add" /\ VarsTyped'
    BY <1>6 DEF CountProducer, At, Typed, VarsTyped, states, hashes, rest
  <2>2. FrameOK([c EXCEPT !.pc = "link"])
    BY <1>1, <2>1 DEF FrameOK, ListPcs, AddPcs
  <2> QED
    BY <1>1, <1>6, <2>1, <2>2, GoTyped DEF CountProducer, rest, ListPcs, AddPcs
<1>7. CASE Link(t)
  <2>1. c.pc = "link" /\ VarsTyped'
    BY <1>7 DEF Link, At, Typed, VarsTyped, states, hashes, rest
  <2>2. FrameOK([c EXCEPT !.pc = "push"])
    BY <1>1, <2>1 DEF FrameOK, ListPcs, AddPcs
  <2> QED
    BY <1>1, <1>7, <2>1, <2>2, GoTyped DEF Link, rest, ListPcs, AddPcs
<1>8. CASE Push(t)
  <2>1. c.pc = "push" /\ c.ptr \in Producer /\ c.ptr \in ProducerOrNil
    BY <1>1, <1>8 DEF Push, At, ListPcs, AddPcs
  <2>2. VarsTyped'
    BY <1>8, <2>1 DEF Push, Typed, VarsTyped, states, hashes, rest
  <2>3. CASE producerListTail = next[c.ptr]
    <3>1. Return(t, c.ptr, FALSE)
      BY <1>8, <2>3 DEF Push
    <3> QED
      BY <1>1, <1>2, <2>1, <2>2, <3>1, GoTyped DEF rest, ListPcs, AddPcs
  <2>4. CASE producerListTail # next[c.ptr]
    BY <1>8, <2>2, <2>4 DEF Push, Typed, Idle, At, rest
  <2> QED
    BY <2>3, <2>4
<1> QED
  BY <1>3, <1>4, <1>5, <1>6, <1>7, <1>8 DEF ListStep

-----------------------------------------------------------------------------
(* Slots.                                                                  *)
LEMMA ModRange == \A h \in Nat, n \in Nat \ {0} : h % n \in 0 .. n - 1
  OBVIOUS
LEMMA NextMod ==
  \A n \in Nat \ {0} : \A i \in 0 .. n - 1 : (i + 1) % n = IF i = n - 1 THEN 0 ELSE i + 1
  OBVIOUS

LEMMA WalkedFacts ==
  ASSUME NEW n \in Nat \ {0}, NEW first \in 0 .. n - 1, NEW i \in 0 .. n - 1
  PROVE  /\ Walked(first, first, n) = {}
         /\ Walked(first, i, n) \subseteq 0 .. n - 1
         /\ i \notin Walked(first, i, n)
         /\ \A j \in 0 .. n - 1 :
              j # i /\ j \notin Walked(first, i, n) => i \in Walked(first, j, n)
         /\ (i + 1) % n \in 0 .. n - 1
         /\ Walked(first, (i + 1) % n, n) \subseteq Walked(first, i, n) \cup {i}
<1>1. (i + 1) % n = IF i = n - 1 THEN 0 ELSE i + 1
  BY NextMod
<1>2. CASE i = n - 1
  BY <1>1, <1>2 DEF Walked
<1>3. CASE i # n - 1
  BY <1>1, <1>3 DEF Walked
<1> QED
  BY <1>2, <1>3

LEMMA TableFacts ==
  ASSUME TablesOK, NEW k \in 1 .. Newest
  PROVE  /\ capacity(k) \in Nat \ {0}
         /\ DOMAIN implicitProducerHash[k] = Slots(k)
         /\ \A i \in Slots(k) : implicitProducerHash[k][i] \in Entry
         /\ \A t \in Thread : FirstSlot(t, k) \in Slots(k)
<1>1. capacity(k) \in Nat \ {0} /\ implicitProducerHash[k] \in [Slots(k) -> Entry]
  BY DEF TablesOK
<1>2. \A t \in Thread : HashOf[t] \in Nat
  BY HashAssumption
<1>3. ASSUME NEW t \in Thread PROVE HashOf[t] % capacity(k) \in 0 .. capacity(k) - 1
  BY <1>1, <1>2, ModRange
<1> QED
  BY <1>1, <1>3 DEF FirstSlot, Slots

LEMMA NewestFacts == TablesOK => Newest \in Nat \ {0} /\ Newest \in 1 .. Newest
<1> SUFFICES ASSUME TablesOK PROVE Newest \in Nat \ {0} /\ Newest \in 1 .. Newest
  OBVIOUS
<1>1. Newest \in Nat /\ Newest > 0
  BY DEF TablesOK, Newest
<1> QED
  BY <1>1

LEMMA BeforeFacts ==
  ASSUME TablesOK, NEW k \in 1 .. Newest, NEW t \in Thread, NEW i \in Slots(k)
  PROVE  /\ Before(t, k, FirstSlot(t, k)) = {}
         /\ Before(t, k, i) \subseteq Slots(k)
         /\ i \notin Before(t, k, i)
         /\ \A j \in Slots(k) : j # i /\ j \notin Before(t, k, i) => i \in Before(t, k, j)
         /\ (i + 1) % capacity(k) \in Slots(k)
         /\ Before(t, k, (i + 1) % capacity(k)) \subseteq Before(t, k, i) \cup {i}
<1>1. PICK n \in Nat \ {0} : n = capacity(k)
  BY TableFacts
<1>2. PICK first \in 0 .. n - 1 : first = FirstSlot(t, k)
  BY <1>1, TableFacts DEF Slots
<1>3. /\ Walked(first, first, n) = {}
      /\ Walked(first, i, n) \subseteq 0 .. n - 1
      /\ i \notin Walked(first, i, n)
      /\ \A j \in 0 .. n - 1 :
           j # i /\ j \notin Walked(first, i, n) => i \in Walked(first, j, n)
      /\ (i + 1) % n \in 0 .. n - 1
      /\ Walked(first, (i + 1) % n, n) \subseteq Walked(first, i, n) \cup {i}
  BY <1>1, WalkedFacts DEF Slots
<1> QED
  BY <1>1, <1>2, <1>3 DEF Before, Slots

(* The smallest of some numbers.                                           *)
LEMMA Smallest ==
  ASSUME NEW S \in SUBSET Nat, S # {}
  PROVE  \E n \in S : \A m \in S : n <= m
<1> DEFINE T == {0 .. n : n \in S}
           R == StrictSubsetOrdering(Nat)
<1>1. T \subseteq FiniteSubsetsOf(Nat) /\ T # {}
  <2>1. ASSUME NEW n \in S PROVE 0 .. n \in FiniteSubsetsOf(Nat)
    <3>1. IsFiniteSet(0 .. n)
      BY FS_Interval
    <3> QED
      BY <3>1 DEF FiniteSubsetsOf
  <2> QED
    BY <2>1
<1> HIDE DEF T
<1>2. PICK x \in T : \A y \in T : <<y, x>> \notin R
  BY <1>1, FS_StrictSubsetOrderingWellFounded, WFMin
<1>3. PICK n \in S : x = 0 .. n
  BY DEF T
<1>4. ASSUME NEW m \in S PROVE n <= m
  <2>1. 0 .. m \in T
    BY DEF T
  <2>2. <<0 .. m, 0 .. n>> \notin R
    BY <1>2, <1>3, <2>1
  <2>3. ~(0 .. m \subseteq 0 .. n /\ 0 .. m # 0 .. n)
    <3> DEFINE q == <<0 .. m, 0 .. n>>
    <3>1. q \in (SUBSET Nat) \X (SUBSET Nat) /\ q[1] = 0 .. m /\ q[2] = 0 .. n
      OBVIOUS
    <3> HIDE DEF q
    <3> QED
      BY <2>2, <3>1 DEF StrictSubsetOrdering, q
  <2>4. CASE m < n
    <3>1. 0 .. m \subseteq 0 .. n /\ n \in 0 .. n /\ n \notin 0 .. m
      BY <2>4
    <3> QED
      BY <2>3, <3>1
  <2> QED
    BY <2>4
<1> QED
  BY <1>4

LEMMA NewCapacity ==
  ASSUME Typed, NEW t \in Thread, Larger(t) # {}
  PROVE  newCapacity(t) \in Larger(t) /\ newCapacity(t) \in Nat \ {0}
<1>1. Larger(t) \subseteq Nat \ {0}
  BY DEF Larger
<1>2. \E n \in Larger(t) : \A m \in Larger(t) : n <= m
  BY <1>1, Smallest
<1>3. newCapacity(t) \in Larger(t)
  BY <1>2 DEF newCapacity
<1> QED
  BY <1>1, <1>3

LEMMA MainsFacts ==
  ASSUME HashOK, NEW t \in Thread
  PROVE  LET c == call[t] IN
         /\ c.pc \in {"probe", "insert", "add"} \cup ResizePcs => c.main \in 1 .. Newest
         /\ c.pc \in ListPcs \cup {"new"} /\ c.back.pc = "new" => c.back.main \in 1 .. Newest
  BY DEF HashOK, TablesOK, MainsExist

LEMMA HashStepTyped ==
  ASSUME Typed, HashOK, NEW t \in Thread, HashStep(t),
         UNCHANGED <<setup, content, rotation, rest>>
  PROVE  Typed'
<1> DEFINE c == call[t]
<1>1. /\ FrameOK(c)
      /\ c.pc = "probe" => c \in [pc : {"probe"}, main : Nat, table : Nat, index : Nat]
      /\ c.pc = "insert" => c \in [pc : {"insert"}, main : Nat, producer : Producer, index : Nat]
      /\ c.pc = "add" => c \in [pc : {"add"}, main : Nat]
      /\ c.pc \in ResizePcs => c \in [pc : ResizePcs, main : Nat, count : Int]
      /\ c.pc = "new" =>
           /\ c \in [producer : ProducerOrNil, recycled : BOOLEAN, back : Back,
                     pc : {"register", "new"}]
           /\ c.pc = c.back.pc
      /\ c.pc # "idle" => alive
  BY FrameShapes, CalledAlive DEF Typed, At
<1>2. TablesOK /\ Newest \in Nat \ {0} /\ Newest \in 1 .. Newest
  BY NewestFacts DEF HashOK
<1>3. /\ \A k \in 1 .. Newest : capacity(k) \in Nat \ {0} /\ Slots(k) \subseteq Nat
      /\ \A k \in 1 .. Newest : FirstSlot(t, k) \in Nat
      /\ \A k \in 1 .. Newest : \A i \in Slots(k) : (i + 1) % capacity(k) \in Nat
  <2>1. ASSUME NEW k \in 1 .. Newest
        PROVE  /\ capacity(k) \in Nat \ {0} /\ Slots(k) \subseteq Nat
               /\ FirstSlot(t, k) \in Nat
               /\ \A i \in Slots(k) : (i + 1) % capacity(k) \in Nat
    BY <1>2, TableFacts, BeforeFacts DEF Slots
  <2> QED
    BY <2>1
<1>4. Searched(t, c)
  BY DEF HashOK
<1>5. CASE Probe(t)
  <2>1. /\ c.pc = "probe" /\ c.main \in 1 .. Newest /\ c.table \in 1 .. Newest
        /\ c.table \in 1 .. c.main /\ c.index \in Slots(c.table)
    <3>1. c.pc = "probe" /\ c.main \in 1 .. Newest
      BY <1>5, MainsFacts DEF Probe, At
    <3>2. c.table \in 1 .. c.main /\ c.index \in Slots(c.table)
      BY <1>4, <3>1 DEF Searched
    <3> QED
      BY <1>2, <3>1, <3>2
  <2>2. VarsTyped'
    BY <1>5 DEF Probe, Typed, VarsTyped, list, states, hashes, rest
  <2> DEFINE e == implicitProducerHash[c.table][c.index]
  <2>3. e.key = t => e.value \in Producer
    BY <1>2, <2>1, ProducerListAssumption DEF HashOK, Reachable, Key
  <2>4. PICK f : /\ Go(t, f)
                 /\ \/ f = [pc |-> "got", producer |-> e.value] /\ e.key = t
                    \/ f = [pc |-> "insert", main |-> c.main, producer |-> e.value,
                            index |-> FirstSlot(t, c.main)] /\ e.key = t
                    \/ f = [c EXCEPT !.index = NextSlot(t, c.table)]
                    \/ c.table > 1 /\ f = [c EXCEPT !.table = c.table - 1,
                                                    !.index = FirstSlot(t, c.table - 1)]
                    \/ f = [pc |-> "add", main |-> c.main]
    BY <1>5 DEF Probe
  <2>5. NextSlot(t, c.table) \in Nat
    BY <1>3, <2>1 DEF NextSlot
  <2>6. c.table > 1 => c.table - 1 \in Nat /\ FirstSlot(t, c.table - 1) \in Nat
    <3>1. c.table > 1 => c.table - 1 \in 1 .. Newest
      BY <1>2, <2>1
    <3> QED
      BY <1>3, <3>1
  <2>7. FirstSlot(t, c.main) \in Nat
    BY <1>3, <2>1
  <2> HIDE DEF e
  <2>8. FrameOK(f)
    <3>1. CASE e.key = t /\ f = [pc |-> "got", producer |-> e.value]
      BY <2>3, <3>1 DEF FrameOK, ProducerOrNil
    <3>2. CASE e.key = t /\ f = [pc |-> "insert", main |-> c.main, producer |-> e.value,
                                 index |-> FirstSlot(t, c.main)]
      BY <2>1, <2>3, <2>7, <3>2 DEF FrameOK
    <3>3. CASE f = [c EXCEPT !.index = NextSlot(t, c.table)]
      BY <1>1, <2>1, <2>5, <3>3 DEF FrameOK
    <3>4. CASE c.table > 1 /\ f = [c EXCEPT !.table = c.table - 1,
                                            !.index = FirstSlot(t, c.table - 1)]
      BY <1>1, <2>1, <2>6, <3>4 DEF FrameOK
    <3>5. CASE f = [pc |-> "add", main |-> c.main]
      BY <2>1, <3>5 DEF FrameOK
    <3> QED
      BY <2>4, <3>1, <3>2, <3>3, <3>4, <3>5
  <2> QED
    BY <1>1, <2>1, <2>2, <2>4, <2>8, GoTyped DEF rest
<1>6. CASE Insert(t)
  <2>1. c.pc = "insert" /\ c.main \in 1 .. Newest /\ c.index \in Slots(c.main)
    BY <1>4, <1>6, MainsFacts DEF Insert, At, Searched
  <2>2. VarsTyped'
    BY <1>6 DEF Insert, Typed, VarsTyped, list, states, rest
  <2>3. PICK f : Go(t, f) /\ f \in {[pc |-> "got", producer |-> c.producer],
                                    [c EXCEPT !.index = NextSlot(t, c.main)]}
    BY <1>6 DEF Insert
  <2>4. NextSlot(t, c.main) \in Nat
    BY <1>3, <2>1 DEF NextSlot
  <2>5. FrameOK(f)
    BY <1>1, <2>1, <2>3, <2>4 DEF FrameOK, ProducerOrNil
  <2> QED
    BY <1>1, <2>1, <2>2, <2>3, <2>5, GoTyped DEF rest
<1>7. CASE Add(t)
  <2>1. c.pc = "add" /\ c.main \in Nat /\ VarsTyped'
    BY <1>1, <1>7 DEF Add, At, Typed, VarsTyped, list, states, rest
  <2>2. Go(t, [pc |-> "load", main |-> c.main, count |-> implicitProducerHashCount + 1])
    BY <1>7 DEF Add
  <2>3. implicitProducerHashCount + 1 \in Int
    BY DEF Typed, VarsTyped
  <2>4. FrameOK([pc |-> "load", main |-> c.main, count |-> implicitProducerHashCount + 1])
    BY <2>1, <2>3 DEF FrameOK, ResizePcs
  <2> QED
    BY <1>1, <2>1, <2>2, <2>4, GoTyped DEF rest
<1>8. ASSUME NEW l \in ResizePcs, NEW m \in Nat, c.pc \in ResizePcs
      PROVE  FrameOK([c EXCEPT !.pc = l]) /\ FrameOK([c EXCEPT !.pc = l, !.main = m])
             /\ FrameOK([c EXCEPT !.main = m, !.pc = l])
  BY <1>1, <1>8 DEF FrameOK, ResizePcs
<1>9. CASE TestAndSet(t)
  <2>1. c.pc = "load" /\ VarsTyped'
    BY <1>9 DEF TestAndSet, At, Typed, VarsTyped, list, states, rest
  <2>2. PICK l \in {"room", "resize"} : Go(t, [c EXCEPT !.pc = l])
    BY <1>9 DEF TestAndSet
  <2> QED
    BY <1>1, <1>8, <2>1, <2>2, GoTyped DEF rest, ResizePcs
<1>10. CASE Resize(t)
  <2>1. c.pc = "resize" /\ VarsTyped'
    BY <1>10 DEF Resize, At, Typed, VarsTyped, list, states, hashes, rest
  <2>2. PICK l \in {"allocate", "clear"} : Go(t, [c EXCEPT !.main = Newest, !.pc = l])
    BY <1>10 DEF Resize
  <2> QED
    BY <1>1, <1>2, <1>8, <2>1, <2>2, GoTyped DEF rest, ResizePcs
<1>11. CASE Allocate(t)
  <2>1. c.pc = "allocate" /\ VarsTyped'
    BY <1>11 DEF Allocate, At, Typed, VarsTyped, list, states, rest
  <2>2. Newest + 1 \in Nat
    BY <1>2
  <2>3. \/ Go(t, [c EXCEPT !.main = Newest + 1, !.pc = "clear"])
        \/ Go(t, [pc |-> "giveup"])
    BY <1>11 DEF Allocate
  <2>4. FrameOK([pc |-> "giveup"])
    BY DEF FrameOK
  <2> QED
    BY <1>1, <1>8, <2>1, <2>2, <2>3, <2>4, GoTyped DEF rest, ResizePcs
<1>12. CASE Clear(t)
  <2>1. c.pc \in {"clear", "giveup"} /\ VarsTyped'
    BY <1>12 DEF Clear, At, Typed, VarsTyped, list, states, rest
  <2>2. \/ Go(t, [pc |-> "got", producer |-> Nil])
        \/ c.pc = "clear" /\ Go(t, [c EXCEPT !.pc = "room"])
    BY <1>12 DEF Clear, At
  <2>3. FrameOK([pc |-> "got", producer |-> Nil])
    BY DEF FrameOK, ProducerOrNil
  <2> QED
    BY <1>1, <1>8, <2>1, <2>2, <2>3, GoTyped DEF rest, ResizePcs
<1>13. CASE Room(t)
  <2>1. c.pc \in {"room", "load"} /\ VarsTyped' /\ c.main \in Nat
    BY <1>1, <1>13 DEF Room, At, Typed, VarsTyped, list, states, hashes, rest, ResizePcs
  <2> DEFINE f == [pc |-> "scan", ptr |-> producerListTail, explicit |-> FALSE,
                   back |-> [pc |-> "new", main |-> c.main]]
  <2>2. Go(t, f) \/ Go(t, [c EXCEPT !.pc = "load", !.main = Newest])
    BY <1>13 DEF Room, RecycleOrCreate
  <2>3. FrameOK(f)
    BY <2>1 DEF FrameOK, Back, ListPcs, AddPcs, Typed, VarsTyped
  <2> HIDE DEF f
  <2> QED
    BY <1>1, <1>2, <1>8, <2>1, <2>2, <2>3, GoTyped DEF rest, ResizePcs
<1>14. CASE New(t)
  <2>1. c.pc = "new" /\ c.back.pc = "new" /\ c.back \in Back /\ c.producer \in ProducerOrNil
    BY <1>1, <1>14 DEF New, At
  <2>2. c.back.main \in 1 .. Newest
    BY <2>1, MainsFacts
  <2>3. VarsTyped'
    BY <1>14 DEF New, Typed, VarsTyped, list, states, rest
  <2>4. \/ Go(t, [pc |-> "got", producer |-> Nil])
        \/ /\ c.producer # Nil
           /\ Go(t, [pc |-> "insert", main |-> c.back.main, producer |-> c.producer,
                     index |-> FirstSlot(t, c.back.main)])
    BY <1>14 DEF New
  <2>5. FrameOK([pc |-> "got", producer |-> Nil])
    BY DEF FrameOK, ProducerOrNil
  <2>6. c.producer # Nil =>
          FrameOK([pc |-> "insert", main |-> c.back.main, producer |-> c.producer,
                   index |-> FirstSlot(t, c.back.main)])
    BY <1>3, <2>1, <2>2 DEF FrameOK, ProducerOrNil
  <2> QED
    BY <1>1, <2>1, <2>3, <2>4, <2>5, <2>6, GoTyped DEF rest
<1> QED
  BY <1>5, <1>6, <1>7, <1>9, <1>10, <1>11, <1>12, <1>13, <1>14 DEF HashStep

LEMMA QuietTyped == Typed /\ QuietStep => Typed'
<1> SUFFICES ASSUME Typed, QuietStep PROVE Typed'
  OBVIOUS
<1>1. VarsTyped' /\ alive' = alive
  BY DEF QuietStep, Typed, VarsTyped, fixed, list, states, hashes, rest
<1>2. CASE UNCHANGED call
  BY <1>1, <1>2 DEF Typed, Idle, At
<1>3. ASSUME NEW t \in Thread, NEW f, alive \/ ~At(t, "idle"), f.pc \in QuietPcs,
             "pc" \in DOMAIN f, Go(t, f)
      PROVE  Typed'
  BY <1>1, <1>3, GoTyped, CalledAlive DEF FrameOK
<1> QED
  BY <1>2, <1>3 DEF QuietStep

(* The calls that take part in the list, the tables and the tokens.        *)
LEMMA TokenStepTyped ==
  ASSUME Typed, HashOK, NEW t \in Thread,
         \/ alive /\ Enqueue(t)
         \/ \E k \in Token : alive /\ (CreateToken(t, k) \/ DestroyToken(t, k))
         \/ \E k, j \in Token : alive /\ SwapTokens(t, k, j)
         \/ EnqueueImplicit(t) \/ Register(t) \/ Deactivate(t)
  PROVE  Typed'
<1> DEFINE c == call[t]
<1>1. /\ c.pc = "got" => c \in [pc : {"got"}, producer : ProducerOrNil]
      /\ c.pc = "deactivate" => c \in [pc : {"deactivate"}, producer : Producer]
      /\ c.pc = "register" =>
           /\ c \in [producer : ProducerOrNil, recycled : BOOLEAN, back : Back,
                     pc : {"register", "new"}]
           /\ c.back.pc = "register"
      /\ c.pc # "idle" => alive
  BY FrameShapes, CalledAlive DEF Typed, At
<1>2. FrameOK(NoCall)
  BY DEF FrameOK, NoCall, QuietPcs
<1>3. CASE alive /\ Enqueue(t)
  <2>1. VarsTyped'
    BY <1>3 DEF Enqueue, Typed, VarsTyped, fixed, list, states, hashes, rest
  <2>2. Newest \in 1 .. Newest /\ Newest \in Nat
    BY NewestFacts DEF HashOK
  <2>3. PICK f : f = [pc |-> "probe", main |-> Newest, table |-> Newest,
                      index |-> FirstSlot(t, Newest)]
    OBVIOUS
  <2>4. Go(t, f)
    BY <1>3, <2>3 DEF Enqueue, GetOrAdd, FirstSlot
  <2>5. FirstSlot(t, Newest) \in Nat
    <3>1. FirstSlot(t, Newest) \in Slots(Newest) /\ capacity(Newest) \in Nat \ {0}
      BY <2>2, TableFacts DEF HashOK
    <3> QED
      BY <3>1 DEF Slots
  <2>6. FrameOK(f)
    BY <2>2, <2>3, <2>5 DEF FrameOK
  <2> QED
    BY <1>3, <2>1, <2>4, <2>6, GoTyped DEF Enqueue, rest
<1>4. ASSUME NEW k \in Token, alive, CreateToken(t, k) PROVE Typed'
  <2>1. VarsTyped'
    BY <1>4 DEF CreateToken, Typed, VarsTyped, fixed, list, states, hashes, rest
  <2> DEFINE f == [pc |-> "scan", ptr |-> producerListTail, explicit |-> TRUE,
                   back |-> [pc |-> "register", token |-> k]]
  <2>2. Go(t, f)
    BY <1>4 DEF CreateToken, RecycleOrCreate
  <2>3. FrameOK(f)
    BY DEF FrameOK, Back, ListPcs, AddPcs, Typed, VarsTyped
  <2> HIDE DEF f
  <2> QED
    BY <1>4, <2>1, <2>2, <2>3, GoTyped DEF CreateToken, rest
<1>5. ASSUME NEW k \in Token, alive, DestroyToken(t, k) PROVE Typed'
  <2>1. tokenProducer[k] \in Producer /\ Nil \in Token \cup {Nil}
    BY <1>5 DEF DestroyToken, Valid, Typed, VarsTyped, ProducerOrNil
  <2>2. VarsTyped' /\ alive' = alive
    BY <1>5, <2>1 DEF DestroyToken, Typed, VarsTyped, list, hashes, ProducerOrNil
  <2>3. Go(t, [pc |-> "deactivate", producer |-> tokenProducer[k]])
    BY <1>5 DEF DestroyToken
  <2>4. FrameOK([pc |-> "deactivate", producer |-> tokenProducer[k]])
    BY <2>1 DEF FrameOK
  <2> QED
    BY <1>5, <2>2, <2>3, <2>4, GoTyped
<1>6. ASSUME NEW k \in Token, NEW j \in Token, alive, SwapTokens(t, k, j) PROVE Typed'
  <2>1. VarsTyped' /\ alive' = alive /\ call' = call
    BY <1>6 DEF SwapTokens, Typed, VarsTyped, list, hashes
  <2> QED
    BY <1>6, <2>1 DEF Typed
<1>7. CASE EnqueueImplicit(t)
  <2>1. c.pc = "got" /\ VarsTyped' /\ Go(t, NoCall) /\ alive' = alive
    BY <1>7 DEF EnqueueImplicit, At, Typed, VarsTyped, fixed, list, states, hashes, rest
  <2> QED
    BY <1>1, <1>2, <2>1, GoTyped
<1>8. CASE Register(t)
  <2>1. c.pc = "register" /\ c.producer \in ProducerOrNil /\ c.back.token \in Token
    BY <1>1, <1>8, BackShape DEF Register, At
  <2>2. VarsTyped' /\ Go(t, NoCall) /\ alive' = alive
    BY <1>8, <2>1 DEF Register, Typed, VarsTyped, list, hashes, ProducerOrNil
  <2> QED
    BY <1>1, <1>2, <2>1, <2>2, GoTyped
<1>9. CASE Deactivate(t)
  <2>1. c.pc = "deactivate" /\ c.producer \in Producer
    BY <1>1, <1>9 DEF Deactivate, At
  <2>2. VarsTyped' /\ Go(t, NoCall) /\ alive' = alive
    BY <1>9, <2>1 DEF Deactivate, Typed, VarsTyped, list, hashes, rest
  <2> QED
    BY <1>1, <1>2, <2>1, <2>2, GoTyped
<1> QED
  BY <1>3, <1>4, <1>5, <1>6, <1>7, <1>8, <1>9

LEMMA DestroyTyped == Typed /\ Destroy => Typed'
<1> SUFFICES ASSUME Typed, Destroy PROVE Typed'
  OBVIOUS
<1>1. VarsTyped'
  BY DEF Destroy, Typed, VarsTyped, list, states, ProducerOrNil
<1>2. call' = call /\ Idle
  BY DEF Destroy
<1> QED
  BY <1>1, <1>2 DEF Typed, Idle, At

(* The ways a step can go: the proofs about a step go by these.            *)
TokenStep(t) ==
  \/ alive /\ Enqueue(t)
  \/ \E k \in Token : alive /\ (CreateToken(t, k) \/ DestroyToken(t, k))
  \/ \E k, j \in Token : alive /\ SwapTokens(t, k, j)
  \/ EnqueueImplicit(t) \/ Register(t) \/ Deactivate(t)

LEMMA NextCases ==
  ASSUME Typed, [Next]_vars
  PROVE  \/ QuietStep
         \/ Destroy
         \/ \E t \in Thread :
              \/ ListStep(t) /\ UNCHANGED <<setup, hashes, content, rotation, rest>>
              \/ HashStep(t) /\ UNCHANGED <<setup, content, rotation, rest>>
              \/ TokenStep(t)
<1>1. CASE UNCHANGED vars
  BY <1>1 DEF vars, QuietStep
<1>2. ASSUME NEW t \in Thread, Call(t) PROVE QuietStep \/ TokenStep(t)
  <2>1. CASE Enqueue(t)
    BY <1>2, <2>1 DEF Call, TokenStep
  <2>2. CASE (Dequeue(t) \/ DequeueWithToken(t) \/ CreateConsumer(t)) /\ UNCHANGED rest
    BY <1>2, <2>2, CallsQuiet DEF Call
  <2>3. CASE UseToken(t)
    <3>1. PICK k \in Token :
            \/ CreateToken(t, k) \/ DestroyToken(t, k)
            \/ \E n \in setup.bulk : EnqueueToken(t, k, n) \/ TryDequeueFromProducer(t, k, n)
            \/ \E j \in Token : SwapTokens(t, k, j)
      BY <2>3 DEF UseToken
    <3>2. alive
      BY <1>2 DEF Call
    <3>3. CASE \E n \in setup.bulk : EnqueueToken(t, k, n) \/ TryDequeueFromProducer(t, k, n)
      BY <3>2, <3>3, TokenCallsQuiet
    <3> QED
      BY <3>1, <3>2, <3>3 DEF TokenStep
  <2> QED
    BY <1>2, <2>1, <2>2, <2>3 DEF Call
<1>3. ASSUME NEW t \in Thread, DequeueStep(t), UNCHANGED rest PROVE QuietStep
  BY <1>3, DequeueStepsQuiet
<1> QED
  BY <1>1, <1>2, <1>3 DEF Next, Step, TokenStep

LEMMA NextTyped == Typed /\ HashOK /\ [Next]_vars => Typed'
<1> SUFFICES ASSUME Typed, HashOK, [Next]_vars PROVE Typed'
  OBVIOUS
<1>1. ASSUME NEW t \in Thread, TokenStep(t) PROVE Typed'
  BY <1>1, TokenStepTyped DEF TokenStep
<1> QED
  BY <1>1, NextCases, QuietTyped, DestroyTyped, ListStepTyped, HashStepTyped

-----------------------------------------------------------------------------
(* The tables of the threads' ids.                                         *)
LEMMA HashesKept ==
  ASSUME Typed, HashOK, implicitProducerHash' = implicitProducerHash,
         NEW t \in Thread, NEW f, Go(t, f), MainsExist(f), Searched(t, f)
  PROVE  HashOK'
<1>1. /\ call'[t] = f /\ \A u \in Thread \ {t} : call'[u] = call[u]
      /\ implicitProducerHash' = implicitProducerHash
  BY DEF Typed, Go
<1>2. Reachable'
  BY <1>1 DEF HashOK, Reachable, Key, Slots, Before, FirstSlot, capacity, Newest
<1>5. ASSUME NEW u \in Thread PROVE MainsExist(call[u])' /\ Searched(u, call[u])'
  <2>1. PICK g : g = call'[u] /\ MainsExist(g) /\ Searched(u, g)
    BY <1>1 DEF HashOK, TablesOK
  <2>2. MainsExist(call[u])'
    BY <1>1, <2>1 DEF MainsExist, Newest
  <2>3. Searched(u, call[u])'
    BY <1>1, <2>1 DEF Searched, Key, Slots, Before, FirstSlot, capacity, Newest, HasKey,
                      OnlyWith, Unknown
  <2> QED
    BY <2>2, <2>3
<1>6. TablesOK'
  BY <1>1, <1>5 DEF HashOK, TablesOK, AllTables, Slots, capacity, Newest
<1> QED
  BY <1>2, <1>5, <1>6 DEF HashOK

(* Entering an id into a free slot that its search reaches.                *)
LEMMA InsertHash ==
  ASSUME Typed, HashOK, NEW t \in Thread, At(t, "insert"),
         Key(call[t].main, call[t].index) = Nil,
         implicitProducerHash' = [implicitProducerHash EXCEPT
           ![call[t].main][call[t].index] = [key |-> t, value |-> call[t].producer]],
         Go(t, [pc |-> "got", producer |-> call[t].producer])
  PROVE  HashOK'
<1>0. PICK m \in 1 .. Newest, x \in Slots(call[t].main), p \in Producer :
        /\ m = call[t].main /\ x = call[t].index /\ p = call[t].producer
        /\ x \in Slots(m)
        /\ ~HasKey(t, m)
        /\ \A j \in Before(t, m, x) : Key(m, j) # Nil
        /\ OnlyWith(t, p)
  <2>1. call[t].main \in 1 .. Newest /\ call[t].producer \in Producer
    BY MainsFacts, FrameShapes DEF At, Typed
  <2>2. Searched(t, call[t])
    BY DEF HashOK
  <2> QED
    BY <2>1, <2>2 DEF Searched, At
<1> DEFINE H == implicitProducerHash
           e == [key |-> t, value |-> p]
           f == [pc |-> "got", producer |-> p]
<1>1. /\ H' = [H EXCEPT ![m][x] = e] /\ Key(m, x) = Nil
      /\ call'[t] = f /\ \A u \in Thread \ {t} : call'[u] = call[u]
  BY <1>0 DEF Typed, Go
<1>2. TablesOK /\ Newest \in Nat \ {0} /\ DOMAIN H = 1 .. Newest /\ H \in Seq(AllTables)
  BY NewestFacts DEF HashOK, TablesOK, Newest
<1>3. H[m] \in [Slots(m) -> Entry] /\ e \in Entry
  BY <1>2 DEF TablesOK, Entry, ProducerOrNil
<1>4. /\ DOMAIN H' = 1 .. Newest /\ \A k \in 1 .. Newest : k # m => H'[k] = H[k]
      /\ H'[m] = [H[m] EXCEPT ![x] = e]
  BY <1>1, <1>2
<1>5. Newest' = Newest
  <2>1. Len(H') = Len(H)
    BY <1>1, <1>2
  <2> QED
    BY <2>1 DEF Newest
<1>6. \A k \in 1 .. Newest : capacity(k)' = capacity(k)
  BY <1>4 DEF capacity
<1>7. /\ \A k \in 1 .. Newest : Slots(k)' = Slots(k)
      /\ \A u, i : \A k \in 1 .. Newest : Before(u, k, i)' = Before(u, k, i)
      /\ \A u : \A k \in 1 .. Newest : FirstSlot(u, k)' = FirstSlot(u, k)
  BY <1>6 DEF Slots, Before, FirstSlot
<1>8. /\ H'[m][x] = e
      /\ \A k \in 1 .. Newest : \A i \in Slots(k) :
           k # m \/ i # x => H'[k][i] = H[k][i]
  BY <1>0, <1>3, <1>4
<1>9. /\ Key(m, x)' = t
      /\ \A k \in 1 .. Newest : \A i \in Slots(k) : k # m \/ i # x => Key(k, i)' = Key(k, i)
      /\ \A k \in 1 .. Newest : \A i \in Slots(k) : Key(k, i) # Nil => Key(k, i)' = Key(k, i)
  BY <1>1, <1>8 DEF Key
<1>10. t # Nil
  BY ProducerListAssumption
<1>11. /\ \A u : \A k \in 1 .. Newest : u # t => (HasKey(u, k)' <=> u # Nil /\ HasKey(u, k)) \/ u = Nil
       /\ HasKey(t, m)'
  BY <1>0, <1>1, <1>5, <1>7, <1>9 DEF HasKey
<1>12. \A u \in Thread : \A k \in 1 .. Newest : \A i \in Slots(k) : Before(u, k, i) \subseteq Slots(k)
  BY <1>2, BeforeFacts
<1>13. \A k \in 1 .. Newest : \A i \in Slots(k) : Key(k, i) \in Thread \cup {Nil}
  <2> SUFFICES ASSUME NEW k \in 1 .. Newest, NEW i \in Slots(k)
               PROVE  Key(k, i) \in Thread \cup {Nil}
    OBVIOUS
  <2>1. H[k][i] \in Entry
    BY <1>2, TableFacts
  <2> QED
    BY <2>1 DEF Key, Entry
<1> HIDE DEF H, e
<1>14. Reachable'
  <2>1. ASSUME NEW k \in 1 .. Newest, NEW i \in Slots(k), Key(k, i)' # Nil
        PROVE  /\ H'[k][i].value \in Producer
               /\ \A j \in Before(Key(k, i)', k, i) : Key(k, j)' # Nil
    <3>1. CASE k = m /\ i = x
      <4>1. H'[k][i].value = p /\ Key(k, i)' = t
        BY <1>8, <1>9, <3>1 DEF e
      <4>2. \A j \in Before(t, m, x) : j \in Slots(m) /\ Key(m, j) # Nil
        BY <1>0, <1>12
      <4> QED
        BY <1>0, <1>9, <3>1, <4>1, <4>2
    <3>2. CASE k # m \/ i # x
      <4>1. Key(k, i)' = Key(k, i) /\ H'[k][i] = H[k][i] /\ Key(k, i) \in Thread
        BY <1>8, <1>9, <1>13, <2>1, <3>2
      <4>2. /\ H[k][i].value \in Producer
            /\ \A j \in Before(Key(k, i), k, i) : Key(k, j) # Nil
        BY <2>1, <4>1 DEF HashOK, Reachable, H
      <4>3. \A j \in Before(Key(k, i), k, i) : j \in Slots(k)
        BY <1>12, <4>1
      <4> QED
        BY <1>9, <4>1, <4>2, <4>3
    <3> QED
      BY <3>1, <3>2
  <2>2. ASSUME NEW k \in 1 .. Newest, NEW i \in Slots(k), NEW j \in Slots(k),
               Key(k, i)' = Key(k, j)', Key(k, i)' # Nil
        PROVE  i = j
    <3>1. \A y \in Slots(m) : Key(m, y) # t
      BY <1>0 DEF HasKey
    <3>2. CASE k = m /\ (i = x \/ j = x)
      BY <1>9, <2>2, <3>1, <3>2
    <3>3. CASE k # m \/ (i # x /\ j # x)
      BY <1>9, <2>2, <3>3 DEF HashOK, Reachable
    <3> QED
      BY <3>2, <3>3
  <2>3. ASSUME NEW k \in 1 .. Newest, NEW l \in 1 .. Newest, NEW i \in Slots(k),
               NEW j \in Slots(l), Key(k, i)' = Key(l, j)', Key(k, i)' # Nil
        PROVE  H'[k][i].value = H'[l][j].value
    <3>1. \A h \in 1 .. Newest : \A y \in Slots(h) :
            (h # m \/ y # x) /\ Key(h, y) = t => H[h][y].value = p
      BY <1>0 DEF OnlyWith, H
    <3>2. H'[m][x].value = p
      BY <1>8 DEF e
    <3>3. CASE k = m /\ i = x
      BY <1>8, <1>9, <2>3, <3>1, <3>2, <3>3
    <3>4. CASE l = m /\ j = x
      BY <1>8, <1>9, <2>3, <3>1, <3>2, <3>4
    <3>5. CASE (k # m \/ i # x) /\ (l # m \/ j # x)
      BY <1>8, <1>9, <2>3, <3>5 DEF HashOK, Reachable, H
    <3> QED
      BY <3>3, <3>4, <3>5
  <2> QED
    BY <1>5, <1>7, <2>1, <2>2, <2>3 DEF Reachable, H
<1>15. ASSUME NEW u \in Thread PROVE (MainsExist(call[u]) /\ Searched(u, call[u]))'
  <2>1. CASE u = t
    <3>1. PICK g : g = call'[u] /\ g = f
      BY <1>1, <2>1
    <3>2. OnlyWith(t, p)'
      <4>0. ASSUME \A k \in 1 .. Newest : \A i \in Slots(k) :
                     Key(k, i)' = t => H'[k][i].value = p
            PROVE  OnlyWith(t, p)'
        BY <1>5, <1>7, <4>0 DEF OnlyWith, H
      <4> SUFFICES ASSUME NEW k \in 1 .. Newest, NEW i \in Slots(k), Key(k, i)' = t
                   PROVE  H'[k][i].value = p
        BY <4>0
      <4>1. CASE k = m /\ i = x
        BY <1>8, <4>1 DEF e
      <4>2. CASE k # m \/ i # x
        BY <1>0, <1>8, <1>9, <4>2 DEF OnlyWith, H
      <4> QED
        BY <4>1, <4>2
    <3> QED
      BY <1>5, <1>11, <2>1, <3>1, <3>2 DEF Searched, MainsExist, ListPcs, AddPcs, ResizePcs
  <2>2. CASE u # t
    <3>1. PICK g : g = call'[u] /\ g = call[u] /\ MainsExist(g) /\ Searched(u, g)
      BY <1>1, <2>2 DEF HashOK, TablesOK
    <3>2. MainsExist(call[u])'
      BY <1>5, <3>1 DEF MainsExist
    <3>3. \A k \in 1 .. Newest : HasKey(u, k)' <=> HasKey(u, k)
      BY <1>11, <2>2, ProducerListAssumption
    <3>4. \A q : OnlyWith(u, q)' <=> OnlyWith(u, q)
      <4> SUFFICES ASSUME NEW q PROVE OnlyWith(u, q)' <=> OnlyWith(u, q)
        OBVIOUS
      <4>1. \A k \in 1 .. Newest : \A i \in Slots(k) : Key(k, i)' = u <=> Key(k, i) = u
        BY <1>1, <1>9, <2>2, ProducerListAssumption
      <4>2. \A k \in 1 .. Newest : \A i \in Slots(k) :
              Key(k, i) = u => H'[k][i].value = H[k][i].value
        BY <1>1, <1>8, <2>2, ProducerListAssumption
      <4>3. OnlyWith(u, q)' <=> \A k \in 1 .. Newest : \A i \in Slots(k) :
                                  Key(k, i)' = u => H'[k][i].value = q
        BY <1>5, <1>7 DEF OnlyWith, H
      <4> QED
        BY <4>1, <4>2, <4>3 DEF OnlyWith, H
    <3>5. ASSUME g.pc = "probe"
          PROVE  /\ g.table \in 1 .. Newest /\ g.index \in Slots(g.table)
                 /\ \A j \in Before(u, g.table, g.index) : Key(g.table, j)' \notin {Nil, u}
      <4>1. g.table \in 1 .. g.main /\ g.index \in Slots(g.table) /\ g.main \in 1 .. Newest
        BY <3>1, <3>5 DEF Searched, MainsExist
      <4>2. g.table \in 1 .. Newest
        BY <1>2, <4>1
      <4>3. \A j \in Before(u, g.table, g.index) :
              j \in Slots(g.table) /\ Key(g.table, j) \notin {Nil, u}
        BY <1>12, <3>1, <3>5, <4>1, <4>2 DEF Searched
      <4> QED
        BY <1>9, <4>1, <4>2, <4>3
    <3>6. ASSUME g.pc = "insert"
          PROVE  /\ g.main \in 1 .. Newest /\ g.index \in Slots(g.main)
                 /\ \A j \in Before(u, g.main, g.index) : Key(g.main, j)' # Nil
      <4>1. g.main \in 1 .. Newest /\ g.index \in Slots(g.main)
        BY <3>1, <3>6 DEF Searched, MainsExist
      <4>2. \A j \in Before(u, g.main, g.index) : j \in Slots(g.main) /\ Key(g.main, j) # Nil
        BY <1>12, <3>1, <3>6, <4>1 DEF Searched
      <4> QED
        BY <1>9, <4>1, <4>2
    <3>7. Searched(u, call[u])'
      BY <1>5, <1>7, <3>1, <3>3, <3>4, <3>5, <3>6 DEF Searched, Unknown
    <3> QED
      BY <3>2, <3>7
  <2> QED
    BY <2>1, <2>2
<1>16. TablesOK'
  <2>1. H' \in Seq(AllTables')
    <3>1. H' = [k \in 1 .. Newest |-> H'[k]] /\ \A k \in 1 .. Newest : H'[k] \in AllTables'
      BY <1>1, <1>2, <1>4, <1>5 DEF AllTables, H
    <3> QED
      BY <1>2, <3>1
  <2>2. \A k \in 1 .. Newest : capacity(k)' \in Nat \ {0} /\ H'[k] \in [Slots(k) -> Entry]
    <3> SUFFICES ASSUME NEW k \in 1 .. Newest
                 PROVE  capacity(k)' \in Nat \ {0} /\ H'[k] \in [Slots(k) -> Entry]
      OBVIOUS
    <3>1. capacity(k) \in Nat \ {0} /\ H[k] \in [Slots(k) -> Entry]
      BY <1>2 DEF TablesOK, H
    <3> QED
      BY <1>3, <1>4, <1>6, <3>1
  <2> QED
    BY <1>2, <1>5, <1>7, <1>15, <2>1, <2>2 DEF TablesOK, H, Entry, ProducerOrNil
<1> QED
  BY <1>14, <1>15, <1>16 DEF HashOK

(* A new table is empty; the others stay as they are.                      *)
LEMMA AllocateHash ==
  ASSUME Typed, HashOK, NEW t \in Thread, At(t, "allocate"), Larger(t) # {},
         implicitProducerHash' = Append(implicitProducerHash, Table(newCapacity(t))),
         Go(t, [call[t] EXCEPT !.main = Newest + 1, !.pc = "clear"])
  PROVE  HashOK'
<1> DEFINE H == implicitProducerHash
<1>1. PICK n \in Nat \ {0} : n = newCapacity(t)
  BY NewCapacity
<1>a. PICK N \in Nat \ {0} : N = Newest
  BY NewestFacts DEF HashOK
<1>2. TablesOK /\ DOMAIN H = 1 .. N /\ H \in Seq(AllTables) /\ N = Len(H)
  BY <1>a DEF HashOK, TablesOK, Newest
<1>b. PICK e : e = Table(n)
  OBVIOUS
<1>3. /\ e = Table(n) /\ DOMAIN e = 0 .. n - 1
      /\ \A i \in 0 .. n - 1 : e[i] = [key |-> Nil, value |-> Nil]
  BY <1>b DEF Table
<1>4. /\ H' = Append(H, e) /\ DOMAIN H' = 1 .. N + 1 /\ Newest' = N + 1
      /\ \A k \in 1 .. N : H'[k] = H[k]
      /\ H'[N + 1] = e
  <2>1. H' = Append(H, e)
    BY <1>1, <1>3
  <2>2. Len(H') = N + 1 /\ DOMAIN H' = 1 .. N + 1
    BY <1>2, <2>1
  <2>3. Newest' = N + 1
    BY <2>2 DEF Newest
  <2> QED
    BY <1>2, <2>1, <2>2, <2>3
<1>5. \A k \in 1 .. N : capacity(k)' = capacity(k)
  BY <1>4 DEF capacity
<1>6. Cardinality(0 .. n - 1) = n
  <2>1. PICK a, b \in Int : a = 0 /\ b = n - 1
    OBVIOUS
  <2>2. Cardinality(a .. b) = IF a > b THEN 0 ELSE b - a + 1
    BY FS_Interval
  <2> QED
    BY <2>1, <2>2
<1>7. capacity(N + 1)' = n /\ Slots(N + 1)' = 0 .. n - 1
  BY <1>3, <1>4, <1>6 DEF capacity, Slots
<1>8. /\ \A k \in 1 .. N : Slots(k)' = Slots(k)
      /\ \A u, i : \A k \in 1 .. N : Before(u, k, i)' = Before(u, k, i)
      /\ \A i : \A k \in 1 .. N : Key(k, i)' = Key(k, i)
      /\ \A u : \A k \in 1 .. N : HasKey(u, k)' <=> HasKey(u, k)
  BY <1>4, <1>5 DEF Slots, Before, FirstSlot, Key, HasKey
<1>9. /\ \A i \in 0 .. n - 1 : Key(N + 1, i)' = Nil
      /\ \A u \in Thread : ~HasKey(u, N + 1)'
  <2>1. \A i \in 0 .. n - 1 : Key(N + 1, i)' = Nil
    BY <1>3, <1>4 DEF Key
  <2> QED
    BY <1>7, <2>1, ProducerListAssumption DEF HasKey
<1>10. \A k \in 1 .. Newest' : k \in 1 .. N \/ k = N + 1
  BY <1>2, <1>4
<1> HIDE DEF H
<1>11. Reachable'
  <2>1. ASSUME NEW k \in 1 .. Newest', NEW i \in Slots(k)', Key(k, i)' # Nil
        PROVE  k \in 1 .. N /\ i \in Slots(k) /\ Key(k, i)' = Key(k, i) /\ H'[k] = H[k]
    BY <1>4, <1>7, <1>8, <1>9, <1>10, <2>1
  <2>2. ASSUME NEW k \in 1 .. Newest', NEW i \in Slots(k)', Key(k, i)' # Nil
        PROVE  /\ H'[k][i].value \in Producer
               /\ \A j \in (Before(Key(k, i), k, i))' : Key(k, j)' # Nil
    <3>1. k \in 1 .. N /\ i \in Slots(k) /\ Key(k, i)' = Key(k, i) /\ H'[k] = H[k]
      BY <2>1, <2>2
    <3>2. PICK u : u = Key(k, i) /\ u = Key(k, i)'
      BY <3>1
    <3>3. /\ H[k][i].value \in Producer
          /\ \A j \in Before(u, k, i) : Key(k, j) # Nil
      BY <1>a, <2>2, <3>1, <3>2 DEF HashOK, Reachable, H
    <3>4. (Before(Key(k, i), k, i))' = Before(u, k, i)
      BY <1>5, <3>1, <3>2 DEF Before, FirstSlot
    <3> QED
      BY <1>8, <3>1, <3>3, <3>4
  <2>3. ASSUME NEW k \in 1 .. Newest', NEW i \in Slots(k)', NEW j \in Slots(k)',
               Key(k, i)' = Key(k, j)', Key(k, i)' # Nil
        PROVE  i = j
    <3>1. /\ k \in 1 .. N /\ i \in Slots(k) /\ Key(k, i)' = Key(k, i)
          /\ j \in Slots(k) /\ Key(k, j)' = Key(k, j)
      BY <2>1, <2>3
    <3> QED
      BY <1>a, <2>3, <3>1 DEF HashOK, Reachable
  <2>4. ASSUME NEW k \in 1 .. Newest', NEW l \in 1 .. Newest', NEW i \in Slots(k)',
               NEW j \in Slots(l)', Key(k, i)' = Key(l, j)', Key(k, i)' # Nil
        PROVE  H'[k][i].value = H'[l][j].value
    <3>1. /\ k \in 1 .. N /\ i \in Slots(k) /\ Key(k, i)' = Key(k, i) /\ H'[k] = H[k]
          /\ l \in 1 .. N /\ j \in Slots(l) /\ Key(l, j)' = Key(l, j) /\ H'[l] = H[l]
      BY <2>1, <2>4
    <3>2. Key(k, i) = Key(l, j) /\ Key(k, i) # Nil /\ k \in 1 .. Newest /\ l \in 1 .. Newest
      BY <1>a, <2>4, <3>1
    <3>3. H[k][i].value = H[l][j].value
      BY <3>1, <3>2 DEF HashOK, Reachable, H
    <3> QED
      BY <3>1, <3>3
  <2>5. /\ \A k \in 1 .. Newest' : \A i \in Slots(k)' :
             Key(k, i)' # Nil => /\ H'[k][i].value \in Producer
                                 /\ \A j \in (Before(Key(k, i), k, i))' : Key(k, j)' # Nil
        /\ \A k \in 1 .. Newest' : \A i, j \in Slots(k)' :
             Key(k, i)' = Key(k, j)' /\ Key(k, i)' # Nil => i = j
        /\ \A k, l \in 1 .. Newest' : \A i \in Slots(k)', j \in Slots(l)' :
             Key(k, i)' = Key(l, j)' /\ Key(k, i)' # Nil => H'[k][i].value = H'[l][j].value
    BY <2>2, <2>3, <2>4
  <2> QED
    BY <2>5 DEF Reachable, H
<1>12. call[t].pc = "allocate" /\ Unknown(t)
       /\ call[t] \in [pc : ResizePcs, main : Nat, count : Int]
  <2>1. Searched(t, call[t])
    BY DEF HashOK
  <2> QED
    BY <2>1, FrameShapes DEF At, Searched, Typed, ResizePcs
<1>13. /\ call'[t] = [call[t] EXCEPT !.main = Newest + 1, !.pc = "clear"]
       /\ \A u \in Thread \ {t} : call'[u] = call[u]
  BY DEF Typed, Go
<1>14. \A u \in Thread : Unknown(u) => Unknown(u)'
  BY <1>a, <1>4, <1>8, <1>9, <1>10 DEF Unknown
<1>15. ASSUME NEW u \in Thread PROVE (MainsExist(call[u]) /\ Searched(u, call[u]))'
  <2>1. CASE u = t
    <3>1. PICK g : g = call'[u] /\ g.pc = "clear" /\ g.main = N + 1
      BY <1>a, <1>12, <1>13, <2>1
    <3>2. N + 1 \in 1 .. Newest'
      BY <1>a, <1>2, <1>4
    <3> QED
      BY <1>12, <1>14, <2>1, <3>1, <3>2 DEF Searched, MainsExist, ListPcs, AddPcs, ResizePcs
  <2>2. CASE u # t
    <3>1. PICK g : g = call'[u] /\ g = call[u] /\ MainsExist(g) /\ Searched(u, g)
      BY <1>13, <2>2 DEF HashOK, TablesOK
    <3>2. 1 .. N \subseteq 1 .. Newest'
      BY <1>a, <1>2, <1>4
    <3>3. MainsExist(call[u])'
      BY <1>a, <3>1, <3>2 DEF MainsExist
    <3>4. ASSUME NEW q, OnlyWith(u, q) PROVE OnlyWith(u, q)'
      <4> SUFFICES ASSUME NEW k \in 1 .. Newest', NEW i \in Slots(k)', Key(k, i)' = u
                   PROVE  H'[k][i].value = q
        BY DEF OnlyWith, H
      <4>1. k \in 1 .. N
        BY <1>7, <1>9, <1>10, ProducerListAssumption
      <4> QED
        BY <1>a, <1>4, <1>8, <3>4, <4>1 DEF OnlyWith, H
    <3>5. ASSUME g.pc = "probe"
          PROVE  /\ g.table \in 1 .. N /\ g.index \in Slots(g.table)
                 /\ \A j \in Before(u, g.table, g.index) : Key(g.table, j) \notin {Nil, u}
                 /\ \A k \in 1 .. Newest' : k > g.table => ~HasKey(u, k)'
      <4>1. g.table \in 1 .. g.main /\ g.main \in 1 .. N
        BY <1>a, <3>1, <3>5 DEF Searched, MainsExist
      <4>2. g.table \in 1 .. N
        BY <1>2, <4>1
      <4>3. \A k \in 1 .. Newest' : k > g.table => ~HasKey(u, k)'
        BY <1>a, <1>8, <1>9, <1>10, <3>1, <3>5 DEF Searched
      <4> QED
        BY <3>1, <3>5, <4>2, <4>3 DEF Searched
    <3>6. ASSUME g.pc = "insert" PROVE g.main \in 1 .. N
      BY <1>a, <3>1, <3>6 DEF MainsExist
    <3>7. Searched(u, call[u])'
      BY <1>a, <1>8, <1>14, <3>1, <3>2, <3>4, <3>5, <3>6 DEF Searched
    <3> QED
      BY <3>3, <3>7
  <2> QED
    BY <2>1, <2>2
<1>16. TablesOK'
  <2>1. H' \in Seq(AllTables')
    <3>1. \A k \in 1 .. N + 1 : H'[k] \in AllTables'
      BY <1>4 DEF AllTables, H
    <3>2. AllTables \subseteq AllTables' /\ e \in AllTables'
      <4>1. ASSUME NEW k \in 1 .. N PROVE H[k] \in AllTables'
        <5>1. k \in 1 .. N + 1
          BY <1>2
        <5> QED
          BY <1>4, <3>1, <5>1
      <4>2. N + 1 \in 1 .. N + 1
        BY <1>2
      <4> QED
        BY <1>a, <1>4, <3>1, <4>1, <4>2 DEF AllTables, H
    <3>3. H \in Seq(AllTables')
      BY <1>2, <3>2
    <3> QED
      BY <1>4, <3>2, <3>3
  <2>2. ASSUME NEW k \in 1 .. Newest'
        PROVE  capacity(k)' \in Nat \ {0} /\ H'[k] \in [Slots(k)' -> Entry']
    <3>1. CASE k \in 1 .. N
      BY <1>a, <1>2, <1>4, <1>5, <1>8, <3>1 DEF TablesOK, H, Entry, ProducerOrNil
    <3>2. CASE k = N + 1
      <4>1. e \in [0 .. n - 1 -> Entry]
        BY <1>3 DEF Entry, ProducerOrNil, Table
      <4> QED
        BY <1>4, <1>7, <3>2, <4>1 DEF Entry, ProducerOrNil
    <3> QED
      BY <1>10, <3>1, <3>2
  <2> QED
    BY <1>2, <1>4, <1>15, <2>1, <2>2 DEF TablesOK, H
<1> QED
  BY <1>11, <1>15, <1>16 DEF HashOK

LEMMA HashesSame ==
  HashOK /\ UNCHANGED <<implicitProducerHash, call>> => HashOK'
  BY DEF HashOK, TablesOK, Reachable, AllTables, MainsExist, Searched, Key, Slots, Before,
         FirstSlot, capacity, Newest, HasKey, OnlyWith, Unknown, Entry, ProducerOrNil

(* A search that comes to a free slot has missed nothing.                  *)
LEMMA NotBehind ==
  ASSUME HashOK, NEW t \in Thread, At(t, "probe"),
         Key(call[t].table, call[t].index) = Nil
  PROVE  ~HasKey(t, call[t].table)
<1>1. PICK k \in 1 .. Newest, i \in Slots(call[t].table) :
        /\ k = call[t].table /\ i = call[t].index /\ i \in Slots(k)
        /\ \A j \in Before(t, k, i) : Key(k, j) \notin {Nil, t}
  <2>1. Searched(t, call[t]) /\ MainsExist(call[t]) /\ TablesOK
    BY DEF HashOK, TablesOK
  <2>2. Newest \in Nat
    BY <2>1, NewestFacts
  <2> QED
    BY <2>1, <2>2 DEF Searched, MainsExist, At
<1>2. t # Nil
  BY ProducerListAssumption
<1>3. ASSUME NEW j \in Slots(k), Key(k, j) = t PROVE FALSE
  <2>1. \A y \in Before(t, k, j) : Key(k, y) # Nil
    BY <1>2, <1>3 DEF HashOK, Reachable
  <2>2. i \notin Before(t, k, j) /\ j # i
    BY <1>1, <1>2, <1>3, <2>1
  <2>3. j \in Before(t, k, i)
    BY <1>1, <2>2, BeforeFacts DEF HashOK
  <2> QED
    BY <1>1, <1>3, <2>3
<1> QED
  BY <1>1, <1>3 DEF HasKey

LEMMA ProbeHash ==
  ASSUME Typed, HashOK, NEW t \in Thread, Probe(t)
  PROVE  HashOK'
<1>1. At(t, "probe") /\ call[t].pc = "probe"
  BY DEF Probe, At
<1>2. PICK c : /\ c = call[t] /\ c \in [pc : {"probe"}, main : Nat, table : Nat, index : Nat]
               /\ MainsExist(c) /\ Searched(t, c)
  BY <1>1, FrameShapes DEF Typed, HashOK, TablesOK
<1>3. /\ TablesOK /\ Newest \in Nat /\ c.main \in 1 .. Newest /\ c.table \in 1 .. c.main
      /\ c.index \in Slots(c.table)
      /\ \A k \in 1 .. Newest : k > c.table => ~HasKey(t, k)
      /\ \A j \in Before(t, c.table, c.index) : Key(c.table, j) \notin {Nil, t}
  BY <1>1, <1>2, NewestFacts DEF HashOK, Searched, MainsExist
<1>4. PICK k \in 1 .. Newest : k = c.table
  BY <1>3
<1>5. PICK e \in Entry : e = implicitProducerHash[k][c.index] /\ e.key = Key(k, c.index)
  BY <1>3, <1>4, TableFacts DEF Key
<1>6. t # Nil
  BY ProducerListAssumption
<1>7. implicitProducerHash' = implicitProducerHash
  BY DEF Probe, hashes
<1>8. ASSUME e.key = t
      PROVE  /\ HasKey(t, k) /\ OnlyWith(t, e.value) /\ e.value \in Producer
  <2>1. PICK y \in Slots(k) : y = c.index
    BY <1>3, <1>4
  <2>2. Key(k, y) = t /\ Reachable /\ e.value = implicitProducerHash[k][y].value
    BY <1>4, <1>5, <1>8, <2>1 DEF HashOK
  <2>3. ASSUME NEW l \in 1 .. Newest, NEW i \in Slots(l), Key(l, i) = t
        PROVE  implicitProducerHash[l][i].value = e.value
    BY <1>6, <2>2, <2>3 DEF Reachable
  <2>4. e.value \in Producer
    BY <1>6, <2>2 DEF Reachable
  <2> QED
    BY <2>2, <2>3, <2>4 DEF HasKey, OnlyWith
<1>9. CASE e.key = t /\ c.table = c.main
  <2>1. Go(t, [pc |-> "got", producer |-> e.value])
    BY <1>2, <1>4, <1>5, <1>9 DEF Probe
  <2> DEFINE f == [pc |-> "got", producer |-> e.value]
  <2>2. MainsExist(f) /\ Searched(t, f)
    BY <1>8, <1>9 DEF MainsExist, Searched, ListPcs, AddPcs, ResizePcs
  <2> QED
    BY <1>7, <2>1, <2>2, HashesKept
<1>10. CASE e.key = t /\ c.table # c.main
  <2> DEFINE f == [pc |-> "insert", main |-> c.main, producer |-> e.value,
                   index |-> FirstSlot(t, c.main)]
  <2>1. Go(t, f)
    BY <1>2, <1>4, <1>5, <1>10 DEF Probe
  <2>2. ~HasKey(t, c.main) /\ FirstSlot(t, c.main) \in Slots(c.main)
        /\ Before(t, c.main, FirstSlot(t, c.main)) = {}
    <3>1. PICK l \in 1 .. Newest : l = c.main /\ l > c.table
      BY <1>3, <1>10
    <3>2. FirstSlot(t, l) \in Slots(l)
      BY <1>3, TableFacts
    <3>3. Before(t, l, FirstSlot(t, l)) = {}
      BY <1>3, <3>2, BeforeFacts
    <3> QED
      BY <1>3, <3>1, <3>2, <3>3
  <2>3. MainsExist(f) /\ Searched(t, f)
    BY <1>3, <1>8, <1>10, <2>2 DEF MainsExist, Searched, ListPcs, AddPcs, ResizePcs
  <2> QED
    BY <1>7, <2>1, <2>3, HashesKept
<1>11. CASE e.key \notin {Nil, t}
  <2>1. PICK y \in Slots(k) : /\ y = NextSlot(t, k)
                              /\ Before(t, k, y) \subseteq Before(t, k, c.index) \cup {c.index}
    BY <1>2, <1>3, <1>4, BeforeFacts DEF NextSlot
  <2> DEFINE f == [c EXCEPT !.index = y]
  <2>2. Go(t, f)
    BY <1>2, <1>4, <1>5, <1>11, <2>1 DEF Probe
  <2>3. f.pc = "probe" /\ f.main = c.main /\ f.table = k /\ f.index = y
    BY <1>2, <1>4
  <2> HIDE DEF f
  <2>4. MainsExist(f) /\ Searched(t, f)
    BY <1>3, <1>4, <1>5, <1>11, <2>1, <2>3
       DEF MainsExist, Searched, ListPcs, AddPcs, ResizePcs
  <2> QED
    BY <1>7, <2>2, <2>4, HashesKept
<1>12. CASE e.key = Nil
  <2>1. ~HasKey(t, k)
    BY <1>1, <1>2, <1>4, <1>5, <1>12, NotBehind
  <2>2. CASE k > 1
    <3>1. PICK l \in 1 .. Newest : l = k - 1
      BY <1>3, <2>2
    <3>2. PICK y \in Slots(l) : y = FirstSlot(t, l) /\ Before(t, l, y) = {}
      <4>1. FirstSlot(t, l) \in Slots(l)
        BY <1>3, TableFacts
      <4> QED
        BY <1>3, <4>1, BeforeFacts
    <3> DEFINE f == [c EXCEPT !.table = k - 1, !.index = y]
    <3>3. Go(t, f)
      BY <1>2, <1>4, <1>5, <1>6, <1>12, <2>2, <3>1, <3>2 DEF Probe
    <3>4. f.pc = "probe" /\ f.main = c.main /\ f.table = l /\ f.index = y
      BY <1>2, <1>4, <3>1
    <3> HIDE DEF f
    <3>5. l \in 1 .. c.main /\ \A j \in 1 .. Newest : j > l => ~HasKey(t, j)
      BY <1>3, <1>4, <2>1, <3>1
    <3>6. MainsExist(f) /\ Searched(t, f)
      BY <1>3, <3>2, <3>4, <3>5 DEF MainsExist, Searched, ListPcs, AddPcs, ResizePcs
    <3> QED
      BY <1>7, <3>3, <3>6, HashesKept
  <2>3. CASE ~(k > 1)
    <3> DEFINE f == [pc |-> "add", main |-> c.main]
    <3>1. Go(t, f)
      BY <1>2, <1>4, <1>5, <1>6, <1>12, <2>3 DEF Probe
    <3>2. Unknown(t)
      BY <1>3, <1>4, <2>1, <2>3 DEF Unknown
    <3>3. MainsExist(f) /\ Searched(t, f)
      BY <1>3, <3>2 DEF MainsExist, Searched, ListPcs, AddPcs, ResizePcs
    <3> QED
      BY <1>7, <3>1, <3>3, HashesKept
  <2> QED
    BY <2>2, <2>3
<1> QED
  BY <1>4, <1>9, <1>10, <1>11, <1>12

LEMMA InsertStepHash ==
  ASSUME Typed, HashOK, NEW t \in Thread, Insert(t)
  PROVE  HashOK'
<1>1. At(t, "insert") /\ call[t].pc = "insert"
  BY DEF Insert, At
<1>2. PICK c : /\ c = call[t]
               /\ c \in [pc : {"insert"}, main : Nat, producer : Producer, index : Nat]
               /\ MainsExist(c) /\ Searched(t, c)
  BY <1>1, FrameShapes DEF Typed, HashOK, TablesOK
<1>3. CASE Key(c.main, c.index) = Nil
  BY <1>1, <1>2, <1>3, InsertHash DEF Insert, Key
<1>4. CASE Key(c.main, c.index) # Nil
  <2>1. /\ implicitProducerHash' = implicitProducerHash
        /\ Go(t, [c EXCEPT !.index = NextSlot(t, c.main)])
    BY <1>2, <1>4 DEF Insert, Key
  <2>2. PICK k \in 1 .. Newest : k = c.main /\ c.index \in Slots(k)
    BY <1>2 DEF MainsExist, Searched
  <2>3. PICK y \in Slots(k) : /\ y = NextSlot(t, k)
                              /\ Before(t, k, y) \subseteq Before(t, k, c.index) \cup {c.index}
    BY <1>2, <2>2, BeforeFacts DEF NextSlot, HashOK
  <2> DEFINE f == [c EXCEPT !.index = y]
  <2>4. Go(t, f)
    BY <2>1, <2>2, <2>3
  <2>5. f.pc = "insert" /\ f.main = k /\ f.index = y /\ f.producer = c.producer
    BY <1>2, <2>2
  <2> HIDE DEF f
  <2>6. MainsExist(f) /\ Searched(t, f)
    BY <1>2, <1>4, <2>2, <2>3, <2>5
       DEF MainsExist, Searched, ListPcs, AddPcs, ResizePcs
  <2> QED
    BY <2>1, <2>4, <2>6, HashesKept
<1> QED
  BY <1>3, <1>4

(* What remains known when a thread without an entry goes on to get one,   *)
(* or back to its caller.                                                  *)
LEMMA UnknownFrame ==
  ASSUME NEW t \in Thread, NEW f, Unknown(t),
         f.pc \in {"add"} \cup ResizePcs => f.main \in 1 .. Newest,
         f.pc \in ListPcs \cup {"new"} /\ f.back.pc = "new" => f.back.main \in 1 .. Newest,
         f.pc \in {"add", "giveup", "new"} \cup ResizePcs \cup ListPcs
  PROVE  MainsExist(f) /\ Searched(t, f)
  BY DEF MainsExist, Searched, ListPcs, AddPcs, ResizePcs

LEMMA BackFrame ==
  ASSUME NEW t \in Thread, NEW f, HashOK, call[t].pc \in ListPcs, f.back = call[t].back,
         f.pc \in ListPcs \cup {"register", "new"}
  PROVE  MainsExist(f) /\ Searched(t, f)
<1>1. MainsExist(call[t]) /\ Searched(t, call[t])
  BY DEF HashOK, TablesOK
<1> QED
  BY <1>1 DEF MainsExist, Searched, ListPcs, AddPcs, ResizePcs

LEMMA HashStepHash ==
  ASSUME Typed, HashOK, NEW t \in Thread, HashStep(t)
  PROVE  HashOK'
<1> DEFINE c == call[t]
<1>1. /\ FrameOK(c) /\ MainsExist(c) /\ Searched(t, c)
      /\ Newest \in Nat \ {0} /\ Newest \in 1 .. Newest
  BY NewestFacts DEF Typed, HashOK, TablesOK
<1>2. /\ c.pc \in {"add", "giveup"} \cup ResizePcs => Unknown(t)
      /\ c.pc = "new" => Unknown(t) /\ c.back.main \in 1 .. Newest /\ c.back.pc = "new"
      /\ c.pc \in {"add"} \cup ResizePcs => c.main \in 1 .. Newest
      /\ c.pc = "add" => c \in [pc : {"add"}, main : Nat]
      /\ c.pc \in ResizePcs => c \in [pc : ResizePcs, main : Nat, count : Int]
      /\ c.pc = "new" =>
           /\ c \in [producer : ProducerOrNil, recycled : BOOLEAN, back : Back,
                     pc : {"register", "new"}]
  BY <1>1, FrameShapes DEF Searched, MainsExist
<1>3. CASE Probe(t) \/ Insert(t)
  BY <1>3, ProbeHash, InsertStepHash
<1>4. CASE Add(t)
  <2> DEFINE f == [pc |-> "load", main |-> c.main, count |-> implicitProducerHashCount + 1]
  <2>1. c.pc = "add" /\ Go(t, f) /\ implicitProducerHash' = implicitProducerHash
    BY <1>4 DEF Add, At
  <2>2. f.pc = "load" /\ f.main \in 1 .. Newest
    BY <1>2, <2>1
  <2> HIDE DEF f
  <2>3. MainsExist(f) /\ Searched(t, f)
    BY <1>2, <2>1, <2>2, UnknownFrame DEF ListPcs, AddPcs, ResizePcs
  <2> QED
    BY <2>1, <2>3, HashesKept
<1>5. CASE TestAndSet(t) \/ Resize(t) \/ (Clear(t) /\ At(t, "clear"))
           \/ (Room(t) /\ ~(c.count < Limit(capacity(c.main))))
  <2>1. PICK l \in ResizePcs, k \in 1 .. Newest :
             /\ c.pc \in ResizePcs /\ implicitProducerHash' = implicitProducerHash
             /\ \/ Go(t, [c EXCEPT !.pc = l]) /\ k = c.main
                \/ Go(t, [c EXCEPT !.pc = l, !.main = k])
                \/ Go(t, [c EXCEPT !.main = k, !.pc = l])
    <3>1. CASE TestAndSet(t)
      BY <1>2, <3>1 DEF TestAndSet, At, ResizePcs
    <3>2. CASE Resize(t)
      BY <1>1, <3>2 DEF Resize, At, ResizePcs, hashes
    <3>3. CASE Clear(t) /\ At(t, "clear")
      BY <1>2, <3>3 DEF Clear, At, ResizePcs
    <3>4. CASE Room(t) /\ ~(c.count < Limit(capacity(c.main)))
      BY <1>1, <3>4 DEF Room, At, ResizePcs, hashes
    <3> QED
      BY <1>5, <3>1, <3>2, <3>3, <3>4
  <2>2. PICK f : Go(t, f) /\ f.pc = l /\ f.main = k
    <3>1. c \in [pc : ResizePcs, main : Nat, count : Int]
      BY <1>2, <2>1
    <3>2. CASE Go(t, [c EXCEPT !.pc = l]) /\ k = c.main
      BY <3>1, <3>2
    <3>3. CASE Go(t, [c EXCEPT !.pc = l, !.main = k])
      <4> DEFINE f == [c EXCEPT !.pc = l, !.main = k]
      <4>1. f.pc = l /\ f.main = k
        BY <3>1
      <4> HIDE DEF f
      <4>2. Go(t, f)
        BY <3>3 DEF f
      <4> QED
        BY <4>1, <4>2
    <3>4. CASE Go(t, [c EXCEPT !.main = k, !.pc = l])
      <4> DEFINE f == [c EXCEPT !.main = k, !.pc = l]
      <4>1. f.pc = l /\ f.main = k
        BY <3>1
      <4> HIDE DEF f
      <4>2. Go(t, f)
        BY <3>4 DEF f
      <4> QED
        BY <4>1, <4>2
    <3> QED
      BY <2>1, <3>2, <3>3, <3>4
  <2>3. MainsExist(f) /\ Searched(t, f)
    BY <1>2, <2>1, <2>2, UnknownFrame DEF ListPcs, AddPcs, ResizePcs
  <2> QED
    BY <2>1, <2>2, <2>3, HashesKept
<1>6. CASE Allocate(t) /\ Larger(t) # {}
  BY <1>6, AllocateHash DEF Allocate
<1>7. CASE \/ Allocate(t) /\ Larger(t) = {}
           \/ Clear(t) /\ At(t, "giveup")
           \/ New(t) /\ c.producer = Nil
  <2>1. PICK f : /\ implicitProducerHash' = implicitProducerHash /\ Go(t, f)
                 /\ \/ f = [pc |-> "giveup"] /\ c.pc = "allocate"
                    \/ f = [pc |-> "got", producer |-> Nil]
    BY <1>7 DEF Allocate, Clear, New, At
  <2>2. MainsExist(f) /\ Searched(t, f)
    <3>1. CASE f = [pc |-> "giveup"] /\ c.pc = "allocate"
      BY <1>2, <3>1, UnknownFrame DEF ListPcs, AddPcs, ResizePcs
    <3>2. CASE f = [pc |-> "got", producer |-> Nil]
      BY <3>2 DEF MainsExist, Searched, ListPcs, AddPcs, ResizePcs
    <3> QED
      BY <2>1, <3>1, <3>2
  <2> QED
    BY <2>1, <2>2, HashesKept
<1>8. CASE Room(t) /\ c.count < Limit(capacity(c.main))
  <2> DEFINE f == [pc |-> "scan", ptr |-> producerListTail, explicit |-> FALSE,
                   back |-> [pc |-> "new", main |-> c.main]]
  <2>1. /\ c.pc \in ResizePcs /\ Go(t, f) /\ implicitProducerHash' = implicitProducerHash
    BY <1>8 DEF Room, At, RecycleOrCreate, ResizePcs, hashes
  <2>2. f.pc = "scan" /\ f.back.main \in 1 .. Newest
    BY <1>2, <2>1
  <2> HIDE DEF f
  <2>3. MainsExist(f) /\ Searched(t, f)
    BY <1>2, <2>1, <2>2, UnknownFrame DEF ListPcs, AddPcs, ResizePcs
  <2> QED
    BY <2>1, <2>3, HashesKept
<1>9. CASE New(t) /\ c.producer # Nil
  <2>1. PICK m \in 1 .. Newest : m = c.back.main /\ c.pc = "new"
    BY <1>2, <1>9 DEF New, At
  <2>2. PICK y \in Slots(m) : y = FirstSlot(t, m) /\ Before(t, m, y) = {}
    <3>1. FirstSlot(t, m) \in Slots(m)
      BY TableFacts DEF HashOK
    <3> QED
      BY <3>1, BeforeFacts DEF HashOK
  <2> DEFINE f == [pc |-> "insert", main |-> m, producer |-> c.producer, index |-> y]
  <2>3. Go(t, f) /\ implicitProducerHash' = implicitProducerHash
    BY <1>9, <2>1, <2>2 DEF New
  <2>4. ~HasKey(t, m) /\ OnlyWith(t, c.producer)
    BY <1>2, <2>1 DEF Unknown, OnlyWith, HasKey
  <2>5. MainsExist(f) /\ Searched(t, f)
    BY <2>1, <2>2, <2>4 DEF MainsExist, Searched, ListPcs, AddPcs, ResizePcs
  <2> QED
    BY <2>3, <2>5, HashesKept
<1> QED
  BY <1>3, <1>4, <1>5, <1>6, <1>7, <1>8, <1>9 DEF HashStep, Clear

(* Walking on along the list, and returning with a producer or with none.  *)
LEMMA ListStepFrame ==
  ASSUME Typed, NEW t \in Thread, ListStep(t)
  PROVE  /\ call[t].pc \in ListPcs
         /\ \/ UNCHANGED call
            \/ \E f : /\ Go(t, f) /\ f.back = call[t].back
                      /\ f.pc \in ListPcs \cup {"register", "new"}
<1> DEFINE c == call[t]
<1>1. /\ c.pc \in ListPcs => c \in [pc : ListPcs, ptr : ProducerOrNil, explicit : BOOLEAN,
                                    back : Back]
      /\ c.pc \in ListPcs => c.back.pc \in {"register", "new"}
  BY FrameShapes, BackShape DEF Typed
<1>2. c.pc \in ListPcs
  BY DEF ListStep, Scan, Grab, Create, CountProducer, Link, Push, At, ListPcs, AddPcs
<1>3. ASSUME \E p, r : Return(t, p, r)
      PROVE  \E f : /\ Go(t, f) /\ f.back = c.back
                    /\ f.pc \in ListPcs \cup {"register", "new"}
  <2>1. PICK p, r : Return(t, p, r)
    BY <1>3
  <2> DEFINE f == [producer |-> p, recycled |-> r, back |-> c.back, pc |-> c.back.pc]
  <2>2. Go(t, f) /\ f.back = c.back /\ f.pc = c.back.pc
    BY <2>1 DEF Return
  <2> QED
    BY <1>1, <1>2, <2>2
<1>4. ASSUME \E l \in ListPcs : \E p : \/ Go(t, [c EXCEPT !.pc = l])
                                       \/ Go(t, [c EXCEPT !.ptr = p])
                                       \/ Go(t, [c EXCEPT !.pc = l, !.ptr = p])
      PROVE  \E f : /\ Go(t, f) /\ f.back = c.back
                    /\ f.pc \in ListPcs \cup {"register", "new"}
  <2>1. PICK l \in ListPcs : \E p : \/ Go(t, [c EXCEPT !.pc = l])
                                    \/ Go(t, [c EXCEPT !.ptr = p])
                                    \/ Go(t, [c EXCEPT !.pc = l, !.ptr = p])
    BY <1>4
  <2>2. PICK p : \/ Go(t, [c EXCEPT !.pc = l])
                 \/ Go(t, [c EXCEPT !.ptr = p])
                 \/ Go(t, [c EXCEPT !.pc = l, !.ptr = p])
    BY <2>1
  <2>3. \A f \in {[c EXCEPT !.pc = l], [c EXCEPT !.ptr = p], [c EXCEPT !.pc = l, !.ptr = p]} :
          f.back = c.back /\ f.pc \in ListPcs
    BY <1>1, <1>2
  <2> QED
    BY <2>2, <2>3
<1>5. CASE Scan(t)
  <2>1. \/ Go(t, [c EXCEPT !.pc = "create"])
        \/ Go(t, [c EXCEPT !.pc = "grab"])
        \/ \E p : Go(t, [c EXCEPT !.ptr = p])
    BY <1>5 DEF Scan
  <2> QED
    BY <1>2, <1>4, <2>1 DEF ListPcs
<1>6. CASE Grab(t)
  BY <1>2, <1>3, <1>4, <1>6 DEF Grab, ListPcs
<1>7. CASE Create(t)
  <2>1. \/ \E p, r : Return(t, p, r)
        \/ \E p : Go(t, [c EXCEPT !.pc = "fetch_add", !.ptr = p])
    BY <1>7 DEF Create
  <2> QED
    BY <1>2, <1>3, <1>4, <2>1 DEF ListPcs, AddPcs
<1>8. CASE CountProducer(t) \/ Link(t)
  BY <1>2, <1>4, <1>8 DEF CountProducer, Link, ListPcs, AddPcs
<1>9. CASE Push(t)
  BY <1>2, <1>3, <1>9 DEF Push
<1> QED
  BY <1>2, <1>5, <1>6, <1>7, <1>8, <1>9 DEF ListStep

(* The destructor frees the larger tables; nobody is inside a call.        *)
LEMMA DestroyHash ==
  ASSUME Typed, HashOK, Destroy
  PROVE  HashOK'
<1> DEFINE H == implicitProducerHash
<1>1. /\ TablesOK /\ Newest \in Nat \ {0} /\ 1 \in 1 .. Newest /\ Newest = Len(H)
      /\ H \in Seq(AllTables)
  BY NewestFacts DEF HashOK, TablesOK, Newest
<1>2. /\ H' \in Seq(AllTables) /\ DOMAIN H' = 1 .. 1 /\ Len(H') = 1 /\ H'[1] = H[1]
      /\ Newest' = 1
  <2>1. H' \in Seq(AllTables) /\ Len(H') = 1 /\ H'[1] = H[1]
    <3>1. \A i \in 1 .. 1 : H[i] \in AllTables
      BY <1>1
    <3>2. /\ SubSeq(H, 1, 1) \in Seq(AllTables) /\ Len(SubSeq(H, 1, 1)) = 1
          /\ SubSeq(H, 1, 1)[1] = H[1]
      BY <3>1, SubSeqProperties
    <3> QED
      BY <3>2 DEF Destroy
  <2> QED
    BY <2>1 DEF Newest
<1>3. \A t \in Thread : call'[t] = call[t] /\ call[t].pc = "idle"
  BY DEF Destroy, Idle, At
<1>4. \A k \in 1 .. Newest' : k = 1
  BY <1>2
<1>5. /\ capacity(1)' = capacity(1) /\ Slots(1)' = Slots(1)
      /\ \A i : Key(1, i)' = Key(1, i)
      /\ \A u, i : Before(u, 1, i)' = Before(u, 1, i)
  BY <1>2 DEF capacity, Slots, Key, Before, FirstSlot
<1>6. \A t \in Thread : (MainsExist(call[t]) /\ Searched(t, call[t]))'
  <2> SUFFICES ASSUME NEW t \in Thread PROVE (MainsExist(call[t]) /\ Searched(t, call[t]))'
    OBVIOUS
  <2>1. PICK g : g = call'[t] /\ g.pc = "idle"
    BY <1>3
  <2> QED
    BY <2>1 DEF MainsExist, Searched, ListPcs, AddPcs, ResizePcs
<1> HIDE DEF H
<1>7. Reachable'
  <2>1. /\ \A i \in Slots(1) :
             Key(1, i) # Nil => /\ H[1][i].value \in Producer
                                /\ \A j \in Before(Key(1, i), 1, i) : Key(1, j) # Nil
        /\ \A i, j \in Slots(1) : Key(1, i) = Key(1, j) /\ Key(1, i) # Nil => i = j
    BY <1>1 DEF HashOK, Reachable, H
  <2>2. /\ \A i \in Slots(1)' :
             Key(1, i)' # Nil => /\ H'[1][i].value \in Producer
                                 /\ \A j \in (Before(Key(1, i), 1, i))' : Key(1, j)' # Nil
        /\ \A i, j \in Slots(1)' : Key(1, i)' = Key(1, j)' /\ Key(1, i)' # Nil => i = j
    <3>1. \A i \in Slots(1) : (Before(Key(1, i), 1, i))' = Before(Key(1, i), 1, i)
      BY <1>5 DEF Before, FirstSlot
    <3> QED
      BY <1>2, <1>5, <2>1, <3>1
  <2>3. /\ \A k \in 1 .. Newest' : \A i \in Slots(k)' :
             Key(k, i)' # Nil => /\ H'[k][i].value \in Producer
                                 /\ \A j \in (Before(Key(k, i), k, i))' : Key(k, j)' # Nil
        /\ \A k \in 1 .. Newest' : \A i, j \in Slots(k)' :
             Key(k, i)' = Key(k, j)' /\ Key(k, i)' # Nil => i = j
        /\ \A k, l \in 1 .. Newest' : \A i \in Slots(k)', j \in Slots(l)' :
             Key(k, i)' = Key(l, j)' /\ Key(k, i)' # Nil => H'[k][i].value = H'[l][j].value
    BY <1>4, <2>2
  <2> QED
    BY <2>3 DEF Reachable, H
<1>8. TablesOK'
  <2>1. H' \in Seq(AllTables')
    <3>1. \A i \in 1 .. 1 : H'[i] \in AllTables'
      BY <1>2 DEF AllTables, H
    <3> QED
      BY <1>2, <3>1, SeqDef
  <2>2. capacity(1)' \in Nat \ {0} /\ H'[1] \in [Slots(1)' -> Entry']
    BY <1>1, <1>2, <1>5 DEF TablesOK, H, Entry, ProducerOrNil
  <2> QED
    BY <1>2, <1>4, <1>6, <2>1, <2>2 DEF TablesOK, H
<1> QED
  BY <1>6, <1>7, <1>8 DEF HashOK

LEMMA TokenStepHash ==
  ASSUME Typed, HashOK, NEW t \in Thread, TokenStep(t)
  PROVE  HashOK'
<1>1. implicitProducerHash' = implicitProducerHash
  BY DEF TokenStep, Enqueue, CreateToken, DestroyToken, SwapTokens, EnqueueImplicit, Register,
         Deactivate, GetOrAdd, RecycleOrCreate, fixed, hashes
<1>2. CASE \E k, j \in Token : alive /\ SwapTokens(t, k, j)
  BY <1>1, <1>2, HashesSame DEF SwapTokens
<1>3. CASE alive /\ Enqueue(t)
  <2>1. PICK k \in 1 .. Newest : k = Newest
    BY NewestFacts DEF HashOK
  <2>2. PICK y \in Slots(k) : y = FirstSlot(t, k) /\ Before(t, k, y) = {}
    <3>1. FirstSlot(t, k) \in Slots(k)
      BY TableFacts DEF HashOK
    <3> QED
      BY <3>1, BeforeFacts DEF HashOK
  <2> DEFINE f == [pc |-> "probe", main |-> k, table |-> k, index |-> y]
  <2>3. Go(t, f)
    BY <1>3, <2>1, <2>2 DEF Enqueue, GetOrAdd, FirstSlot
  <2>4. k \in 1 .. k /\ \A l \in 1 .. Newest : ~(l > k)
    BY <2>1, NewestFacts DEF HashOK
  <2>5. MainsExist(f) /\ Searched(t, f)
    BY <2>2, <2>4 DEF MainsExist, Searched, ListPcs, AddPcs, ResizePcs
  <2> QED
    BY <1>1, <2>3, <2>5, HashesKept
<1>4. CASE \E k \in Token : alive /\ CreateToken(t, k)
  <2>1. PICK k \in Token : CreateToken(t, k)
    BY <1>4
  <2> DEFINE f == [pc |-> "scan", ptr |-> producerListTail, explicit |-> TRUE,
                   back |-> [pc |-> "register", token |-> k]]
  <2>2. Go(t, f)
    BY <2>1 DEF CreateToken, RecycleOrCreate
  <2>3. MainsExist(f) /\ Searched(t, f)
    BY DEF MainsExist, Searched, ListPcs, AddPcs, ResizePcs
  <2> QED
    BY <1>1, <2>2, <2>3, HashesKept
<1>5. CASE \/ \E k \in Token : alive /\ DestroyToken(t, k)
           \/ EnqueueImplicit(t) \/ Register(t) \/ Deactivate(t)
  <2>1. PICK f : Go(t, f) /\ f.pc \in {"idle", "deactivate"}
    <3> DEFINE g(p) == [pc |-> "deactivate", producer |-> p]
    <3>1. \/ Go(t, NoCall)
          \/ \E k \in Token : Go(t, g(tokenProducer[k]))
      BY <1>5 DEF DestroyToken, EnqueueImplicit, Register, Deactivate
    <3>2. NoCall.pc = "idle" /\ \A p : g(p).pc = "deactivate"
      BY DEF NoCall
    <3> HIDE DEF g
    <3> QED
      BY <3>1, <3>2
  <2>2. MainsExist(f) /\ Searched(t, f)
    BY <2>1 DEF MainsExist, Searched, ListPcs, AddPcs, ResizePcs
  <2> QED
    BY <1>1, <2>1, <2>2, HashesKept
<1> QED
  BY <1>2, <1>3, <1>4, <1>5 DEF TokenStep

LEMMA NextHash == Typed /\ HashOK /\ [Next]_vars => HashOK'
<1> SUFFICES ASSUME Typed, HashOK, [Next]_vars PROVE HashOK'
  OBVIOUS
<1>1. CASE QuietStep
  <2>1. implicitProducerHash' = implicitProducerHash
    BY <1>1 DEF QuietStep, fixed, hashes
  <2>2. CASE UNCHANGED call
    BY <2>1, <2>2, HashesSame
  <2>3. CASE ~UNCHANGED call
    <3>1. PICK t \in Thread : \E f : f.pc \in QuietPcs /\ Go(t, f)
      BY <1>1, <2>3 DEF QuietStep
    <3>2. PICK f : f.pc \in QuietPcs /\ Go(t, f)
      BY <3>1
    <3>3. MainsExist(f) /\ Searched(t, f)
      BY <3>2 DEF MainsExist, Searched, ListPcs, AddPcs, ResizePcs, QuietPcs
    <3> QED
      BY <2>1, <3>2, <3>3, HashesKept
  <2> QED
    BY <2>2, <2>3
<1>2. ASSUME NEW t \in Thread, ListStep(t), UNCHANGED hashes PROVE HashOK'
  <2>1. CASE UNCHANGED call
    BY <1>2, <2>1, HashesSame DEF hashes
  <2>2. CASE ~UNCHANGED call
    <3>1. PICK f : /\ Go(t, f) /\ f.back = call[t].back
                   /\ f.pc \in ListPcs \cup {"register", "new"}
      BY <1>2, <2>2, ListStepFrame
    <3>2. MainsExist(f) /\ Searched(t, f)
      BY <1>2, <3>1, ListStepFrame, BackFrame
    <3> QED
      BY <1>2, <3>1, <3>2, HashesKept DEF hashes
  <2> QED
    BY <2>1, <2>2
<1> QED
  BY <1>1, <1>2, NextCases, DestroyHash, HashStepHash, TokenStepHash

-----------------------------------------------------------------------------
(* The list.                                                               *)
LEMMA ListClosed ==
  ASSUME next \in [Producer -> ProducerOrNil], NEW p \in ProducerOrNil
  PROVE  Closed(From(p)) /\ From(p) \subseteq Producer /\ p \in From(p) \cup {Nil}
<1>1. p # Nil => p \in From(p)
  BY DEF From, ProducerOrNil
<1>2. ASSUME NEW b \in From(p), next[b] # Nil PROVE next[b] \in From(p)
  <2>1. next[b] \in Producer /\ b \in Producer
    BY <1>2 DEF From, ProducerOrNil
  <2>2. ASSUME NEW S \in SUBSET Producer, p \in S \cup {Nil}, Closed(S) PROVE next[b] \in S
    BY <1>2, <2>2 DEF From, Closed
  <2> QED
    BY <2>1, <2>2 DEF From
<1> QED
  BY <1>1, <1>2 DEF Closed, From

LEMMA ListLeast ==
  ASSUME NEW p, NEW S \in SUBSET Producer, p \in S \cup {Nil}, Closed(S)
  PROVE  From(p) \subseteq S
  BY DEF From

LEMMA ListSame ==
  UNCHANGED <<producerListTail, next>> => Listed' = Listed /\ \A p : From(p)' = From(p)
  BY DEF Listed, From, Closed

(* The next of a producer that is not on the list may change.              *)
LEMMA ListWithout ==
  ASSUME Typed, next' \in [Producer -> ProducerOrNil], NEW n \in Producer, NEW p \in ProducerOrNil,
         n \notin From(p), \A b \in Producer \ {n} : next'[b] = next[b]
  PROVE  From(p)' = From(p)
<1>0. /\ next \in [Producer -> ProducerOrNil]
      /\ Closed(From(p)) /\ From(p) \subseteq Producer /\ p \in From(p) \cup {Nil}
  BY ListClosed DEF Typed, VarsTyped
<1>1. ASSUME NEW b \in From(p)' PROVE b \in From(p)
  <2>1. \A S \in SUBSET Producer : p \in S \cup {Nil} /\ Closed(S)' => b \in S
    BY <1>1 DEF From
  <2>2. PICK S \in SUBSET Producer : S = From(p)
    BY <1>0
  <2>3. Closed(S)'
    BY <1>0, <2>2 DEF Closed
  <2> QED
    BY <1>0, <2>1, <2>2, <2>3
<1>2. ASSUME NEW b \in From(p) PROVE b \in From(p)'
  <2>1. ASSUME NEW S \in SUBSET Producer, p \in S \cup {Nil}, Closed(S)' PROVE b \in S
    <3>1. S \cap From(p) \in SUBSET Producer
      OBVIOUS
    <3>2. Closed(S \cap From(p)) /\ p \in (S \cap From(p)) \cup {Nil}
      BY <1>0, <2>1 DEF Closed
    <3> QED
      BY <1>2, <3>1, <3>2, ListLeast
  <2> QED
    BY <1>0, <1>2, <2>1 DEF From
<1> QED
  BY <1>1, <1>2

(* A producer that is not on the list becomes its tail.                    *)
LEMMA ListPush ==
  ASSUME Typed, NEW n \in Producer \ Listed, next' = next,
         next[n] = producerListTail, producerListTail' = n
  PROVE  Listed' = Listed \cup {n}
<1>0. /\ next \in [Producer -> ProducerOrNil] /\ producerListTail \in ProducerOrNil
      /\ Closed(Listed) /\ Listed \subseteq Producer /\ producerListTail \in Listed \cup {Nil}
      /\ n # Nil
  BY ListClosed, ProducerListAssumption DEF Typed, VarsTyped, Listed
<1>1. ASSUME NEW b \in Listed', b # n PROVE b \in Listed
  <2>1. \A S \in SUBSET Producer : n \in S \cup {Nil} /\ Closed(S)' => b \in S
    BY <1>1 DEF Listed, From
  <2>2. PICK S \in SUBSET Producer : S = Listed \cup {n}
    BY <1>0
  <2>3. Closed(S)'
    BY <1>0, <2>2 DEF Closed
  <2> QED
    BY <1>1, <2>1, <2>2, <2>3
<1>2. ASSUME NEW b \in Listed \cup {n} PROVE b \in Listed'
  <2>1. ASSUME NEW S \in SUBSET Producer, n \in S \cup {Nil}, Closed(S)' PROVE b \in S
    <3>1. n \in S
      BY <1>0, <2>1
    <3>2. Closed(S) /\ producerListTail \in S \cup {Nil}
      BY <2>1, <3>1 DEF Closed
    <3> QED
      BY <1>2, <3>1, <3>2, ListLeast DEF Listed
  <2> QED
    BY <1>0, <1>2, <2>1 DEF Listed, From
<1> QED
  BY <1>0, <1>1, <1>2

(* At the start the list has the producers of the tokens that are gone, in *)
(* the order in which they were added.                                     *)
OrderedBy(old, n) ==
  /\ producerCount = n /\ producerListTail = IF n = 0 THEN Nil ELSE old[n]
  /\ \A i, j \in 1 .. n : old[i] = old[j] => i = j
  /\ InitiallyListed = {old[i] : i \in 1 .. n}
  /\ \A i \in 1 .. n : next[old[i]] = IF i = 1 THEN Nil ELSE old[i - 1]

LEMMA InitialOrder ==
  ASSUME Init
  PROVE  /\ \E n \in Nat : \E old \in [1 .. n -> Producer] : OrderedBy(old, n)
         /\ next \in [Producer -> ProducerOrNil]
<1>0. PICK s \in Setups : InitList(s)
  BY DEF Init
<1>1. PICK old \in Seq(Producer) :
        /\ setup \in Setups /\ old = setup.listed /\ producerCount = Len(old)
        /\ producerListTail = IF Len(old) = 0 THEN Nil ELSE old[Len(old)]
        /\ \A i, j \in DOMAIN old : old[i] = old[j] => i = j
        /\ next = [p \in Producer |->
             IF p \in {old[i] : i \in DOMAIN old}
             THEN LET i == (CHOOSE i \in DOMAIN old : old[i] = p) - 1
                  IN IF i = 0 THEN Nil ELSE old[i]
             ELSE Nil]
  <2>1. PICK old : old = s.listed /\ setup = s
    BY <1>0 DEF InitList
  <2>2. old \in Seq(Producer) /\ \A i, j \in DOMAIN old : old[i] = old[j] => i = j
    BY <2>1, ProducerListAssumption
  <2>3. /\ producerListTail = IF Len(old) = 0 THEN Nil ELSE old[Len(old)]
        /\ producerCount = Len(old)
    BY <1>0, <2>1 DEF InitList
  <2>4. next = [p \in Producer |->
             IF p \in {old[i] : i \in DOMAIN old}
             THEN LET i == (CHOOSE i \in DOMAIN old : old[i] = p) - 1
                  IN IF i = 0 THEN Nil ELSE old[i]
             ELSE Nil]
    BY <1>0, <2>1 DEF InitList
  <2> QED
    BY <2>1, <2>2, <2>3, <2>4
<1>2. PICK n \in Nat : n = Len(old) /\ DOMAIN old = 1 .. n
  OBVIOUS
<1>3. ASSUME NEW i \in 1 .. n
      PROVE  old[i] \in Producer /\ next[old[i]] = IF i = 1 THEN Nil ELSE old[i - 1]
  <2>1. (CHOOSE j \in DOMAIN old : old[j] = old[i]) = i
    BY <1>1, <1>2
  <2>2. old[i] \in Producer /\ old[i] \in {old[j] : j \in DOMAIN old}
    BY <1>2
  <2>3. next[old[i]] = LET j == i - 1 IN IF j = 0 THEN Nil ELSE old[j]
    BY <1>1, <2>1, <2>2
  <2> QED
    BY <2>2, <2>3
<1>4. next \in [Producer -> ProducerOrNil]
  <2> SUFFICES ASSUME NEW p \in Producer PROVE next[p] \in ProducerOrNil
    BY <1>1
  <2>1. CASE p \in {old[i] : i \in DOMAIN old}
    <3>1. PICK i \in 1 .. n : p = old[i]
      BY <1>2, <2>1
    <3>2. i # 1 => i - 1 \in 1 .. n
      OBVIOUS
    <3> QED
      BY <1>3, <3>1, <3>2 DEF ProducerOrNil
  <2>2. CASE p \notin {old[i] : i \in DOMAIN old}
    BY <1>1, <2>2 DEF ProducerOrNil
  <2> QED
    BY <2>1, <2>2
<1>5. InitiallyListed = {old[i] : i \in 1 .. n}
  BY <1>1, <1>2 DEF InitiallyListed
<1>6. OrderedBy(old, n)
  BY <1>1, <1>2, <1>3, <1>5 DEF OrderedBy
<1>7. old \in [1 .. n -> Producer]
  BY <1>2
<1> QED
  BY <1>4, <1>6, <1>7

LEMMA ListInit ==
  ASSUME Init
  PROVE  Listed = InitiallyListed /\ next \in [Producer -> ProducerOrNil]
<1>1. PICK n \in Nat : \E old \in [1 .. n -> Producer] : OrderedBy(old, n)
  BY InitialOrder
<1>2. PICK old \in [1 .. n -> Producer] : OrderedBy(old, n)
  BY <1>1
<1>3. ASSUME NEW i \in 1 .. n
      PROVE  old[i] \in Producer /\ next[old[i]] = IF i = 1 THEN Nil ELSE old[i - 1]
  BY <1>2 DEF OrderedBy
<1>4. producerListTail = IF n = 0 THEN Nil ELSE old[n]
  BY <1>2 DEF OrderedBy
<1>5. PICK R \in SUBSET Producer : R = InitiallyListed /\ R = {old[i] : i \in 1 .. n}
  <2>1. InitiallyListed = {old[i] : i \in 1 .. n}
    BY <1>2 DEF OrderedBy
  <2>2. {old[i] : i \in 1 .. n} \in SUBSET Producer
    BY <1>3
  <2> QED
    BY <2>1, <2>2
<1>6. Listed \subseteq R
  <2>1. Closed(R)
    <3> SUFFICES ASSUME NEW x \in R PROVE next[x] \in R \cup {Nil}
      BY DEF Closed
    <3>1. PICK i \in 1 .. n : x = old[i]
      BY <1>5
    <3>2. i # 1 => i - 1 \in 1 .. n
      OBVIOUS
    <3> QED
      BY <1>3, <1>5, <3>1, <3>2
  <2>2. producerListTail \in R \cup {Nil}
    <3>1. n # 0 => n \in 1 .. n
      OBVIOUS
    <3> QED
      BY <1>4, <1>5, <3>1
  <2> QED
    BY <2>1, <2>2, ListLeast DEF Listed
<1>7. ASSUME NEW S \in SUBSET Producer, producerListTail \in S \cup {Nil}, Closed(S)
      PROVE  R \subseteq S
  <2> DEFINE Far == {m \in Nat : n - m \in 1 .. n /\ old[n - m] \notin S}
  <2>1. CASE Far = {}
    <3>1. ASSUME NEW i \in 1 .. n PROVE old[i] \in S
      <4>1. n - i \in Nat /\ n - (n - i) = i
        OBVIOUS
      <4> QED
        BY <2>1, <4>1
    <3> QED
      BY <1>5, <3>1
  <2>2. CASE Far # {}
    <3> Far \in SUBSET Nat
      OBVIOUS
    <3> HIDE DEF Far
    <3>1. PICK m \in Far : \A k \in Far : m <= k
      BY <2>2, Smallest
    <3>2. m \in Nat /\ n - m \in 1 .. n /\ old[n - m] \notin S
      BY DEF Far
    <3>3. CASE m = 0
      <4>1. producerListTail = old[n] /\ old[n] \in Producer
        BY <1>3, <1>4, <3>2, <3>3
      <4> QED
        BY <1>7, <3>2, <3>3, <4>1, ProducerListAssumption
    <3>4. CASE m # 0
      <4>1. PICK i \in 1 .. n : i = n - m + 1 /\ i - 1 = n - m /\ i # 1 /\ n - (m - 1) = i
                                /\ m - 1 \in Nat
        BY <3>2, <3>4
      <4>2. m - 1 \notin Far
        BY <3>1, <3>2
      <4>3. old[i] \in S
        BY <4>1, <4>2 DEF Far
      <4>4. next[old[i]] = old[i - 1] /\ old[i - 1] \in Producer
        BY <1>3, <3>2, <4>1
      <4> QED
        BY <1>7, <3>2, <4>1, <4>3, <4>4, ProducerListAssumption DEF Closed
    <3> QED
      BY <3>3, <3>4
  <2> QED
    BY <2>1, <2>2
<1>8. R \subseteq Listed
  BY <1>7 DEF Listed, From
<1> QED
  BY <1>5, <1>6, <1>8, InitialOrder

-----------------------------------------------------------------------------
(* Who has a producer.                                                     *)
HasPcs == {"register", "new", "deactivate", "insert", "got"}

LEMMA Moves ==
  ASSUME Typed, NEW t \in Thread, NEW f, Go(t, f)
  PROVE  /\ call'[t] = f /\ \A u \in Thread \ {t} : call'[u] = call[u]
         /\ \A p : Adds(t, p)' <=> f.pc \in AddPcs /\ f.ptr = p
         /\ \A p : Has(t, p)' <=> f.pc \in HasPcs /\ f.producer = p
         /\ \A u \in Thread \ {t} : \A p : (Adds(u, p)' <=> Adds(u, p)) /\ (Has(u, p)' <=> Has(u, p))
<1>1. call'[t] = f /\ \A u \in Thread \ {t} : call'[u] = call[u]
  BY DEF Typed, Go
<1> QED
  BY <1>1 DEF Adds, Has, HasPcs

LEMMA EnteredSame ==
  implicitProducerHash' = implicitProducerHash =>
    \A u, p : Entered(u, p)' <=> Entered(u, p)
  BY DEF Entered, Slots, capacity, Newest

(* What a frame that keeps to its producers, and to a token of its own, is *)
(* like.                                                                   *)
FrameFits(t, f) ==
  /\ f.pc \in AddPcs <=> call[t].pc \in AddPcs
  /\ f.pc \in AddPcs => f.ptr = call[t].ptr /\ f.explicit = call[t].explicit
  /\ f.pc \in HasPcs => \A p \in Producer : f.producer = p =>
       /\ Mine(t, p)
       /\ isExplicit[p] <=> f.pc \in {"register", "deactivate"}
       /\ isExplicit[p] => p \in Listed
  /\ f.pc = "grab" => f.ptr \notin unborn /\ isExplicit[f.ptr] /\ f.explicit
  /\ f.pc = "new" => ~f.recycled
  /\ f.pc \in ListPcs \cup {"register"} /\ f.back.pc = "register" =>
       tokenProducer[f.back.token] = Nil /\ setup.owner[f.back.token] = t

Ownership == Owned /\ Kinds /\ ListOK

LEMMA PlainStep ==
  ASSUME Typed, Ownership, NEW t \in Thread, NEW f, Go(t, f), FrameFits(t, f),
         UNCHANGED <<setup, states, tokenProducer, alive>>, Listed' = Listed,
         \A u \in Thread, p \in Producer : Entered(u, p)' =>
           \/ Entered(u, p)
           \/ u = t /\ Has(t, p) /\ call[t].pc = "insert"
  PROVE  Ownership'
<1>1. /\ call'[t] = f /\ \A u \in Thread \ {t} : call'[u] = call[u]
      /\ \A p : Adds(t, p)' <=> f.pc \in AddPcs /\ f.ptr = p
      /\ \A p : Has(t, p)' <=> f.pc \in HasPcs /\ f.producer = p
      /\ \A u \in Thread \ {t} : \A p : (Adds(u, p)' <=> Adds(u, p)) /\ (Has(u, p)' <=> Has(u, p))
  BY Moves
<1>2. \A p : Adds(t, p)' <=> Adds(t, p)
  BY <1>1 DEF FrameFits, Adds
<1>3. \A u \in Thread, p \in Producer : Mine(u, p)' => Mine(u, p)
  <2> SUFFICES ASSUME NEW u \in Thread, NEW p \in Producer, Mine(u, p)' PROVE Mine(u, p)
    OBVIOUS
  <2>1. Adds(u, p)' \/ Has(u, p)' \/ Entered(u, p)'
    BY DEF Mine
  <2>2. Adds(u, p)' => Adds(u, p)
    BY <1>1, <1>2
  <2>3. Has(u, p)' => Mine(u, p)
    BY <1>1 DEF FrameFits, Mine
  <2> QED
    BY <2>1, <2>2, <2>3 DEF Mine
<1>4. Owned'
  BY <1>3 DEF Ownership, Owned, states, Valid
<1>5. Kinds'
  <2>1. ASSUME NEW u \in Thread, NEW p \in Producer
        PROVE  /\ Adds(u, p)' => (isExplicit[p] <=> call'[u].explicit)
               /\ Has(u, p)' => /\ isExplicit[p] <=> call'[u].pc \in {"register", "deactivate"}
                                /\ isExplicit[p] => p \in Listed
               /\ Entered(u, p)' => ~isExplicit[p]
    <3>1. /\ Adds(u, p) => (isExplicit[p] <=> call[u].explicit)
          /\ Has(u, p) => /\ isExplicit[p] <=> call[u].pc \in {"register", "deactivate"}
                          /\ isExplicit[p] => p \in Listed
          /\ Entered(u, p) => ~isExplicit[p]
      BY DEF Ownership, Kinds
    <3>2. Has(t, p) /\ call[t].pc = "insert" => ~isExplicit[p]
      BY DEF Ownership, Kinds
    <3>3. CASE u = t
      <4>1. f.pc \in AddPcs /\ f.ptr = p => (isExplicit[p] <=> f.explicit)
        BY <3>1, <3>3 DEF FrameFits, Adds
      <4>2. f.pc \in HasPcs /\ f.producer = p =>
               /\ isExplicit[p] <=> f.pc \in {"register", "deactivate"}
               /\ isExplicit[p] => p \in Listed
        BY DEF FrameFits
      <4>3. Entered(u, p)' => ~isExplicit[p]
        BY <3>1, <3>2, <3>3
      <4> QED
        BY <1>1, <3>3, <4>1, <4>2, <4>3
    <3>4. CASE u # t
      BY <1>1, <3>1, <3>4
    <3> QED
      BY <3>3, <3>4
  <2>2. ASSUME NEW u \in Thread
        PROVE  LET g == call'[u] IN
               /\ g.pc = "grab" => g.ptr \notin unborn /\ isExplicit[g.ptr] /\ g.explicit
               /\ g.pc = "new" => ~g.recycled
               /\ g.pc \in ListPcs \cup {"register"} /\ g.back.pc = "register" =>
                    tokenProducer[g.back.token] = Nil /\ setup.owner[g.back.token] = u
    <3>1. CASE u = t
      BY <1>1, <3>1 DEF FrameFits
    <3>2. CASE u # t
      BY <1>1, <3>2 DEF Ownership, Kinds
    <3> QED
      BY <3>1, <3>2
  <2> QED
    BY <2>1, <2>2 DEF Kinds, states
<1>6. ListOK'
  <2>1. InitiallyListed' = InitiallyListed
    BY DEF InitiallyListed
  <2>2. \A u \in Thread, p \in Producer : Adds(u, p)' <=> Adds(u, p)
    BY <1>1, <1>2
  <2> QED
    BY <2>1, <2>2 DEF Ownership, ListOK, states
<1> QED
  BY <1>4, <1>5, <1>6 DEF Ownership

LEMMA FitsItself ==
  ASSUME Typed, Ownership, NEW t \in Thread
  PROVE  FrameFits(t, call[t])
<1>1. ASSUME NEW p \in Producer, call[t].pc \in HasPcs, call[t].producer = p
      PROVE  Has(t, p) /\ Mine(t, p)
  BY <1>1 DEF HasPcs, Has, Mine
<1> QED
  BY <1>1 DEF FrameFits, Ownership, Kinds

LEMMA OwnershipSame ==
  ASSUME Ownership, Listed' = Listed,
         UNCHANGED <<setup, states, tokenProducer, alive, call, implicitProducerHash>>
  PROVE  Ownership'
<1>1. /\ \A u, p : Entered(u, p)' <=> Entered(u, p)
      /\ \A u, p : Adds(u, p)' <=> Adds(u, p)
      /\ \A u, p : Has(u, p)' <=> Has(u, p)
  BY EnteredSame DEF Adds, Has
<1>2. \A u, p : Mine(u, p)' <=> Mine(u, p)
  BY <1>1 DEF Mine
<1>3. Owned'
  BY <1>2 DEF Ownership, Owned, states, Valid
<1>4. Kinds'
  BY <1>1 DEF Ownership, Kinds, states
<1>5. ListOK'
  BY <1>1 DEF Ownership, ListOK, states, InitiallyListed
<1> QED
  BY <1>3, <1>4, <1>5 DEF Ownership

LEMMA QuietOwned ==
  ASSUME Typed, Ownership, QuietStep
  PROVE  Ownership'
<1>1. /\ UNCHANGED <<setup, states, tokenProducer, alive, implicitProducerHash>>
      /\ Listed' = Listed
  BY ListSame DEF QuietStep, fixed, hashes, rest, list
<1>2. CASE UNCHANGED call
  BY <1>1, <1>2, OwnershipSame
<1>3. CASE ~UNCHANGED call
  <2>1. PICK t \in Thread : \E f : call[t].pc \in QuietPcs /\ f.pc \in QuietPcs /\ Go(t, f)
    BY <1>3 DEF QuietStep
  <2>2. PICK f : call[t].pc \in QuietPcs /\ f.pc \in QuietPcs /\ Go(t, f)
    BY <2>1
  <2>3. FrameFits(t, f)
    BY <2>2 DEF FrameFits, QuietPcs, AddPcs, HasPcs, ListPcs
  <2> QED
    BY <1>1, <2>2, <2>3, EnteredSame, PlainStep
<1> QED
  BY <1>2, <1>3

(* The tables.                                                             *)
LEMMA InsertEntered ==
  ASSUME Typed, HashOK, NEW t \in Thread, Insert(t)
  PROVE  \A u \in Thread, p \in Producer : Entered(u, p)' =>
           \/ Entered(u, p)
           \/ u = t /\ Has(t, p) /\ call[t].pc = "insert"
<1>1. call[t].pc = "insert" /\ MainsExist(call[t]) /\ Searched(t, call[t]) /\ TablesOK
  BY DEF Insert, At, HashOK, TablesOK
<1>2. PICK m \in 1 .. Newest, x \in Slots(call[t].main) :
        m = call[t].main /\ x = call[t].index /\ x \in Slots(m)
  BY <1>1 DEF MainsExist, Searched
<1>3. CASE implicitProducerHash' = implicitProducerHash
  <2>1. \A u, p : Entered(u, p)' <=> Entered(u, p)
    BY <1>3, EnteredSame
  <2> QED
    BY <2>1
<1>4. CASE implicitProducerHash' # implicitProducerHash
  <2> DEFINE H == implicitProducerHash
             e == [key |-> t, value |-> call[t].producer]
  <2>1. H' = [H EXCEPT ![m][x] = e]
    BY <1>2, <1>4 DEF Insert
  <2>2. H \in Seq(AllTables) /\ DOMAIN H = 1 .. Newest
    BY <1>1 DEF TablesOK, Newest
  <2>3. H[m] \in [Slots(m) -> Entry]
    BY <1>1 DEF TablesOK
  <2>4. /\ DOMAIN H' = 1 .. Newest /\ \A k \in 1 .. Newest : k # m => H'[k] = H[k]
        /\ H'[m] = [H[m] EXCEPT ![x] = e]
    BY <2>1, <2>2
  <2>5. Newest' = Newest
    <3>1. Len(H') = Len(H)
      BY <2>1, <2>2
    <3> QED
      BY <3>1 DEF Newest
  <2>6. \A k \in 1 .. Newest : Slots(k)' = Slots(k)
    BY <2>4 DEF Slots, capacity
  <2>7. /\ H'[m][x] = e
        /\ \A k \in 1 .. Newest : \A i \in Slots(k) : k # m \/ i # x => H'[k][i] = H[k][i]
    BY <1>2, <2>3, <2>4
  <2> SUFFICES ASSUME NEW u \in Thread, NEW p \in Producer, Entered(u, p)'
               PROVE  \/ Entered(u, p)
                      \/ u = t /\ Has(t, p) /\ call[t].pc = "insert"
    OBVIOUS
  <2> HIDE DEF H
  <2>8. PICK k \in 1 .. Newest : \E i \in Slots(k) : H'[k][i] = [key |-> u, value |-> p]
    BY <2>5, <2>6 DEF Entered, H
  <2>9. PICK i \in Slots(k) : H'[k][i] = [key |-> u, value |-> p]
    BY <2>8
  <2>10. CASE k = m /\ i = x
    BY <1>1, <2>7, <2>9, <2>10 DEF Has
  <2>11. CASE k # m \/ i # x
    <3>1. H[k][i] = [key |-> u, value |-> p]
      BY <2>7, <2>9, <2>11
    <3> QED
      BY <2>8, <3>1 DEF Entered, H
  <2> QED
    BY <2>10, <2>11
<1> QED
  BY <1>3, <1>4

LEMMA AllocateEntered ==
  ASSUME Typed, HashOK, NEW t \in Thread, Allocate(t), Larger(t) # {}
  PROVE  \A u \in Thread, p \in Producer : Entered(u, p)' => Entered(u, p)
<1> DEFINE H == implicitProducerHash
<1>1. PICK n \in Nat \ {0} : n = newCapacity(t)
  BY NewCapacity
<1>2. PICK N \in Nat \ {0} : N = Newest /\ N = Len(H) /\ H \in Seq(AllTables)
  BY NewestFacts DEF HashOK, TablesOK, Newest
<1>3. PICK e : e = Table(n) /\ H' = Append(H, e)
  BY <1>1 DEF Allocate
<1>4. /\ Newest' = N + 1 /\ H'[N + 1] = e
      /\ \A k \in 1 .. N : H'[k] = H[k]
  <2>1. Len(H') = N + 1 /\ H'[N + 1] = e /\ \A k \in 1 .. N : H'[k] = H[k]
    BY <1>2, <1>3
  <2> QED
    BY <2>1 DEF Newest
<1>5. DOMAIN e = 0 .. n - 1 /\ \A i \in 0 .. n - 1 : e[i].key = Nil
  BY <1>3 DEF Table
<1>6. Slots(N + 1)' = 0 .. n - 1
  <2>1. PICK a, b \in Int : a = 0 /\ b = n - 1
    OBVIOUS
  <2>2. Cardinality(a .. b) = IF a > b THEN 0 ELSE b - a + 1
    BY FS_Interval
  <2> QED
    BY <1>4, <1>5, <2>1, <2>2 DEF Slots, capacity
<1>7. \A k \in 1 .. N : Slots(k)' = Slots(k)
  BY <1>4 DEF Slots, capacity
<1> SUFFICES ASSUME NEW u \in Thread, NEW p \in Producer, Entered(u, p)'
             PROVE  Entered(u, p)
  OBVIOUS
<1> HIDE DEF H
<1>8. PICK k \in 1 .. N + 1 : \E i \in Slots(k)' : H'[k][i] = [key |-> u, value |-> p]
  BY <1>4 DEF Entered, H
<1>9. PICK i \in Slots(k)' : H'[k][i] = [key |-> u, value |-> p]
  BY <1>8
<1>10. H'[k][i].key = u /\ u # Nil
  BY <1>9, ProducerListAssumption
<1>11. k # N + 1
  BY <1>4, <1>5, <1>6, <1>10
<1>12. k \in 1 .. N
  BY <1>2, <1>8, <1>11
<1> QED
  BY <1>2, <1>4, <1>7, <1>9, <1>12 DEF Entered, H

LEMMA HashStepOwned ==
  ASSUME Typed, HashOK, Ownership, NEW t \in Thread, HashStep(t),
         UNCHANGED <<setup, content, rotation, rest>>
  PROVE  Ownership'
<1> DEFINE c == call[t]
<1>1. /\ UNCHANGED <<setup, states, tokenProducer, alive>> /\ Listed' = Listed
  BY ListSame DEF HashStep, Probe, Insert, Add, TestAndSet, Resize, Allocate, Clear, Room, New,
                  list, rest
<1>2. /\ c.pc = "probe" => c \in [pc : {"probe"}, main : Nat, table : Nat, index : Nat]
      /\ c.pc = "insert" => c \in [pc : {"insert"}, main : Nat, producer : Producer, index : Nat]
      /\ c.pc \in ResizePcs => c \in [pc : ResizePcs, main : Nat, count : Int]
      /\ c.pc = "new" =>
           /\ c \in [producer : ProducerOrNil, recycled : BOOLEAN, back : Back,
                     pc : {"register", "new"}]
           /\ c.pc = c.back.pc
  BY FrameShapes DEF Typed
<1>3. /\ c.pc \in {"probe", "insert", "add", "giveup", "new"} \cup ResizePcs
      /\ c.pc \notin AddPcs
  BY DEF HashStep, Probe, Insert, Add, TestAndSet, Resize, Allocate, Clear, Room, New,
         At, ResizePcs, AddPcs
<1>4. ASSUME NEW f, Go(t, f), f.pc \in {"probe", "add", "giveup"} \cup ResizePcs,
             \A u \in Thread, p \in Producer : Entered(u, p)' => Entered(u, p)
      PROVE  Ownership'
  <2>1. FrameFits(t, f)
    BY <1>3, <1>4 DEF FrameFits, ResizePcs, ListPcs, AddPcs, HasPcs
  <2> QED
    BY <1>1, <1>4, <2>1, PlainStep
<1>5. ASSUME NEW f, Go(t, f), f.pc \in {"insert", "got"},
             \A p \in Producer : f.producer = p => Mine(t, p) /\ ~isExplicit[p],
             \A u \in Thread, p \in Producer : Entered(u, p)' =>
               \/ Entered(u, p)
               \/ u = t /\ Has(t, p) /\ c.pc = "insert"
      PROVE  Ownership'
  <2>1. FrameFits(t, f)
    BY <1>3, <1>5 DEF FrameFits, ResizePcs, ListPcs, AddPcs, HasPcs
  <2> QED
    BY <1>1, <1>5, <2>1, PlainStep
<1>6. ASSUME NEW p \in Producer, Has(t, p), c.pc \in {"insert", "new"}
      PROVE  Mine(t, p) /\ ~isExplicit[p]
  BY <1>6 DEF Mine, Ownership, Kinds
<1>7. CASE Probe(t)
  <2>1. PICK k : k = c.table /\ c.pc = "probe"
    BY <1>7 DEF Probe, At
  <2>2. Searched(t, c) /\ MainsExist(c) /\ Newest \in Nat
    BY NewestFacts DEF HashOK, TablesOK
  <2>3. k \in 1 .. Newest /\ c.index \in Slots(k)
    BY <2>1, <2>2 DEF Searched, MainsExist
  <2>4. PICK e \in Entry : e = implicitProducerHash[k][c.index]
    BY <2>3, TableFacts DEF HashOK
  <2>5. implicitProducerHash' = implicitProducerHash
    BY <1>7 DEF Probe, hashes
  <2>6. CASE e.key = t
    <3>1. Entered(t, e.value)
      <4>1. e = [key |-> t, value |-> e.value]
        BY <2>6 DEF Entry
      <4> QED
        BY <2>3, <2>4, <4>1 DEF Entered
    <3>2. \A p \in Producer : e.value = p => Mine(t, p) /\ ~isExplicit[p]
      BY <3>1 DEF Mine, Ownership, Kinds
    <3>3. PICK y : Go(t, [pc |-> "got", producer |-> e.value])
                   \/ Go(t, [pc |-> "insert", main |-> c.main, producer |-> e.value,
                             index |-> y])
      BY <1>7, <2>1, <2>4, <2>6 DEF Probe
    <3>4. \A u, p : Entered(u, p)' <=> Entered(u, p)
      BY <2>5, EnteredSame
    <3> DEFINE f == [pc |-> "got", producer |-> e.value]
               g == [pc |-> "insert", main |-> c.main, producer |-> e.value, index |-> y]
    <3>5. f.pc = "got" /\ f.producer = e.value /\ g.pc = "insert" /\ g.producer = e.value
      OBVIOUS
    <3>6. Go(t, f) \/ Go(t, g)
      BY <3>3
    <3> HIDE DEF f, g
    <3>7. CASE Go(t, f)
      BY <1>5, <3>2, <3>4, <3>5, <3>7
    <3>8. CASE Go(t, g)
      BY <1>5, <3>2, <3>4, <3>5, <3>8
    <3> QED
      BY <3>6, <3>7, <3>8
  <2>7. CASE e.key # t
    <3>1. \E f : Go(t, f) /\ f.pc \in {"probe", "add"}
      <4>1. \/ \E y : Go(t, [c EXCEPT !.index = y])
            \/ \E y : Go(t, [c EXCEPT !.table = k - 1, !.index = y])
            \/ Go(t, [pc |-> "add", main |-> c.main])
        BY <1>2, <1>7, <2>1, <2>4, <2>7 DEF Probe
      <4>2. CASE \E y : Go(t, [c EXCEPT !.index = y])
        BY <1>2, <2>1, <4>2
      <4>3. CASE \E y : Go(t, [c EXCEPT !.table = k - 1, !.index = y])
        <5>1. PICK y : Go(t, [c EXCEPT !.table = k - 1, !.index = y])
          BY <4>3
        <5> DEFINE f == [c EXCEPT !.table = k - 1, !.index = y]
        <5>2. f.pc = "probe"
          BY <1>2, <2>1
        <5> HIDE DEF f
        <5> QED
          BY <5>1, <5>2 DEF f
      <4>4. CASE Go(t, [pc |-> "add", main |-> c.main])
        BY <4>4
      <4> QED
        BY <4>1, <4>2, <4>3, <4>4
    <3>2. \A u, p : Entered(u, p)' <=> Entered(u, p)
      BY <2>5, EnteredSame
    <3> QED
      BY <1>4, <3>1, <3>2
  <2> QED
    BY <2>6, <2>7
<1>8. CASE Insert(t)
  <2>1. c.pc = "insert" /\ \A p \in Producer : c.producer = p => Has(t, p)
    BY <1>8 DEF Insert, At, Has
  <2>2. PICK f : Go(t, f) /\ f.pc \in {"insert", "got"} /\ f.producer = c.producer
    <3>1. \/ \E y : Go(t, [c EXCEPT !.index = y])
          \/ Go(t, [pc |-> "got", producer |-> c.producer])
      BY <1>8 DEF Insert
    <3>2. c \in [pc : {"insert"}, main : Nat, producer : Producer, index : Nat]
      BY <1>2, <2>1
    <3>3. \A y : /\ [c EXCEPT !.index = y].pc = "insert"
                 /\ [c EXCEPT !.index = y].producer = c.producer
      <4> HIDE DEF c
      <4> QED
        BY <3>2
    <3>4. CASE \E y : Go(t, [c EXCEPT !.index = y])
      <4>1. PICK y : Go(t, [c EXCEPT !.index = y])
        BY <3>4
      <4> DEFINE f == [c EXCEPT !.index = y]
      <4>2. Go(t, f) /\ f.pc = "insert" /\ f.producer = c.producer
        BY <3>3, <4>1
      <4> HIDE DEF f
      <4> QED
        BY <4>2
    <3>5. CASE Go(t, [pc |-> "got", producer |-> c.producer])
      BY <3>5
    <3> QED
      BY <3>1, <3>4, <3>5
  <2>3. \A p \in Producer : f.producer = p => Mine(t, p) /\ ~isExplicit[p]
    BY <1>6, <2>1, <2>2
  <2> QED
    BY <1>5, <1>8, <2>1, <2>2, <2>3, InsertEntered
<1>9. CASE Add(t) \/ TestAndSet(t) \/ Resize(t) \/ (Allocate(t) /\ Larger(t) = {})
           \/ (Clear(t) /\ At(t, "clear")) \/ (Room(t) /\ ~(c.count < Limit(capacity(c.main))))
  <2>1. implicitProducerHash' = implicitProducerHash
    BY <1>9 DEF Add, TestAndSet, Resize, Allocate, Clear, Room, hashes
  <2>2. PICK f : Go(t, f) /\ f.pc \in {"giveup"} \cup ResizePcs
    <3>1. CASE Add(t) \/ (Allocate(t) /\ Larger(t) = {})
      <4>1. \/ \E m, n : Go(t, [pc |-> "load", main |-> m, count |-> n])
            \/ Go(t, [pc |-> "giveup"])
        BY <3>1 DEF Add, Allocate
      <4>2. CASE \E m, n : Go(t, [pc |-> "load", main |-> m, count |-> n])
        BY <4>2 DEF ResizePcs
      <4>3. CASE Go(t, [pc |-> "giveup"])
        BY <4>3
      <4> QED
        BY <4>1, <4>2, <4>3
    <3>2. CASE TestAndSet(t) \/ Resize(t) \/ (Clear(t) /\ At(t, "clear"))
               \/ (Room(t) /\ ~(c.count < Limit(capacity(c.main))))
      <4>1. PICK l \in ResizePcs :
              \/ Go(t, [c EXCEPT !.pc = l])
              \/ Go(t, [c EXCEPT !.pc = l, !.main = Newest])
              \/ Go(t, [c EXCEPT !.main = Newest, !.pc = l])
        <5>1. CASE TestAndSet(t) \/ (Clear(t) /\ At(t, "clear"))
          BY <5>1 DEF TestAndSet, Clear, At, ResizePcs
        <5>2. CASE Resize(t) \/ (Room(t) /\ ~(c.count < Limit(capacity(c.main))))
          BY <5>2 DEF Resize, Room, ResizePcs
        <5> QED
          BY <3>2, <5>1, <5>2
      <4>2. c \in [pc : ResizePcs, main : Nat, count : Int]
        BY <1>2, <3>2 DEF TestAndSet, Resize, Clear, Room, At, ResizePcs
      <4>3. \A f \in {[c EXCEPT !.pc = l], [c EXCEPT !.pc = l, !.main = Newest],
                      [c EXCEPT !.main = Newest, !.pc = l]} : f.pc = l
        BY <4>2
      <4> QED
        BY <4>1, <4>3
    <3> QED
      BY <1>9, <3>1, <3>2
  <2> QED
    BY <1>4, <2>1, <2>2, EnteredSame
<1>10. CASE Allocate(t) /\ Larger(t) # {}
  <2>1. Go(t, [c EXCEPT !.main = Newest + 1, !.pc = "clear"]) /\ c.pc = "allocate"
    BY <1>10 DEF Allocate, At
  <2> DEFINE f == [c EXCEPT !.main = Newest + 1, !.pc = "clear"]
  <2>2. f.pc = "clear"
    BY <1>2, <2>1 DEF ResizePcs
  <2> HIDE DEF f
  <2>3. Go(t, f)
    BY <2>1 DEF f
  <2> QED
    BY <1>4, <1>10, <2>2, <2>3, AllocateEntered DEF ResizePcs
<1>11. CASE Clear(t) /\ At(t, "giveup")
  <2>1. Go(t, [pc |-> "got", producer |-> Nil]) /\ implicitProducerHash' = implicitProducerHash
    BY <1>11 DEF Clear
  <2>2. \A u, p : Entered(u, p)' <=> Entered(u, p)
    BY <2>1, EnteredSame
  <2> DEFINE f == [pc |-> "got", producer |-> Nil]
  <2>3. f.pc = "got" /\ f.producer \notin Producer
    BY ProducerListAssumption
  <2> HIDE DEF f
  <2>4. Go(t, f)
    BY <2>1 DEF f
  <2> QED
    BY <1>5, <2>2, <2>3, <2>4
<1>12. CASE Room(t) /\ c.count < Limit(capacity(c.main))
  <2> DEFINE f == [pc |-> "scan", ptr |-> producerListTail, explicit |-> FALSE,
                   back |-> [pc |-> "new", main |-> c.main]]
  <2>1. Go(t, f) /\ implicitProducerHash' = implicitProducerHash
    BY <1>12 DEF Room, RecycleOrCreate, hashes
  <2>2. FrameFits(t, f)
    BY <1>3 DEF FrameFits, AddPcs, HasPcs
  <2> QED
    BY <1>1, <2>1, <2>2, EnteredSame, PlainStep
<1>13. CASE New(t)
  <2>1. c.pc = "new" /\ \A p \in Producer : c.producer = p => Has(t, p)
    BY <1>13 DEF New, At, Has
  <2>2. implicitProducerHash' = implicitProducerHash
    BY <1>13 DEF New
  <2>3. PICK f : Go(t, f) /\ f.pc \in {"insert", "got"} /\ f.producer = c.producer
    <3>1. \/ \E m, y : Go(t, [pc |-> "insert", main |-> m, producer |-> c.producer,
                              index |-> y])
          \/ Go(t, [pc |-> "got", producer |-> Nil]) /\ c.producer = Nil
      BY <1>13 DEF New
    <3>2. CASE \E m, y : Go(t, [pc |-> "insert", main |-> m, producer |-> c.producer,
                                 index |-> y])
      BY <3>2
    <3>3. CASE Go(t, [pc |-> "got", producer |-> Nil]) /\ c.producer = Nil
      BY <3>3
    <3> QED
      BY <3>1, <3>2, <3>3
  <2>4. \A p \in Producer : f.producer = p => Mine(t, p) /\ ~isExplicit[p]
    BY <1>6, <2>1, <2>3
  <2> QED
    <3>1. \A u, p : Entered(u, p)' <=> Entered(u, p)
      BY <2>2, EnteredSame
    <3> QED
      BY <1>5, <2>3, <2>4, <3>1
<1> QED
  BY <1>7, <1>8, <1>9, <1>10, <1>11, <1>12, <1>13 DEF HashStep, Clear

(* The list.  What a call goes back to it keeps.                           *)
LEMMA BackKept ==
  ASSUME Ownership, NEW t \in Thread, call[t].pc \in ListPcs
  PROVE  call[t].back.pc = "register" =>
           tokenProducer[call[t].back.token] = Nil /\ setup.owner[call[t].back.token] = t
  BY DEF Ownership, Kinds

LEMMA GrabOwned ==
  ASSUME Typed, Ownership, NEW t \in Thread, Grab(t), inactive[call[t].ptr],
         UNCHANGED <<setup, hashes, content, rotation, rest>>
  PROVE  Ownership'
<1>1. PICK c : /\ c = call[t] /\ c.pc = "grab"
               /\ c \in [pc : ListPcs, ptr : ProducerOrNil, explicit : BOOLEAN, back : Back]
               /\ c.ptr \in Producer /\ (c.explicit <=> c.back.pc = "register")
               /\ c.ptr \notin unborn /\ isExplicit[c.ptr] /\ c.explicit
  BY FrameShapes DEF Grab, At, Typed, ListPcs, Ownership, Kinds
<1>2. PICK p \in Producer : p = c.ptr
  BY <1>1
<1> DEFINE f == [producer |-> p, recycled |-> TRUE, back |-> c.back, pc |-> "register"]
<1>3. Go(t, f)
  BY <1>1, <1>2 DEF Grab, Return
<1>4. f.pc = "register" /\ f.producer = p /\ f.back = c.back /\ f.recycled
  OBVIOUS
<1> HIDE DEF f
<1>5. /\ call'[t] = f /\ \A u \in Thread \ {t} : call'[u] = call[u]
      /\ \A q : Adds(t, q)' <=> f.pc \in AddPcs /\ f.ptr = q
      /\ \A q : Has(t, q)' <=> f.pc \in HasPcs /\ f.producer = q
      /\ \A u \in Thread \ {t} : \A q : (Adds(u, q)' <=> Adds(u, q)) /\ (Has(u, q)' <=> Has(u, q))
  BY <1>3, Moves
<1>6. /\ inactive' = [inactive EXCEPT ![p] = FALSE] /\ inactive \in [Producer -> BOOLEAN]
      /\ UNCHANGED <<isExplicit, token, unborn, tokenProducer, alive>> /\ Listed' = Listed
      /\ inactive[p]
  BY <1>1, <1>2, ListSame DEF Grab, list, rest, Typed, VarsTyped
<1>7. \A u, q : Entered(u, q)' <=> Entered(u, q)
  BY EnteredSame DEF hashes
<1>8. /\ \A u \in Thread : ~Mine(u, p)
      /\ p \notin unborn /\ token[p] = Nil /\ \A k \in Token : tokenProducer[k] # p
      /\ p \in Listed /\ isExplicit[p]
  BY <1>6 DEF Ownership, Owned
<1>9. \A u \in Thread, q \in Producer : ~Adds(t, q) /\ ~Adds(t, q)' /\ (Adds(u, q)' <=> Adds(u, q))
  BY <1>1, <1>4, <1>5 DEF Adds, AddPcs
<1>10. \A u \in Thread, q \in Producer : Mine(u, q)' => Mine(u, q) \/ (u = t /\ q = p)
  <2> SUFFICES ASSUME NEW u \in Thread, NEW q \in Producer, Mine(u, q)', ~(u = t /\ q = p)
               PROVE  Mine(u, q)
    OBVIOUS
  <2>1. Adds(u, q)' \/ Has(u, q)' \/ Entered(u, q)'
    BY DEF Mine
  <2>2. Has(u, q)' => Has(u, q)
    BY <1>4, <1>5
  <2> QED
    BY <1>7, <1>9, <2>1, <2>2 DEF Mine
<1>11. Owned'
  BY <1>6, <1>8, <1>10 DEF Ownership, Owned, Valid
<1>12. Kinds'
  <2>1. ASSUME NEW u \in Thread, NEW q \in Producer
        PROVE  /\ Adds(u, q)' => (isExplicit[q] <=> call'[u].explicit)
               /\ Has(u, q)' => /\ isExplicit[q] <=> call'[u].pc \in {"register", "deactivate"}
                                /\ isExplicit[q] => q \in Listed
               /\ Entered(u, q)' => ~isExplicit[q]
    <3>1. CASE u = t
      BY <1>4, <1>5, <1>7, <1>8, <1>9, <3>1 DEF Ownership, Kinds
    <3>2. CASE u # t
      BY <1>5, <1>7, <3>2 DEF Ownership, Kinds
    <3> QED
      BY <3>1, <3>2
  <2>2. ASSUME NEW u \in Thread
        PROVE  LET g == call'[u] IN
               /\ g.pc = "grab" => g.ptr \notin unborn /\ isExplicit[g.ptr] /\ g.explicit
               /\ g.pc = "new" => ~g.recycled
               /\ g.pc \in ListPcs \cup {"register"} /\ g.back.pc = "register" =>
                    tokenProducer[g.back.token] = Nil /\ setup.owner[g.back.token] = u
    <3>1. CASE u = t
      BY <1>1, <1>4, <1>5, <3>1, BackKept DEF ListPcs
    <3>2. CASE u # t
      BY <1>5, <3>2 DEF Ownership, Kinds
    <3> QED
      BY <3>1, <3>2
  <2> QED
    BY <1>6, <2>1, <2>2 DEF Kinds
<1>13. ListOK'
  BY <1>6, <1>9 DEF Ownership, ListOK, InitiallyListed
<1> QED
  BY <1>11, <1>12, <1>13 DEF Ownership

LEMMA CreateOwned ==
  ASSUME Typed, Ownership, NEW t \in Thread, Create(t), unborn # {},
         UNCHANGED <<setup, hashes, content, rotation, rest>>
  PROVE  Ownership'
<1>1. PICK c : /\ c = call[t] /\ c.pc = "create"
               /\ c \in [pc : ListPcs, ptr : ProducerOrNil, explicit : BOOLEAN, back : Back]
  BY FrameShapes DEF Create, At, Typed, ListPcs
<1>2. PICK p \in Producer :
        /\ p \in unborn /\ p \in setup.producers /\ unborn' = unborn \ {p}
        /\ isExplicit' = [isExplicit EXCEPT ![p] = c.explicit]
        /\ Go(t, [c EXCEPT !.pc = "fetch_add", !.ptr = p])
  BY <1>1, ProducerListAssumption DEF Create, Typed, VarsTyped
<1> DEFINE f == [c EXCEPT !.pc = "fetch_add", !.ptr = p]
<1>3. f.pc = "fetch_add" /\ f.ptr = p /\ f.explicit = c.explicit /\ f.back = c.back
  BY <1>1
<1> HIDE DEF f
<1>4. Go(t, f)
  BY <1>2 DEF f
<1>5. /\ call'[t] = f /\ \A u \in Thread \ {t} : call'[u] = call[u]
      /\ \A q : Adds(t, q)' <=> f.pc \in AddPcs /\ f.ptr = q
      /\ \A q : Has(t, q)' <=> f.pc \in HasPcs /\ f.producer = q
      /\ \A u \in Thread \ {t} : \A q : (Adds(u, q)' <=> Adds(u, q)) /\ (Has(u, q)' <=> Has(u, q))
  BY <1>4, Moves
<1>6. /\ UNCHANGED <<inactive, token, tokenProducer, alive>> /\ Listed' = Listed
      /\ \A q \in Producer \ {p} : isExplicit'[q] = isExplicit[q]
      /\ isExplicit'[p] = c.explicit
  BY <1>2, ListSame DEF Create, list, rest, Typed, VarsTyped
<1>7. \A u, q : Entered(u, q)' <=> Entered(u, q)
  BY EnteredSame DEF hashes
<1>8. /\ \A u \in Thread : ~Mine(u, p)
      /\ ~inactive[p] /\ token[p] = Nil /\ \A k \in Token : tokenProducer[k] # p
  BY <1>2 DEF Ownership, Owned
<1>9. /\ \A q : ~Adds(t, q) /\ (Adds(t, q)' <=> q = p) /\ ~Has(t, q)'
      /\ \A u \in Thread : ~Adds(u, p) /\ ~Has(u, p) /\ ~Entered(u, p)
  BY <1>1, <1>3, <1>5, <1>8 DEF Adds, AddPcs, HasPcs, Mine
<1>10. \A u \in Thread, q \in Producer : Mine(u, q)' => Mine(u, q) \/ (u = t /\ q = p)
  <2> SUFFICES ASSUME NEW u \in Thread, NEW q \in Producer, Mine(u, q)', ~(u = t /\ q = p)
               PROVE  Mine(u, q)
    OBVIOUS
  <2>1. Adds(u, q)' \/ Has(u, q)' \/ Entered(u, q)'
    BY DEF Mine
  <2> QED
    BY <1>5, <1>7, <1>9, <2>1 DEF Mine
<1>11. p \notin Listed
  <2>1. p \notin InitiallyListed /\ (\A u \in Thread : ~Adds(u, p))
    BY <1>2, <1>9, ProducerListAssumption DEF InitiallyListed, Typed, VarsTyped
  <2> QED
    BY <1>2, <2>1 DEF Ownership, ListOK
<1>12. Owned'
  <2>1. \A q \in Producer : inactive[q] \/ q \in unborn' =>
          /\ token[q] = Nil /\ \A k \in Token : tokenProducer[k] # q
          /\ inactive[q] => q \in Listed /\ isExplicit'[q] /\ q \notin unborn'
    BY <1>2, <1>6, <1>8 DEF Ownership, Owned
  <2>2. \A k \in Token : Valid(k) =>
          LET q == tokenProducer[k] IN
            alive /\ token[q] = k /\ isExplicit'[q] /\ q \in Listed
    <3> SUFFICES ASSUME NEW k \in Token, Valid(k)
                 PROVE  /\ alive /\ token[tokenProducer[k]] = k
                        /\ isExplicit'[tokenProducer[k]] /\ tokenProducer[k] \in Listed
      OBVIOUS
    <3>1. tokenProducer[k] # p /\ tokenProducer[k] \in Producer
      BY <1>8 DEF Valid, Typed, VarsTyped, ProducerOrNil
    <3> QED
      BY <1>6, <3>1 DEF Ownership, Owned
  <2>3. \A u, v \in Thread, q \in Producer : Mine(u, q)' /\ Mine(v, q)' => u = v
    BY <1>8, <1>10 DEF Ownership, Owned
  <2>4. \A u \in Thread, q \in Producer : Mine(u, q)' =>
          q \notin unborn' /\ ~inactive[q] /\ token[q] = Nil /\ \A k \in Token : tokenProducer[k] # q
    BY <1>2, <1>8, <1>10 DEF Ownership, Owned
  <2>5. \A q \in Producer : alive /\ token[q] # Nil => tokenProducer[token[q]] = q
    BY DEF Ownership, Owned
  <2> QED
    BY <1>6, <2>1, <2>2, <2>3, <2>4, <2>5 DEF Owned, Valid
<1>13. Kinds'
  <2>1. ASSUME NEW u \in Thread, NEW q \in Producer
        PROVE  /\ Adds(u, q)' => (isExplicit'[q] <=> call'[u].explicit)
               /\ Has(u, q)' => /\ isExplicit'[q] <=> call'[u].pc \in {"register", "deactivate"}
                                /\ isExplicit'[q] => q \in Listed
               /\ Entered(u, q)' => ~isExplicit'[q]
    <3>1. CASE q = p
      BY <1>3, <1>5, <1>6, <1>7, <1>9, <3>1
    <3>2. CASE q # p /\ u = t
      BY <1>6, <1>7, <1>9, <3>2 DEF Ownership, Kinds
    <3>3. CASE q # p /\ u # t
      BY <1>5, <1>6, <1>7, <3>3 DEF Ownership, Kinds
    <3> QED
      BY <3>1, <3>2, <3>3
  <2>2. ASSUME NEW u \in Thread
        PROVE  LET g == call'[u] IN
               /\ g.pc = "grab" => g.ptr \notin unborn' /\ isExplicit'[g.ptr] /\ g.explicit
               /\ g.pc = "new" => ~g.recycled
               /\ g.pc \in ListPcs \cup {"register"} /\ g.back.pc = "register" =>
                    tokenProducer[g.back.token] = Nil /\ setup.owner[g.back.token] = u
    <3>1. CASE u = t
      BY <1>1, <1>3, <1>5, <3>1, BackKept DEF ListPcs
    <3>2. CASE u # t
      <4>1. call'[u] = call[u] /\ (call[u].pc = "grab" => call[u].ptr \in Producer)
        BY <1>5, <3>2, FrameShapes DEF Typed, ListPcs
      <4>2. call[u].pc = "grab" => /\ call[u].ptr \notin unborn' /\ isExplicit'[call[u].ptr]
                                   /\ call[u].explicit
        BY <1>2, <1>6, <4>1 DEF Ownership, Kinds
      <4> QED
        BY <4>1, <4>2 DEF Ownership, Kinds
    <3> QED
      BY <3>1, <3>2
  <2> QED
    BY <1>6, <2>1, <2>2 DEF Kinds
<1>14. ListOK'
  <2> SUFFICES ASSUME NEW q \in Producer
               PROVE  /\ \A u \in Thread : Adds(u, q)' => q \notin Listed
                      /\ q \in Listed \/ (\E u \in Thread : Adds(u, q)')
                           <=> q \in (setup.producers \ unborn') \cup InitiallyListed
    BY <1>6 DEF ListOK, InitiallyListed
  <2>1. CASE q = p
    BY <1>2, <1>9, <1>11, <2>1
  <2>2. CASE q # p
    <3>1. \A u \in Thread : Adds(u, q)' <=> Adds(u, q)
      BY <1>5, <1>9, <2>2
    <3> QED
      BY <1>2, <2>2, <3>1 DEF Ownership, ListOK
  <2> QED
    BY <2>1, <2>2
<1> QED
  BY <1>12, <1>13, <1>14 DEF Ownership

LEMMA PushOwned ==
  ASSUME Typed, Ownership, NEW t \in Thread, Push(t), producerListTail = next[call[t].ptr],
         UNCHANGED <<setup, hashes, content, rotation, rest>>
  PROVE  Ownership'
<1>1. PICK c : /\ c = call[t] /\ c.pc = "push"
               /\ c \in [pc : ListPcs, ptr : ProducerOrNil, explicit : BOOLEAN, back : Back]
               /\ c.ptr \in Producer /\ (c.explicit <=> c.back.pc = "register")
               /\ c.back.pc \in {"register", "new"}
  BY FrameShapes, BackShape DEF Push, At, Typed, ListPcs, AddPcs
<1>2. PICK p \in Producer : p = c.ptr
  BY <1>1
<1> DEFINE f == [producer |-> p, recycled |-> FALSE, back |-> c.back, pc |-> c.back.pc]
<1>3. Go(t, f)
  BY <1>1, <1>2 DEF Push, Return
<1>4. f.pc = c.back.pc /\ f.producer = p /\ f.back = c.back /\ ~f.recycled
  OBVIOUS
<1> HIDE DEF f
<1>5. /\ call'[t] = f /\ \A u \in Thread \ {t} : call'[u] = call[u]
      /\ \A q : Adds(t, q)' <=> f.pc \in AddPcs /\ f.ptr = q
      /\ \A q : Has(t, q)' <=> f.pc \in HasPcs /\ f.producer = q
      /\ \A u \in Thread \ {t} : \A q : (Adds(u, q)' <=> Adds(u, q)) /\ (Has(u, q)' <=> Has(u, q))
  BY <1>3, Moves
<1>6. Adds(t, p) /\ p \notin Listed /\ (isExplicit[p] <=> c.explicit)
  BY <1>1, <1>2 DEF Adds, AddPcs, Ownership, ListOK, Kinds
<1>7. /\ UNCHANGED <<isExplicit, inactive, token, unborn, tokenProducer, alive>>
      /\ Listed' = Listed \cup {p}
  BY <1>1, <1>2, <1>6, ListPush DEF Push, states, rest
<1>8. \A u, q : Entered(u, q)' <=> Entered(u, q)
  BY EnteredSame DEF hashes
<1>9. /\ \A q : ~Adds(t, q)' /\ (Adds(t, q) <=> q = p) /\ (Has(t, q)' <=> q = p)
      /\ f.pc \in {"register", "new"}
  BY <1>1, <1>2, <1>4, <1>5 DEF Adds, AddPcs, HasPcs
<1>10. \A u \in Thread, q \in Producer : Mine(u, q)' => Mine(u, q)
  <2> SUFFICES ASSUME NEW u \in Thread, NEW q \in Producer, Mine(u, q)' PROVE Mine(u, q)
    OBVIOUS
  <2>1. Adds(u, q)' \/ Has(u, q)' \/ Entered(u, q)'
    BY DEF Mine
  <2> QED
    BY <1>5, <1>6, <1>8, <1>9, <2>1 DEF Mine
<1>11. Owned'
  BY <1>7, <1>10 DEF Ownership, Owned, Valid
<1>12. Kinds'
  <2>1. ASSUME NEW u \in Thread, NEW q \in Producer
        PROVE  /\ Adds(u, q)' => (isExplicit[q] <=> call'[u].explicit)
               /\ Has(u, q)' => /\ isExplicit[q] <=> call'[u].pc \in {"register", "deactivate"}
                                /\ isExplicit[q] => q \in Listed'
               /\ Entered(u, q)' => ~isExplicit[q]
    <3>1. CASE u = t
      <4>1. q = p => (isExplicit[q] <=> f.pc \in {"register", "deactivate"})
        BY <1>1, <1>4, <1>6
      <4> QED
        BY <1>5, <1>7, <1>8, <1>9, <3>1, <4>1 DEF Ownership, Kinds
    <3>2. CASE u # t
      BY <1>5, <1>7, <1>8, <3>2 DEF Ownership, Kinds
    <3> QED
      BY <3>1, <3>2
  <2>2. ASSUME NEW u \in Thread
        PROVE  LET g == call'[u] IN
               /\ g.pc = "grab" => g.ptr \notin unborn /\ isExplicit[g.ptr] /\ g.explicit
               /\ g.pc = "new" => ~g.recycled
               /\ g.pc \in ListPcs \cup {"register"} /\ g.back.pc = "register" =>
                    tokenProducer[g.back.token] = Nil /\ setup.owner[g.back.token] = u
    <3>1. CASE u = t
      BY <1>1, <1>4, <1>5, <1>9, <3>1, BackKept
    <3>2. CASE u # t
      BY <1>5, <3>2 DEF Ownership, Kinds
    <3> QED
      BY <3>1, <3>2
  <2> QED
    BY <1>7, <2>1, <2>2 DEF Kinds
<1>13. ListOK'
  <2> SUFFICES ASSUME NEW q \in Producer
               PROVE  /\ \A u \in Thread : Adds(u, q)' => q \notin Listed'
                      /\ q \in Listed' \/ (\E u \in Thread : Adds(u, q)')
                           <=> q \in (setup.producers \ unborn) \cup InitiallyListed
    BY <1>7 DEF ListOK, InitiallyListed
  <2>1. CASE q = p
    <3>1. \A u \in Thread : ~Adds(u, q)'
      <4> SUFFICES ASSUME NEW u \in Thread, u # t, Adds(u, q)' PROVE FALSE
        BY <1>9
      <4>1. Mine(u, p) /\ Mine(t, p)
        BY <1>5, <1>6, <2>1 DEF Mine
      <4> QED
        BY <4>1 DEF Ownership, Owned
    <3> QED
      BY <1>6, <1>7, <2>1, <3>1 DEF Ownership, ListOK
  <2>2. CASE q # p
    <3>1. \A u \in Thread : Adds(u, q)' <=> Adds(u, q)
      BY <1>5, <1>9, <2>2
    <3> QED
      BY <1>7, <2>2, <3>1 DEF Ownership, ListOK
  <2> QED
    BY <2>1, <2>2
<1> QED
  BY <1>11, <1>12, <1>13 DEF Ownership

LEMMA ListStepOwned ==
  ASSUME Typed, Ownership, NEW t \in Thread, ListStep(t),
         UNCHANGED <<setup, hashes, content, rotation, rest>>
  PROVE  Ownership'
<1>1. PICK c : /\ c = call[t] /\ c.pc \in ListPcs
               /\ c \in [pc : ListPcs, ptr : ProducerOrNil, explicit : BOOLEAN, back : Back]
               /\ c.pc \in AddPcs \cup {"grab"} => c.ptr \in Producer
               /\ c.back.pc = "register" =>
                    tokenProducer[c.back.token] = Nil /\ setup.owner[c.back.token] = t
               /\ c.back.pc \in {"register", "new"}
  BY FrameShapes, BackShape, ListStepFrame, BackKept DEF Typed
<1>2. UNCHANGED <<tokenProducer, alive, setup>> /\ \A u, q : Entered(u, q)' <=> Entered(u, q)
  BY EnteredSame DEF hashes, rest
<1>3. ASSUME NEW f, Go(t, f), UNCHANGED states, Listed' = Listed,
             f.back = c.back,
             \/ c.pc \notin AddPcs /\ f.pc \in {"scan", "create"}
             \/ c.pc \notin AddPcs /\ f.pc = "grab" /\ inactive[f.ptr] /\ f.ptr \in Producer
                  /\ (isExplicit[f.ptr] <=> f.explicit)
             \/ c.pc \notin AddPcs /\ f.pc \in {"register", "new"} /\ f.producer = Nil /\ ~f.recycled
             \/ c.pc \in AddPcs /\ f.pc \in AddPcs /\ f.ptr = c.ptr /\ f.explicit = c.explicit
      PROVE  Ownership'
  <2>1. /\ f.pc \in AddPcs <=> c.pc \in AddPcs
        /\ f.pc \in AddPcs => f.ptr = c.ptr /\ f.explicit = c.explicit
        /\ f.pc \in HasPcs => f.producer \notin Producer
        /\ f.pc = "new" => ~f.recycled
    BY <1>3, ProducerListAssumption DEF AddPcs, HasPcs
  <2>2. f.pc = "grab" => f.ptr \notin unborn /\ isExplicit[f.ptr] /\ f.explicit
    <3> SUFFICES ASSUME f.pc = "grab"
                 PROVE  f.ptr \notin unborn /\ isExplicit[f.ptr] /\ f.explicit
      OBVIOUS
    <3>1. inactive[f.ptr] /\ f.ptr \in Producer /\ (isExplicit[f.ptr] <=> f.explicit)
      BY <1>3 DEF AddPcs
    <3>2. \A p \in Producer : inactive[p] => isExplicit[p] /\ p \notin unborn
      BY DEF Ownership, Owned
    <3> QED
      BY <3>1, <3>2
  <2>3. FrameFits(t, f)
    BY <1>1, <1>3, <2>1, <2>2 DEF FrameFits
  <2> QED
    BY <1>2, <1>3, <2>3, PlainStep
<1>4. CASE Scan(t)
  <2>1. /\ c.pc = "scan" /\ UNCHANGED states /\ Listed' = Listed
    BY <1>1, <1>4, ListSame DEF Scan, At, list
  <2>2. CASE c.ptr = Nil
    <3> DEFINE f == [c EXCEPT !.pc = "create"]
    <3>1. f.pc = "create" /\ f.back = c.back
      BY <1>1
    <3> HIDE DEF f
    <3>2. Go(t, f)
      BY <1>1, <1>4, <2>2 DEF Scan, f
    <3> QED
      BY <1>3, <2>1, <3>1, <3>2 DEF AddPcs
  <2>3. CASE c.ptr # Nil /\ inactive[c.ptr] /\ isExplicit[c.ptr] = c.explicit
    <3> DEFINE f == [c EXCEPT !.pc = "grab"]
    <3>1. f.pc = "grab" /\ f.back = c.back /\ f.ptr = c.ptr /\ f.explicit = c.explicit
      BY <1>1
    <3> HIDE DEF f
    <3>2. Go(t, f)
      BY <1>1, <1>4, <2>3 DEF Scan, f
    <3>3. c.ptr \in Producer /\ inactive[f.ptr] /\ isExplicit[f.ptr] = f.explicit
      BY <1>1, <2>3, <3>1 DEF ProducerOrNil
    <3> QED
      BY <1>3, <2>1, <3>1, <3>2, <3>3 DEF AddPcs
  <2>4. CASE c.ptr # Nil /\ ~(inactive[c.ptr] /\ isExplicit[c.ptr] = c.explicit)
    <3> DEFINE f == [c EXCEPT !.ptr = next[c.ptr]]
    <3>1. f.pc = "scan" /\ f.back = c.back
      BY <1>1, <2>1
    <3> HIDE DEF f
    <3>2. Go(t, f)
      BY <1>1, <1>4, <2>4 DEF Scan, f
    <3> QED
      BY <1>3, <2>1, <3>1, <3>2 DEF AddPcs
  <2> QED
    BY <2>2, <2>3, <2>4
<1>5. CASE Grab(t)
  <2>1. CASE inactive[c.ptr]
    BY <1>1, <1>5, <2>1, GrabOwned
  <2>2. CASE ~inactive[c.ptr]
    <3>1. /\ c.pc = "grab" /\ UNCHANGED states /\ Listed' = Listed
      BY <1>1, <1>5, <2>2, ListSame DEF Grab, At, list, states
    <3> DEFINE f == [c EXCEPT !.pc = "scan", !.ptr = next[c.ptr]]
    <3>2. f.pc = "scan" /\ f.back = c.back
      BY <1>1
    <3> HIDE DEF f
    <3>3. Go(t, f)
      BY <1>1, <1>5, <2>2 DEF Grab, f
    <3> QED
      BY <1>3, <3>1, <3>2, <3>3 DEF AddPcs
  <2> QED
    BY <2>1, <2>2
<1>6. CASE Create(t)
  <2>1. CASE unborn # {}
    BY <1>6, <2>1, CreateOwned
  <2>2. CASE unborn = {}
    <3>1. /\ c.pc = "create" /\ UNCHANGED states /\ Listed' = Listed
      BY <1>1, <1>6, <2>2, ListSame DEF Create, At, list, states
    <3> DEFINE f == [producer |-> Nil, recycled |-> FALSE, back |-> c.back, pc |-> c.back.pc]
    <3>2. f.pc = c.back.pc /\ f.producer = Nil /\ f.back = c.back /\ ~f.recycled
      OBVIOUS
    <3> HIDE DEF f
    <3>3. Go(t, f)
      BY <1>1, <1>6, <2>2 DEF Create, Return, f
    <3> QED
      BY <1>1, <1>3, <3>1, <3>2, <3>3 DEF AddPcs
  <2> QED
    BY <2>1, <2>2
<1>7. CASE CountProducer(t)
  <2>1. /\ c.pc = "fetch_add" /\ UNCHANGED states /\ Listed' = Listed
    BY <1>1, <1>7, ListSame DEF CountProducer, At
  <2> DEFINE f == [c EXCEPT !.pc = "link"]
  <2>2. f.pc = "link" /\ f.back = c.back /\ f.ptr = c.ptr /\ f.explicit = c.explicit
    BY <1>1
  <2> HIDE DEF f
  <2>3. Go(t, f)
    BY <1>1, <1>7 DEF CountProducer, f
  <2> QED
    BY <1>3, <2>1, <2>2, <2>3 DEF AddPcs
<1>8. ASSUME c.pc \in {"link", "push"}, next' = [next EXCEPT ![c.ptr] = producerListTail],
             producerListTail' = producerListTail
      PROVE  Listed' = Listed
  <2>1. PICK p \in Producer : p = c.ptr /\ p \notin Listed
    <3>1. Adds(t, c.ptr) /\ c.ptr \in Producer
      BY <1>1, <1>8 DEF Adds, AddPcs
    <3> QED
      BY <3>1 DEF Ownership, ListOK
  <2>2. /\ next' \in [Producer -> ProducerOrNil] /\ producerListTail \in ProducerOrNil
        /\ \A b \in Producer \ {p} : next'[b] = next[b]
    BY <1>8, <2>1 DEF Typed, VarsTyped
  <2>3. PICK q \in ProducerOrNil : q = producerListTail /\ p \notin From(q)
    BY <2>1, <2>2 DEF Listed
  <2>4. From(q)' = From(q)
    BY <2>2, <2>3, ListWithout
  <2> QED
    BY <1>8, <2>3, <2>4 DEF Listed, From, Closed
<1>9. CASE Link(t)
  <2>1. /\ c.pc = "link" /\ UNCHANGED states /\ Listed' = Listed
    BY <1>1, <1>8, <1>9 DEF Link, At
  <2> DEFINE f == [c EXCEPT !.pc = "push"]
  <2>2. f.pc = "push" /\ f.back = c.back /\ f.ptr = c.ptr /\ f.explicit = c.explicit
    BY <1>1
  <2> HIDE DEF f
  <2>3. Go(t, f)
    BY <1>1, <1>9 DEF Link, f
  <2> QED
    BY <1>3, <2>1, <2>2, <2>3 DEF AddPcs
<1>10. CASE Push(t)
  <2>1. CASE producerListTail = next[c.ptr]
    BY <1>1, <1>10, <2>1, PushOwned
  <2>2. CASE producerListTail # next[c.ptr]
    <3>1. c.pc = "push" /\ UNCHANGED <<states, call>> /\ Listed' = Listed
      BY <1>1, <1>8, <1>10, <2>2 DEF Push, At
    <3> QED
      BY <1>2, <3>1, OwnershipSame DEF hashes
  <2> QED
    BY <2>1, <2>2
<1> QED
  BY <1>4, <1>5, <1>6, <1>7, <1>9, <1>10 DEF ListStep

(* The tokens.                                                             *)
LEMMA RegisterOwned ==
  ASSUME Typed, Ownership, NEW t \in Thread, Register(t)
  PROVE  Ownership'
<1>1. PICK c : /\ c = call[t] /\ c.pc = "register" /\ c.back.pc = "register"
               /\ c.producer \in ProducerOrNil /\ c.back.token \in Token
               /\ tokenProducer[c.back.token] = Nil /\ setup.owner[c.back.token] = t
  BY FrameShapes, BackShape DEF Register, At, Typed, Ownership, Kinds
<1>2. PICK k \in Token, p \in ProducerOrNil : k = c.back.token /\ p = c.producer
  BY <1>1
<1>3. /\ tokenProducer' = [tokenProducer EXCEPT ![k] = p]
      /\ token' = IF p = Nil THEN token ELSE [token EXCEPT ![p] = k]
      /\ UNCHANGED <<setup, list, isExplicit, inactive, unborn, hashes, alive>>
      /\ tokenProducer \in [Token -> ProducerOrNil] /\ token \in [Producer -> Token \cup {Nil}]
      /\ Listed' = Listed /\ alive
  BY <1>1, <1>2, ListSame, CalledAlive DEF Register, Typed, VarsTyped, list, At
<1>4. Go(t, NoCall) /\ NoCall.pc = "idle"
  BY DEF Register, NoCall
<1>5. /\ call'[t] = NoCall /\ \A u \in Thread \ {t} : call'[u] = call[u]
      /\ \A q : Adds(t, q)' <=> NoCall.pc \in AddPcs /\ NoCall.ptr = q
      /\ \A q : Has(t, q)' <=> NoCall.pc \in HasPcs /\ NoCall.producer = q
      /\ \A u \in Thread \ {t} : \A q : (Adds(u, q)' <=> Adds(u, q)) /\ (Has(u, q)' <=> Has(u, q))
  BY <1>4, Moves
<1>6. \A u, q : Entered(u, q)' <=> Entered(u, q)
  BY <1>3, EnteredSame DEF hashes
<1>7. \A q : ~Adds(t, q) /\ ~Adds(t, q)' /\ ~Has(t, q)' /\ (Has(t, q) <=> q = p)
  BY <1>1, <1>2, <1>4, <1>5 DEF Adds, Has, AddPcs, HasPcs
<1>8. p \in Producer =>
        /\ p \notin unborn /\ ~inactive[p] /\ token[p] = Nil
        /\ \A j \in Token : tokenProducer[j] # p
        /\ \A u \in Thread : Mine(u, p) => u = t
        /\ isExplicit[p] /\ p \in Listed
        /\ \A u \in Thread : ~Entered(u, p)
  BY <1>1, <1>7 DEF Mine, Ownership, Owned, Kinds
<1>9. \A u \in Thread, q \in Producer : Mine(u, q)' => Mine(u, q) /\ q # p
  <2> SUFFICES ASSUME NEW u \in Thread, NEW q \in Producer, Mine(u, q)'
               PROVE  Mine(u, q) /\ q # p
    OBVIOUS
  <2>1. Adds(u, q)' \/ Has(u, q)' \/ Entered(u, q)'
    BY DEF Mine
  <2>2. CASE u = t
    BY <1>6, <1>7, <1>8, <2>1, <2>2 DEF Mine
  <2>3. CASE u # t
    BY <1>5, <1>6, <1>8, <2>1, <2>3 DEF Mine
  <2> QED
    BY <2>2, <2>3
<1>10. /\ \A q \in Producer : token'[q] = IF q = p THEN k ELSE token[q]
       /\ \A j \in Token : tokenProducer'[j] = IF j = k THEN p ELSE tokenProducer[j]
       /\ p \in Producer <=> p # Nil
  BY <1>3, ProducerListAssumption DEF ProducerOrNil
<1>11. Owned'
  <2>1. \A u, v \in Thread, q \in Producer : Mine(u, q)' /\ Mine(v, q)' => u = v
    BY <1>9 DEF Ownership, Owned
  <2>2. \A u \in Thread, q \in Producer : Mine(u, q)' =>
          q \notin unborn /\ ~inactive[q] /\ token'[q] = Nil /\ \A j \in Token : tokenProducer'[j] # q
    BY <1>9, <1>10 DEF Ownership, Owned
  <2>3. \A q \in Producer : inactive[q] \/ q \in unborn =>
          /\ token'[q] = Nil /\ \A j \in Token : tokenProducer'[j] # q
          /\ inactive[q] => q \in Listed /\ isExplicit[q] /\ q \notin unborn
    BY <1>8, <1>10 DEF Ownership, Owned
  <2>4. \A j \in Token : tokenProducer'[j] # Nil =>
          LET q == tokenProducer'[j] IN
            alive /\ token'[q] = j /\ isExplicit[q] /\ q \in Listed
    <3> SUFFICES ASSUME NEW j \in Token, tokenProducer'[j] # Nil
                 PROVE  /\ alive /\ token'[tokenProducer'[j]] = j
                        /\ isExplicit[tokenProducer'[j]] /\ tokenProducer'[j] \in Listed
      OBVIOUS
    <3>1. CASE j = k
      BY <1>3, <1>8, <1>10, <3>1
    <3>2. CASE j # k
      <4>1. tokenProducer'[j] = tokenProducer[j] /\ tokenProducer[j] \in Producer
            /\ tokenProducer[j] # p
        BY <1>3, <1>8, <1>10, <3>2 DEF ProducerOrNil
      <4> QED
        BY <1>10, <4>1 DEF Ownership, Owned, Valid
    <3> QED
      BY <3>1, <3>2
  <2>5. \A q \in Producer : alive /\ token'[q] # Nil => tokenProducer'[token'[q]] = q
    <3> SUFFICES ASSUME NEW q \in Producer, alive, token'[q] # Nil
                 PROVE  tokenProducer'[token'[q]] = q
      OBVIOUS
    <3>1. CASE q = p
      BY <1>10, <3>1
    <3>2. CASE q # p
      <4>1. token'[q] = token[q] /\ token[q] \in Token /\ tokenProducer[token[q]] = q
        BY <1>3, <1>10, <3>2 DEF Ownership, Owned
      <4>2. token[q] # k
        BY <1>1, <1>2, <4>1, ProducerListAssumption
      <4> QED
        BY <1>10, <4>1, <4>2
    <3> QED
      BY <3>1, <3>2
  <2> QED
    BY <1>3, <2>1, <2>2, <2>3, <2>4, <2>5 DEF Owned, Valid
<1>12. Kinds'
  <2>1. ASSUME NEW u \in Thread, NEW q \in Producer
        PROVE  /\ Adds(u, q)' => (isExplicit[q] <=> call'[u].explicit)
               /\ Has(u, q)' => /\ isExplicit[q] <=> call'[u].pc \in {"register", "deactivate"}
                                /\ isExplicit[q] => q \in Listed
               /\ Entered(u, q)' => ~isExplicit[q]
    <3>1. CASE u = t
      BY <1>6, <1>7, <3>1 DEF Ownership, Kinds
    <3>2. CASE u # t
      BY <1>5, <1>6, <3>2 DEF Ownership, Kinds
    <3> QED
      BY <3>1, <3>2
  <2>2. ASSUME NEW u \in Thread
        PROVE  LET g == call'[u] IN
               /\ g.pc = "grab" => g.ptr \notin unborn /\ isExplicit[g.ptr] /\ g.explicit
               /\ g.pc = "new" => ~g.recycled
               /\ g.pc \in ListPcs \cup {"register"} /\ g.back.pc = "register" =>
                    tokenProducer'[g.back.token] = Nil /\ setup.owner[g.back.token] = u
    <3>1. CASE u = t
      BY <1>4, <1>5, <3>1 DEF ListPcs, AddPcs
    <3>2. CASE u # t
      <4>1. /\ call'[u] = call[u]
            /\ call[u].pc \in ListPcs \cup {"register"} /\ call[u].back.pc = "register" =>
                 call[u].back.token \in Token
        BY <1>5, <3>2, FrameShapes, BackShape DEF Typed
      <4>2. call[u].pc \in ListPcs \cup {"register"} /\ call[u].back.pc = "register" =>
              tokenProducer'[call[u].back.token] = Nil /\ setup.owner[call[u].back.token] = u
        BY <1>1, <1>2, <1>10, <3>2, <4>1 DEF Ownership, Kinds
      <4> QED
        BY <4>1, <4>2 DEF Ownership, Kinds
    <3> QED
      BY <3>1, <3>2
  <2> QED
    BY <1>3, <2>1, <2>2 DEF Kinds
<1>13. ListOK'
  <2>1. \A u \in Thread, q \in Producer : Adds(u, q)' <=> Adds(u, q)
    BY <1>5, <1>7
  <2> QED
    BY <1>3, <2>1 DEF Ownership, ListOK, InitiallyListed
<1> QED
  BY <1>11, <1>12, <1>13 DEF Ownership

LEMMA DestroyTokenOwned ==
  ASSUME Typed, Ownership, NEW t \in Thread, NEW k \in Token, alive, DestroyToken(t, k)
  PROVE  Ownership'
<1>1. PICK p \in Producer : /\ p = tokenProducer[k] /\ token[p] = k /\ isExplicit[p]
                            /\ p \in Listed
  BY DEF DestroyToken, Valid, Typed, VarsTyped, ProducerOrNil, Ownership, Owned
<1>2. /\ token' = [token EXCEPT ![p] = Nil] /\ tokenProducer' = [tokenProducer EXCEPT ![k] = Nil]
      /\ UNCHANGED <<setup, list, isExplicit, inactive, unborn, hashes, alive>>
      /\ tokenProducer \in [Token -> ProducerOrNil] /\ token \in [Producer -> Token \cup {Nil}]
      /\ Listed' = Listed /\ call[t].pc = "idle"
  BY <1>1, ListSame DEF DestroyToken, Typed, VarsTyped, list, At, Owns
<1> DEFINE f == [pc |-> "deactivate", producer |-> p]
<1>3. f.pc = "deactivate" /\ f.producer = p
  OBVIOUS
<1> HIDE DEF f
<1>4. Go(t, f)
  BY <1>1 DEF DestroyToken, f
<1>5. /\ call'[t] = f /\ \A u \in Thread \ {t} : call'[u] = call[u]
      /\ \A q : Adds(t, q)' <=> f.pc \in AddPcs /\ f.ptr = q
      /\ \A q : Has(t, q)' <=> f.pc \in HasPcs /\ f.producer = q
      /\ \A u \in Thread \ {t} : \A q : (Adds(u, q)' <=> Adds(u, q)) /\ (Has(u, q)' <=> Has(u, q))
  BY <1>4, Moves
<1>6. \A u, q : Entered(u, q)' <=> Entered(u, q)
  BY <1>2, EnteredSame DEF hashes
<1>7. \A q : ~Adds(t, q) /\ ~Adds(t, q)' /\ ~Has(t, q) /\ (Has(t, q)' <=> q = p)
  BY <1>2, <1>3, <1>5 DEF Adds, Has, AddPcs, HasPcs
<1>8. /\ p \notin unborn /\ ~inactive[p] /\ \A u \in Thread : ~Mine(u, p)
      /\ p # Nil /\ k # Nil
  BY <1>1, ProducerListAssumption DEF Ownership, Owned
<1>9. \A u \in Thread, q \in Producer : Mine(u, q)' => Mine(u, q) \/ (u = t /\ q = p)
  <2> SUFFICES ASSUME NEW u \in Thread, NEW q \in Producer, Mine(u, q)', ~(u = t /\ q = p)
               PROVE  Mine(u, q)
    OBVIOUS
  <2>1. Adds(u, q)' \/ Has(u, q)' \/ Entered(u, q)'
    BY DEF Mine
  <2> QED
    BY <1>5, <1>6, <1>7, <2>1 DEF Mine
<1>10. /\ \A q \in Producer : token'[q] = IF q = p THEN Nil ELSE token[q]
       /\ \A j \in Token : tokenProducer'[j] = IF j = k THEN Nil ELSE tokenProducer[j]
  BY <1>2
<1>11. \A j \in Token : tokenProducer'[j] # p
  <2> SUFFICES ASSUME NEW j \in Token, j # k, tokenProducer[j] = p PROVE FALSE
    BY <1>8, <1>10
  <2> QED
    BY <1>1, <1>8 DEF Ownership, Owned, Valid
<1>12. Owned'
  <2>1. \A u, v \in Thread, q \in Producer : Mine(u, q)' /\ Mine(v, q)' => u = v
    BY <1>8, <1>9 DEF Ownership, Owned
  <2>2. \A u \in Thread, q \in Producer : Mine(u, q)' =>
          q \notin unborn /\ ~inactive[q] /\ token'[q] = Nil /\ \A j \in Token : tokenProducer'[j] # q
    <3> SUFFICES ASSUME NEW u \in Thread, NEW q \in Producer, Mine(u, q)'
                 PROVE  /\ q \notin unborn /\ ~inactive[q] /\ token'[q] = Nil
                        /\ \A j \in Token : tokenProducer'[j] # q
      OBVIOUS
    <3>1. CASE q = p
      BY <1>8, <1>10, <1>11, <3>1
    <3>2. CASE q # p
      BY <1>9, <1>10, <3>2, ProducerListAssumption DEF Ownership, Owned
    <3> QED
      BY <3>1, <3>2
  <2>3. \A q \in Producer : inactive[q] \/ q \in unborn =>
          /\ token'[q] = Nil /\ \A j \in Token : tokenProducer'[j] # q
          /\ inactive[q] => q \in Listed /\ isExplicit[q] /\ q \notin unborn
    BY <1>10, ProducerListAssumption DEF Ownership, Owned
  <2>4. \A j \in Token : tokenProducer'[j] # Nil =>
          LET q == tokenProducer'[j] IN
            alive /\ token'[q] = j /\ isExplicit[q] /\ q \in Listed
    <3> SUFFICES ASSUME NEW j \in Token, tokenProducer'[j] # Nil
                 PROVE  /\ alive /\ token'[tokenProducer'[j]] = j
                        /\ isExplicit[tokenProducer'[j]] /\ tokenProducer'[j] \in Listed
      OBVIOUS
    <3>1. j # k /\ tokenProducer'[j] = tokenProducer[j] /\ tokenProducer[j] \in Producer
          /\ tokenProducer[j] # p
      BY <1>2, <1>10, <1>11 DEF ProducerOrNil
    <3> QED
      BY <1>10, <3>1 DEF Ownership, Owned, Valid
  <2>5. \A q \in Producer : alive /\ token'[q] # Nil => tokenProducer'[token'[q]] = q
    <3> SUFFICES ASSUME NEW q \in Producer, alive, token'[q] # Nil
                 PROVE  tokenProducer'[token'[q]] = q
      OBVIOUS
    <3>1. q # p /\ token'[q] = token[q] /\ token[q] \in Token /\ tokenProducer[token[q]] = q
      BY <1>2, <1>10 DEF Ownership, Owned
    <3> QED
      BY <1>1, <1>10, <3>1
  <2> QED
    BY <1>2, <2>1, <2>2, <2>3, <2>4, <2>5 DEF Owned, Valid
<1>13. Kinds'
  <2>1. ASSUME NEW u \in Thread, NEW q \in Producer
        PROVE  /\ Adds(u, q)' => (isExplicit[q] <=> call'[u].explicit)
               /\ Has(u, q)' => /\ isExplicit[q] <=> call'[u].pc \in {"register", "deactivate"}
                                /\ isExplicit[q] => q \in Listed
               /\ Entered(u, q)' => ~isExplicit[q]
    <3>1. CASE u = t
      BY <1>1, <1>3, <1>5, <1>6, <1>7, <3>1 DEF Ownership, Kinds
    <3>2. CASE u # t
      BY <1>5, <1>6, <3>2 DEF Ownership, Kinds
    <3> QED
      BY <3>1, <3>2
  <2>2. ASSUME NEW u \in Thread
        PROVE  LET g == call'[u] IN
               /\ g.pc = "grab" => g.ptr \notin unborn /\ isExplicit[g.ptr] /\ g.explicit
               /\ g.pc = "new" => ~g.recycled
               /\ g.pc \in ListPcs \cup {"register"} /\ g.back.pc = "register" =>
                    tokenProducer'[g.back.token] = Nil /\ setup.owner[g.back.token] = u
    <3>1. CASE u = t
      BY <1>3, <1>5, <3>1 DEF ListPcs, AddPcs
    <3>2. CASE u # t
      <4>1. /\ call'[u] = call[u]
            /\ call[u].pc \in ListPcs \cup {"register"} /\ call[u].back.pc = "register" =>
                 call[u].back.token \in Token
        BY <1>5, <3>2, FrameShapes, BackShape DEF Typed
      <4>2. call[u].pc \in ListPcs \cup {"register"} /\ call[u].back.pc = "register" =>
              tokenProducer'[call[u].back.token] = Nil /\ setup.owner[call[u].back.token] = u
        BY <1>10, <3>2, <4>1 DEF Ownership, Kinds
      <4> QED
        BY <4>1, <4>2 DEF Ownership, Kinds
    <3> QED
      BY <3>1, <3>2
  <2> QED
    BY <1>2, <2>1, <2>2 DEF Kinds
<1>14. ListOK'
  <2>1. \A u \in Thread, q \in Producer : Adds(u, q)' <=> Adds(u, q)
    BY <1>5, <1>7
  <2> QED
    BY <1>2, <2>1 DEF Ownership, ListOK, InitiallyListed
<1> QED
  BY <1>12, <1>13, <1>14 DEF Ownership

LEMMA DeactivateOwned ==
  ASSUME Typed, Ownership, NEW t \in Thread, Deactivate(t)
  PROVE  Ownership'
<1>1. PICK p \in Producer : p = call[t].producer /\ call[t].pc = "deactivate"
  BY FrameShapes DEF Deactivate, At, Typed
<1>2. /\ inactive' = [inactive EXCEPT ![p] = TRUE] /\ inactive \in [Producer -> BOOLEAN]
      /\ UNCHANGED <<setup, list, isExplicit, token, unborn, hashes, tokenProducer, alive>>
      /\ Listed' = Listed
  BY <1>1, ListSame DEF Deactivate, Typed, VarsTyped, list, rest
<1>3. Go(t, NoCall) /\ NoCall.pc = "idle"
  BY DEF Deactivate, NoCall
<1>4. /\ call'[t] = NoCall /\ \A u \in Thread \ {t} : call'[u] = call[u]
      /\ \A q : Adds(t, q)' <=> NoCall.pc \in AddPcs /\ NoCall.ptr = q
      /\ \A q : Has(t, q)' <=> NoCall.pc \in HasPcs /\ NoCall.producer = q
      /\ \A u \in Thread \ {t} : \A q : (Adds(u, q)' <=> Adds(u, q)) /\ (Has(u, q)' <=> Has(u, q))
  BY <1>3, Moves
<1>5. \A u, q : Entered(u, q)' <=> Entered(u, q)
  BY <1>2, EnteredSame DEF hashes
<1>6. \A q : ~Adds(t, q) /\ ~Adds(t, q)' /\ ~Has(t, q)' /\ (Has(t, q) <=> q = p)
  BY <1>1, <1>3, <1>4 DEF Adds, Has, AddPcs, HasPcs
<1>7. /\ p \notin unborn /\ token[p] = Nil /\ \A k \in Token : tokenProducer[k] # p
      /\ \A u \in Thread : Mine(u, p) => u = t
      /\ isExplicit[p] /\ p \in Listed
      /\ \A u \in Thread : ~Entered(u, p)
  BY <1>1, <1>6 DEF Mine, Ownership, Owned, Kinds
<1>8. \A u \in Thread, q \in Producer : Mine(u, q)' => Mine(u, q) /\ q # p
  <2> SUFFICES ASSUME NEW u \in Thread, NEW q \in Producer, Mine(u, q)'
               PROVE  Mine(u, q) /\ q # p
    OBVIOUS
  <2>1. Adds(u, q)' \/ Has(u, q)' \/ Entered(u, q)'
    BY DEF Mine
  <2>2. CASE u = t
    BY <1>5, <1>6, <1>7, <2>1, <2>2 DEF Mine
  <2>3. CASE u # t
    BY <1>4, <1>5, <1>7, <2>1, <2>3 DEF Mine
  <2> QED
    BY <2>2, <2>3
<1>9. Owned'
  BY <1>2, <1>7, <1>8 DEF Ownership, Owned, Valid
<1>10. Kinds'
  <2>1. ASSUME NEW u \in Thread, NEW q \in Producer
        PROVE  /\ Adds(u, q)' => (isExplicit[q] <=> call'[u].explicit)
               /\ Has(u, q)' => /\ isExplicit[q] <=> call'[u].pc \in {"register", "deactivate"}
                                /\ isExplicit[q] => q \in Listed
               /\ Entered(u, q)' => ~isExplicit[q]
    <3>1. CASE u = t
      BY <1>5, <1>6, <3>1 DEF Ownership, Kinds
    <3>2. CASE u # t
      BY <1>4, <1>5, <3>2 DEF Ownership, Kinds
    <3> QED
      BY <3>1, <3>2
  <2>2. ASSUME NEW u \in Thread
        PROVE  LET g == call'[u] IN
               /\ g.pc = "grab" => g.ptr \notin unborn /\ isExplicit[g.ptr] /\ g.explicit
               /\ g.pc = "new" => ~g.recycled
               /\ g.pc \in ListPcs \cup {"register"} /\ g.back.pc = "register" =>
                    tokenProducer[g.back.token] = Nil /\ setup.owner[g.back.token] = u
    <3>1. CASE u = t
      BY <1>3, <1>4, <3>1 DEF ListPcs, AddPcs
    <3>2. CASE u # t
      BY <1>4, <3>2 DEF Ownership, Kinds
    <3> QED
      BY <3>1, <3>2
  <2> QED
    BY <1>2, <2>1, <2>2 DEF Kinds
<1>11. ListOK'
  <2>1. \A u \in Thread, q \in Producer : Adds(u, q)' <=> Adds(u, q)
    BY <1>4, <1>6
  <2> QED
    BY <1>2, <2>1 DEF Ownership, ListOK, InitiallyListed
<1> QED
  BY <1>9, <1>10, <1>11 DEF Ownership

LEMMA SwapOwned ==
  ASSUME Typed, Ownership, NEW t \in Thread, NEW k \in Token, NEW j \in Token, alive,
         SwapTokens(t, k, j)
  PROVE  Ownership'
<1>1. /\ setup.owner[k] = t /\ setup.owner[j] = t /\ k # j /\ call[t].pc = "idle"
      /\ UNCHANGED <<setup, list, isExplicit, inactive, unborn, hashes, call, alive>>
      /\ tokenProducer \in [Token -> ProducerOrNil]
      /\ Listed' = Listed /\ k # Nil /\ j # Nil
  BY ListSame, ProducerListAssumption
     DEF SwapTokens, Owns, At, Typed, VarsTyped, list
<1>2. PICK p \in Producer : p = tokenProducer[k] /\ token[p] = k
  BY DEF SwapTokens, Valid, Typed, VarsTyped, ProducerOrNil, Ownership, Owned
<1>3. PICK q \in ProducerOrNil : q = tokenProducer[j] /\ (q # Nil => token[q] = j)
  BY DEF Typed, VarsTyped, ProducerOrNil, Ownership, Owned, Valid
<1>4. /\ \A r \in Producer : token'[r] = IF r = p THEN j ELSE IF r = q THEN k ELSE token[r]
      /\ \A i \in Token : tokenProducer'[i] =
           IF i = j THEN p ELSE IF i = k THEN q ELSE tokenProducer[i]
  BY <1>1, <1>2, <1>3 DEF SwapTokens
<1>5. p # q /\ p # Nil
  BY <1>1, <1>2, <1>3, ProducerListAssumption
<1>6. /\ \A u, r : Entered(u, r)' <=> Entered(u, r)
      /\ \A u, r : Adds(u, r)' <=> Adds(u, r)
      /\ \A u, r : Has(u, r)' <=> Has(u, r)
  BY <1>1, EnteredSame DEF Adds, Has, hashes
<1>7. \A u, r : Mine(u, r)' <=> Mine(u, r)
  BY <1>6 DEF Mine
<1>8. Owned'
  <2>1. \A u, v \in Thread, r \in Producer : Mine(u, r)' /\ Mine(v, r)' => u = v
    BY <1>7 DEF Ownership, Owned
  <2>2. ASSUME NEW r \in Producer, token[r] = Nil, \A i \in Token : tokenProducer[i] # r
        PROVE  token'[r] = Nil /\ \A i \in Token : tokenProducer'[i] # r
    BY <1>2, <1>3, <1>4, <2>2
  <2>3. \A u \in Thread, r \in Producer : Mine(u, r)' =>
          r \notin unborn /\ ~inactive[r] /\ token'[r] = Nil /\ \A i \in Token : tokenProducer'[i] # r
    BY <1>7, <2>2 DEF Ownership, Owned
  <2>4. \A r \in Producer : inactive[r] \/ r \in unborn =>
          /\ token'[r] = Nil /\ \A i \in Token : tokenProducer'[i] # r
          /\ inactive[r] => r \in Listed /\ isExplicit[r] /\ r \notin unborn
    BY <2>2 DEF Ownership, Owned
  <2>5. \A i \in Token : tokenProducer'[i] # Nil =>
          LET r == tokenProducer'[i] IN
            alive /\ token'[r] = i /\ isExplicit[r] /\ r \in Listed
    <3> SUFFICES ASSUME NEW i \in Token, tokenProducer'[i] # Nil
                 PROVE  /\ alive /\ token'[tokenProducer'[i]] = i
                        /\ isExplicit[tokenProducer'[i]] /\ tokenProducer'[i] \in Listed
      OBVIOUS
    <3>1. CASE i = j
      BY <1>2, <1>4, <3>1 DEF Ownership, Owned, Valid
    <3>2. CASE i = k
      <4>1. q \in Producer /\ tokenProducer'[i] = q /\ Valid(j)
        BY <1>1, <1>3, <1>4, <3>2 DEF ProducerOrNil, Valid
      <4> QED
        BY <1>3, <1>4, <1>5, <3>2, <4>1 DEF Ownership, Owned
    <3>3. CASE i # j /\ i # k
      <4>1. tokenProducer'[i] = tokenProducer[i] /\ Valid(i) /\ tokenProducer[i] \in Producer
        BY <1>1, <1>4, <3>3 DEF ProducerOrNil, Valid
      <4>2. token[tokenProducer[i]] = i
        BY <4>1 DEF Ownership, Owned
      <4>3. tokenProducer[i] # p /\ tokenProducer[i] # q
        BY <1>2, <1>3, <3>3, <4>1, <4>2 DEF Valid
      <4> QED
        BY <1>4, <4>1, <4>3 DEF Ownership, Owned
    <3> QED
      BY <3>1, <3>2, <3>3
  <2>6. \A r \in Producer : alive /\ token'[r] # Nil => tokenProducer'[token'[r]] = r
    <3> SUFFICES ASSUME NEW r \in Producer, alive, token'[r] # Nil
                 PROVE  tokenProducer'[token'[r]] = r
      OBVIOUS
    <3>1. CASE r = p
      BY <1>4, <3>1
    <3>2. CASE r = q /\ r # p
      BY <1>1, <1>4, <3>2
    <3>3. CASE r # q /\ r # p
      <4>1. token'[r] = token[r] /\ token[r] \in Token /\ tokenProducer[token[r]] = r
        BY <1>4, <3>3 DEF Ownership, Owned, Typed, VarsTyped
      <4> QED
        BY <1>2, <1>3, <1>4, <3>3, <4>1
    <3> QED
      BY <3>1, <3>2, <3>3
  <2> QED
    BY <1>1, <2>1, <2>3, <2>4, <2>5, <2>6 DEF Owned, Valid
<1>9. Kinds'
  <2>1. ASSUME NEW u \in Thread
        PROVE  LET g == call[u] IN
               g.pc \in ListPcs \cup {"register"} /\ g.back.pc = "register" =>
                 tokenProducer'[g.back.token] = Nil /\ setup.owner[g.back.token] = u
    <3>1. CASE u = t
      BY <1>1, <3>1 DEF ListPcs, AddPcs
    <3>2. CASE u # t
      <4>1. call[u].pc \in ListPcs \cup {"register"} /\ call[u].back.pc = "register" =>
              /\ call[u].back.token \in Token
              /\ tokenProducer[call[u].back.token] = Nil /\ setup.owner[call[u].back.token] = u
        BY FrameShapes, BackShape DEF Typed, Ownership, Kinds
      <4> QED
        BY <1>1, <1>4, <3>2, <4>1
    <3> QED
      BY <3>1, <3>2
  <2> QED
    BY <1>1, <1>6, <2>1 DEF Ownership, Kinds
<1>10. ListOK'
  BY <1>1, <1>6 DEF Ownership, ListOK, InitiallyListed
<1> QED
  BY <1>8, <1>9, <1>10 DEF Ownership

LEMMA TokenStepOwned ==
  ASSUME Typed, Ownership, NEW t \in Thread, TokenStep(t)
  PROVE  Ownership'
<1>1. ASSUME NEW f, Go(t, f), FrameFits(t, f), UNCHANGED <<fixed, rest>>
      PROVE  Ownership'
  <2>1. /\ UNCHANGED <<setup, states, tokenProducer, alive>> /\ Listed' = Listed
        /\ \A u, p : Entered(u, p)' <=> Entered(u, p)
    BY <1>1, ListSame, EnteredSame DEF fixed, rest, list, hashes
  <2> QED
    BY <1>1, <2>1, PlainStep
<1>2. CASE alive /\ Enqueue(t)
  <2>1. PICK n, i : Go(t, [pc |-> "probe", main |-> n, table |-> n, index |-> i])
                    /\ call[t].pc = "idle" /\ UNCHANGED <<fixed, rest>>
    BY <1>2 DEF Enqueue, GetOrAdd, At
  <2> DEFINE f == [pc |-> "probe", main |-> n, table |-> n, index |-> i]
  <2>2. FrameFits(t, f)
    BY <2>1 DEF FrameFits, AddPcs, HasPcs, ListPcs
  <2> QED
    BY <1>1, <2>1, <2>2
<1>3. CASE EnqueueImplicit(t)
  <2>1. Go(t, NoCall) /\ call[t].pc = "got" /\ UNCHANGED <<fixed, rest>>
    BY <1>3 DEF EnqueueImplicit, At
  <2>2. FrameFits(t, NoCall)
    BY <2>1 DEF FrameFits, NoCall, AddPcs, HasPcs, ListPcs
  <2> QED
    BY <1>1, <2>1, <2>2
<1>4. ASSUME NEW k \in Token, CreateToken(t, k)
      PROVE  Ownership'
  <2> DEFINE f == [pc |-> "scan", ptr |-> producerListTail, explicit |-> TRUE,
                   back |-> [pc |-> "register", token |-> k]]
  <2>1. Go(t, f) /\ call[t].pc = "idle" /\ UNCHANGED <<fixed, rest>>
        /\ tokenProducer[k] = Nil /\ setup.owner[k] = t
    BY <1>4 DEF CreateToken, RecycleOrCreate, Owns, Valid, At
  <2>2. FrameFits(t, f)
    BY <2>1 DEF FrameFits, AddPcs, HasPcs, ListPcs
  <2> QED
    BY <1>1, <2>1, <2>2
<1> QED
  BY <1>2, <1>3, <1>4, RegisterOwned, DeactivateOwned, DestroyTokenOwned, SwapOwned DEF TokenStep

LEMMA DestroyOwned ==
  ASSUME Typed, HashOK, Ownership, Destroy
  PROVE  Ownership'
<1> DEFINE H == implicitProducerHash
<1>1. /\ ~alive' /\ UNCHANGED <<setup, list, states, call>> /\ Listed' = Listed
      /\ \A t \in Thread : call[t].pc = "idle"
  BY ListSame DEF Destroy, Idle, At, list
<1>2. /\ TablesOK /\ Newest \in Nat \ {0} /\ 1 \in 1 .. Newest /\ H \in Seq(AllTables)
      /\ Newest = Len(H)
  BY NewestFacts DEF HashOK, TablesOK, Newest
<1>3. H'[1] = H[1] /\ Newest' = 1
  <2>1. \A i \in 1 .. 1 : H[i] \in AllTables
    BY <1>2
  <2>2. Len(SubSeq(H, 1, 1)) = 1 /\ SubSeq(H, 1, 1)[1] = H[1]
    BY <2>1, SubSeqProperties
  <2> QED
    BY <2>2 DEF Destroy, Newest
<1>4. \A u \in Thread, p \in Producer : Entered(u, p)' => Entered(u, p)
  <2> SUFFICES ASSUME NEW u \in Thread, NEW p \in Producer, Entered(u, p)'
               PROVE  Entered(u, p)
    OBVIOUS
  <2> HIDE DEF H
  <2>1. PICK k \in 1 .. 1 : \E i \in Slots(k)' : H'[k][i] = [key |-> u, value |-> p]
    BY <1>3 DEF Entered, H
  <2>2. k = 1
    OBVIOUS
  <2>3. PICK i \in Slots(k)' : H'[k][i] = [key |-> u, value |-> p]
    BY <2>1
  <2>4. Slots(1)' = Slots(1)
    BY <1>3 DEF Slots, capacity, H
  <2> QED
    BY <1>2, <1>3, <2>2, <2>3, <2>4 DEF Entered, H
<1>5. \A t \in Thread, p \in Producer : ~Adds(t, p) /\ ~Has(t, p) /\ ~Adds(t, p)' /\ ~Has(t, p)'
  BY <1>1 DEF Adds, Has, AddPcs
<1>6. \A t \in Thread, p \in Producer : Mine(t, p)' => Mine(t, p)
  BY <1>4, <1>5 DEF Mine
<1>7. \A k \in Token : tokenProducer'[k] = Nil
  <2> SUFFICES ASSUME NEW k \in Token PROVE tokenProducer'[k] = Nil
    OBVIOUS
  <2>1. tokenProducer'[k] = IF \E p \in Listed : token[p] = k THEN Nil ELSE tokenProducer[k]
    BY DEF Destroy
  <2>2. CASE Valid(k)
    BY <2>1, <2>2 DEF Ownership, Owned
  <2>3. CASE ~Valid(k)
    BY <2>1, <2>3 DEF Valid
  <2> QED
    BY <2>2, <2>3
<1>8. Owned'
  BY <1>1, <1>6, <1>7, ProducerListAssumption DEF Ownership, Owned, Valid, states
<1>9. Kinds'
  <2>1. \A t \in Thread : LET g == call'[t] IN
          /\ g.pc = "grab" => g.ptr \notin unborn /\ isExplicit[g.ptr] /\ g.explicit
          /\ g.pc = "new" => ~g.recycled
          /\ g.pc \in ListPcs \cup {"register"} /\ g.back.pc = "register" =>
               tokenProducer'[g.back.token] = Nil /\ setup.owner[g.back.token] = t
    BY <1>1 DEF ListPcs, AddPcs
  <2> QED
    BY <1>1, <1>4, <1>5, <2>1 DEF Ownership, Kinds, states
<1>10. ListOK'
  BY <1>1, <1>5 DEF Ownership, ListOK, InitiallyListed, states
<1> QED
  BY <1>8, <1>9, <1>10 DEF Ownership

LEMMA NextOwned == Typed /\ HashOK /\ Ownership /\ [Next]_vars => Ownership'
  BY NextCases, QuietOwned, DestroyOwned, ListStepOwned, HashStepOwned, TokenStepOwned

-----------------------------------------------------------------------------
LEMMA QueueInit == Init => IInv
<1> SUFFICES ASSUME Init PROVE IInv
  OBVIOUS
<1>1. PICK s \in Setups : setup = s /\ InitList(s)
  BY DEF Init, InitList
<1>2. /\ Listed = InitiallyListed /\ next \in [Producer -> ProducerOrNil]
      /\ unborn = s.producers /\ s.producers \subseteq Producer /\ s.listed \in Seq(Producer)
      /\ call = [t \in Thread |-> NoCall]
      /\ isExplicit = [p \in Producer |-> p \in InitiallyListed]
      /\ inactive = [p \in Producer |-> p \in InitiallyListed]
      /\ token = [p \in Producer |-> Nil]
      /\ InitiallyListed \cap s.producers = {} /\ InitiallyListed \subseteq Producer
      /\ tokenProducer = [k \in Token |-> Nil] /\ alive = TRUE
  <2>1. /\ s.producers \subseteq Producer /\ s.listed \in Seq(Producer)
        /\ \A i \in DOMAIN s.listed : s.listed[i] \notin s.producers
    BY ProducerListAssumption
  <2>2. InitiallyListed = {s.listed[i] : i \in DOMAIN s.listed}
    BY <1>1 DEF InitiallyListed
  <2>3. /\ unborn = s.producers /\ call = [t \in Thread |-> NoCall]
        /\ token = [p \in Producer |-> Nil]
        /\ isExplicit = [p \in Producer |-> p \in {s.listed[i] : i \in DOMAIN s.listed}]
        /\ inactive = [p \in Producer |-> p \in {s.listed[i] : i \in DOMAIN s.listed}]
    BY <1>1 DEF InitList
  <2>4. InitiallyListed \cap s.producers = {} /\ InitiallyListed \subseteq Producer
    BY <2>1, <2>2
  <2>5. tokenProducer = [k \in Token |-> Nil] /\ alive = TRUE
    BY DEF Init
  <2> QED
    BY <2>1, <2>2, <2>3, <2>4, <2>5, ListInit
<1>3. producerListTail \in ProducerOrNil /\ producerCount \in Nat
  <2>1. PICK n \in Nat : n = Len(s.listed) /\ (n # 0 => s.listed[n] \in Producer)
    BY <1>2
  <2> QED
    BY <1>1, <2>1 DEF InitList, ProducerOrNil
<1>4. VarsTyped
  <2>1. isExplicit \in [Producer -> BOOLEAN] /\ inactive \in [Producer -> BOOLEAN]
    BY <1>2
  <2>2. /\ implicitProducerHashCount \in Int
        /\ implicitProducerHashResizeInProgress \in BOOLEAN
    <3>1. implicitProducerHashCount = 0 /\ implicitProducerHashResizeInProgress = FALSE
      BY DEF Init, InitHash
    <3>2. implicitProducerHashCount \in Int
      BY <3>1
    <3>3. implicitProducerHashResizeInProgress \in BOOLEAN
      BY <3>1, Zenon
    <3> QED
      BY <3>2, <3>3
  <2>3. token \in [Producer -> Token \cup {Nil}] /\ tokenProducer \in [Token -> ProducerOrNil]
        /\ alive \in BOOLEAN /\ unborn \subseteq setup.producers /\ setup \in Setups
    BY <1>1, <1>2 DEF ProducerOrNil
  <2> QED
    BY <1>2, <1>3, <2>1, <2>2, <2>3 DEF VarsTyped
<1>5. \A t \in Thread : call[t].pc = "idle" /\ "pc" \in DOMAIN call[t]
  BY <1>2 DEF NoCall
<1>6. Typed
  BY <1>2, <1>4, <1>5 DEF Typed, FrameOK, QuietPcs
<1>7. PICK n \in Nat \ {0} : implicitProducerHash = <<Table(n)>>
  BY HashAssumption DEF Init, InitHash
<1>8. PICK e : e = Table(n)
  OBVIOUS
<1>9. /\ e \in [0 .. n - 1 -> Entry] /\ DOMAIN e = 0 .. n - 1
      /\ \A i \in 0 .. n - 1 : e[i] = [key |-> Nil, value |-> Nil]
  BY <1>8 DEF Table, Entry, ProducerOrNil
<1>10. implicitProducerHash = <<e>> /\ Newest = 1 /\ implicitProducerHash[1] = e
  BY <1>7, <1>8 DEF Newest
<1>11. capacity(1) = n /\ Slots(1) = 0 .. n - 1
  <2>1. PICK a, b \in Int : a = 0 /\ b = n - 1
    OBVIOUS
  <2>2. Cardinality(a .. b) = IF a > b THEN 0 ELSE b - a + 1
    BY FS_Interval
  <2> QED
    BY <1>9, <1>10, <2>1, <2>2 DEF capacity, Slots
<1>12. \A k \in 1 .. Newest : k = 1
  BY <1>10
<1>13. \A k \in 1 .. Newest : \A i \in Slots(k) : Key(k, i) = Nil
  BY <1>9, <1>10, <1>11, <1>12 DEF Key
<1>14. \A t \in Thread : MainsExist(call[t]) /\ Searched(t, call[t])
  BY <1>5 DEF MainsExist, Searched, ListPcs, AddPcs, ResizePcs
<1>15. TablesOK
  <2>1. implicitProducerHash \in Seq(AllTables)
    BY <1>10 DEF AllTables
  <2> QED
    BY <1>9, <1>10, <1>11, <1>12, <1>14, <2>1 DEF TablesOK
<1>16. HashOK
  BY <1>13, <1>14, <1>15 DEF HashOK, Reachable
<1>17. \A t \in Thread, p \in Producer : ~Adds(t, p) /\ ~Has(t, p) /\ ~Entered(t, p)
  <2>1. \A t \in Thread, p \in Producer : ~Adds(t, p) /\ ~Has(t, p)
    BY <1>5 DEF Adds, Has, AddPcs
  <2>2. ASSUME NEW t \in Thread, NEW p \in Producer, Entered(t, p) PROVE FALSE
    <3>1. PICK k \in 1 .. Newest :
            \E i \in Slots(k) : implicitProducerHash[k][i] = [key |-> t, value |-> p]
      BY <2>2 DEF Entered
    <3>2. PICK i \in Slots(k) : Key(k, i) = t
      BY <3>1 DEF Key
    <3> QED
      BY <1>13, <3>2, ProducerListAssumption
  <2> QED
    BY <2>1, <2>2
<1>18. Owned
  <2>1. \A t \in Thread, p \in Producer : ~Mine(t, p)
    BY <1>17 DEF Mine
  <2>2. \A p \in Producer : /\ token[p] = Nil /\ \A k \in Token : tokenProducer[k] # p
                            /\ inactive[p] => p \in Listed /\ isExplicit[p] /\ p \notin unborn
    <3> SUFFICES ASSUME NEW p \in Producer
                 PROVE  /\ token[p] = Nil /\ \A k \in Token : tokenProducer[k] # p
                        /\ inactive[p] => p \in Listed /\ isExplicit[p] /\ p \notin unborn
      OBVIOUS
    <3>1. token[p] = Nil /\ \A k \in Token : tokenProducer[k] # p
      BY <1>2, ProducerListAssumption
    <3>2. (inactive[p] <=> p \in InitiallyListed) /\ (isExplicit[p] <=> p \in InitiallyListed)
      BY <1>2
    <3> QED
      BY <1>2, <3>1, <3>2
  <2>3. \A k \in Token : ~Valid(k)
    BY <1>2 DEF Valid
  <2>4. \A p \in Producer : inactive[p] \/ p \in unborn =>
          /\ token[p] = Nil /\ \A k \in Token : tokenProducer[k] # p
          /\ inactive[p] => p \in Listed /\ isExplicit[p] /\ p \notin unborn
    BY <2>2
  <2>5. \A p \in Producer : alive /\ token[p] # Nil => tokenProducer[token[p]] = p
    BY <2>2
  <2> QED
    BY <2>1, <2>3, <2>4, <2>5, Zenon DEF Owned
<1>19. Kinds
  BY <1>5, <1>17 DEF Kinds, ListPcs, AddPcs
<1>20. ListOK
  BY <1>1, <1>2, <1>17 DEF ListOK
<1> QED
  BY <1>6, <1>16, <1>18, <1>19, <1>20 DEF IInv

(* The list, the tables of thread ids, the tokens and the producers that   *)
(* are on their way between them fit together (add_producer,               *)
(* recycle_or_create_producer, get_or_add_implicit_producer and the        *)
(* tokens' constructors and destructors, in any interleaving).             *)
THEOREM QueueSound == Spec => []IInv
<1>1. Init => IInv
  BY QueueInit
<1>2. IInv /\ [Next]_vars => IInv'
  BY NextTyped, NextHash, NextOwned DEF IInv, Ownership
<1> QED
  BY <1>1, <1>2, PTL DEF Spec

(* A token and its producer point at each other, a producer is given to    *)
(* one token at a time, and the destructor leaves no token with one        *)
(* (ProducerToken, recycle_or_create_producer, ~ConcurrentQueue).          *)
THEOREM TokensOwnTheirProducers == Spec => []TokenOwnsProducer
<1>1. IInv => TokenOwnsProducer
  <2> SUFFICES ASSUME IInv PROVE TokenOwnsProducer
    OBVIOUS
  <2>1. \A k \in Token : Valid(k) =>
          LET p == tokenProducer[k] IN alive /\ token[p] = k /\ isExplicit[p] /\ ~inactive[p]
    <3> SUFFICES ASSUME NEW k \in Token, Valid(k)
                 PROVE  /\ alive /\ token[tokenProducer[k]] = k
                        /\ isExplicit[tokenProducer[k]] /\ ~inactive[tokenProducer[k]]
      OBVIOUS
    <3>1. tokenProducer[k] \in Producer
      BY DEF IInv, Typed, VarsTyped, Valid, ProducerOrNil
    <3> QED
      BY <3>1 DEF IInv, Owned
  <2>2. ASSUME NEW t \in Thread, At(t, "register"), call[t].producer # Nil
        PROVE  /\ token[call[t].producer] = Nil /\ ~inactive[call[t].producer]
               /\ \A u \in Thread :
                    u # t /\ At(u, "register") => call[u].producer # call[t].producer
    <3>1. PICK p \in Producer : p = call[t].producer /\ Mine(t, p)
      BY <2>2, FrameShapes DEF IInv, Typed, At, Mine, Has, ProducerOrNil
    <3>2. \A u \in Thread : At(u, "register") /\ call[u].producer = p => Mine(u, p)
      BY DEF Mine, Has, At
    <3> QED
      BY <3>1, <3>2 DEF IInv, Owned
  <2> QED
    BY <2>1, <2>2 DEF TokenOwnsProducer
<1> QED
  BY <1>1, QueueSound, PTL

(* However often the table is replaced while a thread looks itself up and  *)
(* enters itself, the thread keeps one producer, which is nobody else's    *)
(* (get_or_add_implicit_producer).                                         *)
THEOREM OneProducerEach == Spec => []OneProducerPerThread
<1>1. IInv => OneProducerPerThread
  <2> SUFFICES ASSUME IInv PROVE OneProducerPerThread
    OBVIOUS
  <2>1. ASSUME NEW t \in Thread, NEW p \in ProducersOf(t)
        PROVE  /\ p \in Producer /\ Mine(t, p) /\ OnlyWith(t, p)
               /\ \/ \E k \in 1 .. Newest : HasKey(t, k)
                  \/ call[t].pc = "insert" /\ p = call[t].producer
    <3>0. t # Nil
      BY ProducerListAssumption
    <3>1. CASE p \in {e.value : e \in {x \in Entries : x.key = t}}
      <4>1. PICK e \in Entries : e.key = t /\ p = e.value
        BY <3>1
      <4>2. PICK k \in 1 .. Newest :
              e \in {implicitProducerHash[k][i] : i \in DOMAIN implicitProducerHash[k]}
        BY <4>1 DEF Entries
      <4>3. PICK i \in Slots(k) : e = implicitProducerHash[k][i] /\ e \in Entry
        BY <4>2, TableFacts DEF IInv, HashOK
      <4>4. e = [key |-> t, value |-> p]
        BY <4>1, <4>3 DEF Entry
      <4>5. Key(k, i) = t /\ Entered(t, p) /\ HasKey(t, k)
        BY <4>1, <4>3, <4>4 DEF Key, Entered, HasKey
      <4>6. p \in Producer /\ OnlyWith(t, p)
        <5>1. Reachable /\ implicitProducerHash[k][i].value = p
          BY <4>1, <4>3 DEF IInv, HashOK
        <5> QED
          BY <3>0, <4>5, <5>1 DEF Reachable, OnlyWith
      <4> QED
        BY <4>5, <4>6 DEF Mine
    <3>2. CASE p \notin {e.value : e \in {x \in Entries : x.key = t}}
      <4>1. call[t].pc \in {"got", "insert"} /\ p = call[t].producer /\ p # Nil
        BY <3>2 DEF ProducersOf
      <4>2. p \in Producer /\ Mine(t, p)
        BY <4>1, FrameShapes DEF IInv, Typed, Mine, Has, ProducerOrNil
      <4>3. Searched(t, call[t])
        BY DEF IInv, HashOK
      <4> QED
        BY <4>1, <4>2, <4>3 DEF Searched
    <3> QED
      BY <3>1, <3>2
  <2>2. ASSUME NEW t \in Thread, NEW p \in ProducersOf(t), NEW q \in ProducersOf(t)
        PROVE  p = q
    <3>1. CASE \E k \in 1 .. Newest : HasKey(t, k)
      <4>1. PICK k \in 1 .. Newest : \E i \in Slots(k) : Key(k, i) = t
        BY <3>1 DEF HasKey
      <4> QED
        BY <2>1, <4>1 DEF OnlyWith
    <3>2. CASE ~\E k \in 1 .. Newest : HasKey(t, k)
      BY <2>1, <3>2
    <3> QED
      BY <3>1, <3>2
  <2>3. ASSUME NEW t \in Thread PROVE Cardinality(ProducersOf(t)) <= 1
    <3>1. CASE ProducersOf(t) = {}
      BY <3>1, FS_EmptySet
    <3>2. CASE ProducersOf(t) # {}
      <4>1. PICK p : ProducersOf(t) = {p}
        BY <2>2, <3>2
      <4> QED
        <5>1. Cardinality(ProducersOf(t)) = 1
          BY <4>1, FS_Singleton, Zenon
        <5> QED
          BY <5>1
    <3> QED
      BY <3>1, <3>2
  <2>4. ASSUME NEW t \in Thread, NEW u \in Thread, t # u
        PROVE  ProducersOf(t) \cap ProducersOf(u) = {}
    <3> SUFFICES ASSUME NEW p \in ProducersOf(t) \cap ProducersOf(u) PROVE FALSE
      OBVIOUS
    <3>1. p \in Producer /\ Mine(t, p) /\ Mine(u, p)
      BY <2>1
    <3> QED
      BY <2>4, <3>1 DEF IInv, Owned
  <2> QED
    BY <2>3, <2>4 DEF OneProducerPerThread
<1> QED
  BY <1>1, QueueSound, PTL

(* No producer is lost by a compare-and-swap on the tail of the list that  *)
(* another one overtook (add_producer).                                    *)
THEOREM ListIsComplete == Spec => []NoProducerLost
<1>1. IInv => NoProducerLost
  <2> SUFFICES ASSUME IInv PROVE NoProducerLost
    OBVIOUS
  <2>1. Listed \subseteq Producer /\ InitiallyListed \subseteq Producer
        /\ setup.producers \subseteq Producer
    BY ListClosed, ProducerListAssumption
       DEF IInv, Typed, VarsTyped, Listed, InitiallyListed
  <2>2. \A p : p \in Adding <=> p \in Producer /\ \E t \in Thread : Adds(t, p)
    BY FrameShapes DEF IInv, Typed, Adding, Adds, AddPcs, ListPcs
  <2>3. \A p \in Listed \cup Adding : p \in (setup.producers \ unborn) \cup InitiallyListed
    BY <2>1, <2>2 DEF IInv, ListOK
  <2>4. \A p \in (setup.producers \ unborn) \cup InitiallyListed : p \in Listed \cup Adding
    BY <2>1, <2>2 DEF IInv, ListOK
  <2>5. Listed \cap Adding = {}
    BY <2>2 DEF IInv, ListOK
  <2> QED
    BY <2>3, <2>4, <2>5 DEF NoProducerLost, InitiallyListed
<1> QED
  BY <1>1, QueueSound, PTL

-----------------------------------------------------------------------------
(* The list leads one way, and the number of producers is that of those    *)
(* that are on it or were counted before they are.                         *)
NoCycle == \A p \in Listed : p \notin From(next[p])
CountedFirst(p) == \E t \in Thread : call[t].pc \in {"link", "push"} /\ call[t].ptr = p
Reckoned == {p \in Producer : p \in Listed \/ CountedFirst(p)}
ListCounted == NoCycle /\ producerCount = Cardinality(Reckoned)

(* Consumers: what a call has in its frame is on the list.                 *)
ConsumerTokenTyped(c) ==
  /\ c \in [initialOffset : 0 .. Words - 1, lastKnownGlobalOffset : 0 .. Words - 1,
            itemsConsumedFromCurrent : Nat, currentProducer : ProducerOrNil,
            desiredProducer : ProducerOrNil]
  /\ c.currentProducer \in Listed \cup {Nil} /\ c.desiredProducer \in Listed \cup {Nil}
  /\ c.currentProducer = Nil <=> c.desiredProducer = Nil

TokenPcs == {"check", "tail", "count", "offset", "current", "reset", "turn"}
DequeuePcs == {"score", "best", "reload", "rest", "rotate"} \cup TokenPcs
AtCurrent == {"current", "reset", "turn"}

Consuming(f, c) ==
  /\ f.pc \in TokenPcs => ConsumerTokenTyped(c)
  /\ f.pc \in AtCurrent => c.currentProducer # Nil
  /\ f.pc \in {"idle", "false", "rotate"} => f = [pc |-> f.pc]
  /\ f.pc = "score" =>
       /\ f \in [pc : {"score"}, ptr : Listed, nonEmptyCount : 0 .. 2, best : ProducerOrNil,
                 bestSize : Nat]
       /\ IF f.nonEmptyCount = 0 THEN f.bestSize = 0 ELSE f.best \in Listed
  /\ f.pc \in {"best", "reload"} => f \in [pc : {"best", "reload"}, best : Listed]
  /\ f.pc = "rest" =>
       /\ f \in [pc : {"rest"}, ptr : Listed, skip : ProducerOrNil, max : Nat, count : Nat]
       /\ f.count < f.max
  /\ f.pc \in {"check", "tail", "current"} =>
       f \in [pc : {"check", "tail", "current"}, max : Nat \ {0}, bulk : BOOLEAN]
  /\ f.pc \in {"count", "offset"} =>
       /\ f \in [pc : {"count", "offset"}, max : Nat \ {0}, bulk : BOOLEAN, tail : Listed,
                 count : Nat]
       /\ f.pc = "offset" => f.count >= Cardinality(From(f.tail))
  /\ f.pc = "reset" => f \in [pc : {"reset"}, max : Nat \ {0}, count : Nat]
  /\ f.pc = "turn" =>
       f \in [pc : {"turn"}, max : Nat \ {0}, count : Nat, tail : Listed, ptr : Listed]

(* What it has not come by yet: while it has found nothing, the producers  *)
(* that have had elements all along are among those that it goes on to.    *)
Ahead(f, c, m) ==
  /\ f.pc \notin DequeuePcs => m = {}
  /\ f.pc = "score" /\ f.nonEmptyCount = 0 => m \subseteq From(f.ptr)
  /\ f.pc = "reload" => f.best \notin m
  /\ f.pc = "rest" => f.skip \notin m /\ (f.count = 0 => m \subseteq From(f.ptr))
  /\ f.pc = "reset" => c.currentProducer \notin m
  /\ f.pc = "turn" /\ f.count = 0 =>
       /\ f.ptr # c.currentProducer /\ c.currentProducer \in From(f.tail)
       /\ IF c.currentProducer \in From(f.ptr)
          THEN m \subseteq From(f.ptr) \ From(c.currentProducer)
          ELSE m \subseteq From(f.ptr) \cup (From(f.tail) \ From(c.currentProducer))

Fine(f, c, m) ==
  /\ c = Nil \/ ConsumerTokenTyped(c)
  /\ Consuming(f, c) /\ Ahead(f, c, m) /\ m \subseteq Listed

Sizes == 0 .. setup.room
Offsets ==
  globalExplicitConsumerOffset \in 0 .. Words - 1 /\ nextExplicitConsumerId \in 0 .. Words - 1
ConsumersOK ==
  /\ size \in [Producer -> Sizes]
  /\ missed \in [Thread -> SUBSET Producer]
  /\ DOMAIN consumer = Thread /\ consumer = [t \in Thread |-> consumer[t]]
  /\ Offsets
  /\ \A t \in Thread : Fine(call[t], consumer[t], missed[t])
  /\ \A t \in Thread : \A p \in missed[t] : size[p] > 0

-----------------------------------------------------------------------------
(* One thread at a time makes a larger table, and while it does the newest *)
(* one is what it took for it.                                             *)
Resizing == {"resize", "allocate", "clear", "giveup"}
OneResizes ==
  /\ \A t, u \in Thread : call[t].pc \in Resizing /\ call[u].pc \in Resizing => t = u
  /\ \A t \in Thread : call[t].pc \in Resizing => implicitProducerHashResizeInProgress
  /\ \A t \in Thread : At(t, "allocate") => Wanted(t, Newest)
Growing == \A k, l \in 1 .. Newest : k <= l => capacity(k) <= capacity(l)

(* The ids that are counted.                                               *)
Enrolled(t, f) ==
  \/ \E k \in 1 .. Newest : HasKey(t, k)
  \/ f.pc \in {"insert", "new"} \cup ResizePcs
  \/ f.pc \in ListPcs /\ f.back.pc = "new"
Enrollment == {t \in Thread : Enrolled(t, call[t])}
IdsCounted ==
  /\ implicitProducerHashCount \in 0 .. Cardinality(Thread)
  /\ alive => implicitProducerHashCount = Cardinality(Enrollment)

(* The ids that are in a table or an older one, or that will be when the   *)
(* calls that have room there are through; and those that are counted and  *)
(* wait for room for fewer than n.                                         *)
Bound(t, f, k) ==
  \/ \E l \in 1 .. k : HasKey(t, l)
  \/ f.pc = "insert" /\ f.main <= k
  \/ f.pc \in ListPcs \cup {"new"} /\ f.back.pc = "new" /\ f.back.main <= k
Waiting(f, n) == f.pc \in ResizePcs /\ f.count < n
Arriving(k, n) == {t \in Thread : Bound(t, call[t], k) \/ Waiting(call[t], n)}
FewArrive ==
  \A k \in 1 .. Newest : \A n \in Nat :
    Limit(capacity(k)) <= n /\ Arriving(k, n) # {} => Cardinality(Arriving(k, n)) < n

TablesGrow == OneResizes /\ Growing /\ IdsCounted /\ FewArrive
-----------------------------------------------------------------------------
(* The list.                                                               *)
LEMMA FromFacts ==
  ASSUME next \in [Producer -> ProducerOrNil]
  PROVE  /\ From(Nil) = {}
         /\ \A p \in Producer : From(p) = {p} \cup From(next[p])
         /\ \A p \in ProducerOrNil : \A q \in From(p) : q \in Producer /\ From(q) \subseteq From(p)
<1>1. From(Nil) = {}
  <2>1. Closed({}) /\ Nil \in {} \cup {Nil}
    BY DEF Closed
  <2> QED
    BY <2>1, ListLeast
<1>2. ASSUME NEW p \in ProducerOrNil, NEW q \in From(p) PROVE q \in Producer /\ From(q) \subseteq From(p)
  <2>1. Closed(From(p)) /\ From(p) \in SUBSET Producer
    BY ListClosed
  <2> QED
    BY <1>2, <2>1, ListLeast
<1>3. ASSUME NEW p \in Producer PROVE From(p) = {p} \cup From(next[p])
  <2>1. PICK q \in ProducerOrNil : q = next[p]
    OBVIOUS
  <2>2. /\ Closed(From(p)) /\ From(p) \in SUBSET Producer /\ p \in From(p)
        /\ Closed(From(q)) /\ From(q) \in SUBSET Producer /\ q \in From(q) \cup {Nil}
    BY ListClosed, ProducerListAssumption DEF ProducerOrNil
  <2>3. PICK S \in SUBSET Producer : S = {p} \cup From(q)
    BY <2>2
  <2>4. Closed(S)
    BY <2>1, <2>2, <2>3 DEF Closed
  <2>5. From(p) \subseteq S
    BY <2>3, <2>4, ListLeast
  <2>6. From(q) \subseteq From(p)
    <3>1. q \in From(p) \cup {Nil}
      BY <2>1, <2>2 DEF Closed
    <3> QED
      BY <2>2, <3>1, ListLeast
  <2> QED
    BY <2>1, <2>2, <2>3, <2>5, <2>6
<1> QED
  BY <1>1, <1>2, <1>3

(* The steps that change the list or the number of producers.              *)
LEMMA ListSteps ==
  ASSUME Typed, [Next]_vars
  PROVE  \/ UNCHANGED list
         \/ \E t \in Thread : CountProducer(t) \/ Link(t) \/ Push(t)
<1>1. CASE QuietStep \/ Destroy
  BY <1>1 DEF QuietStep, Destroy, fixed
<1>2. ASSUME NEW t \in Thread, ListStep(t) \/ HashStep(t) \/ TokenStep(t)
      PROVE  UNCHANGED list \/ CountProducer(t) \/ Link(t) \/ Push(t)
  <2>1. CASE ListStep(t)
    BY <2>1 DEF ListStep, Scan, Grab, Create
  <2>2. CASE HashStep(t)
    BY <2>2 DEF HashStep, Probe, Insert, Add, TestAndSet, Resize, Allocate, Clear, Room, New
  <2>3. CASE TokenStep(t)
    BY <2>3 DEF TokenStep, Enqueue, CreateToken, DestroyToken, SwapTokens, EnqueueImplicit,
                Register, Deactivate, fixed
  <2> QED
    BY <1>2, <2>1, <2>2, <2>3
<1> QED
  BY <1>1, <1>2, NextCases

(* Whatever happens, what is on the list stays, with its next.             *)
ListStays ==
  /\ Listed \subseteq Listed'
  /\ \A p \in Listed : next'[p] = next[p] /\ From(p)' = From(p)
  /\ \/ Listed' = Listed /\ producerListTail' = producerListTail
     \/ \E t \in Thread : /\ Adds(t, producerListTail') /\ Push(t)
                          /\ Listed' = Listed \cup {producerListTail'}
                          /\ next' = next /\ next[producerListTail'] = producerListTail

LEMMA ListFacts ==
  ASSUME IInv
  PROVE  /\ next \in [Producer -> ProducerOrNil] /\ producerListTail \in ProducerOrNil
         /\ Closed(Listed) /\ Listed \subseteq Producer /\ producerListTail \in Listed \cup {Nil}
         /\ Nil \notin Listed /\ (producerListTail = Nil => Listed = {})
         /\ \A p \in Listed : p \in From(p) /\ From(p) \subseteq Listed /\ next[p] \in Listed \cup {Nil}
<1>1. next \in [Producer -> ProducerOrNil] /\ producerListTail \in ProducerOrNil
  BY DEF IInv, Typed, VarsTyped
<1>2. /\ Closed(Listed) /\ Listed \subseteq Producer /\ producerListTail \in Listed \cup {Nil}
  BY <1>1, ListClosed DEF Listed
<1>3. Nil \notin Producer
  BY ProducerListAssumption
<1>4. producerListTail = Nil => Listed = {}
  BY <1>1, FromFacts DEF Listed
<1>5. ASSUME NEW p \in Listed PROVE p \in From(p) /\ From(p) \subseteq Listed /\ next[p] \in Listed \cup {Nil}
  <2>1. p \in From(p)
    BY <1>1, <1>2, FromFacts
  <2>2. From(p) \subseteq Listed
    BY <1>1, <1>5, FromFacts DEF Listed
  <2> QED
    BY <1>2, <2>1, <2>2 DEF Closed
<1> QED
  BY <1>1, <1>2, <1>3, <1>4, <1>5

LEMMA NextKeepsList ==
  ASSUME IInv, [Next]_vars
  PROVE  ListStays
<1>1. Typed /\ ListOK
  BY DEF IInv
<1>2. CASE UNCHANGED list
  <2>1. Listed' = Listed /\ \A p : From(p)' = From(p)
    BY <1>2, ListSame DEF list
  <2> QED
    BY <1>2, <2>1 DEF ListStays, list
<1>3. ASSUME NEW t \in Thread, CountProducer(t) PROVE ListStays
  <2>1. UNCHANGED <<producerListTail, next>>
    BY <1>3 DEF CountProducer
  <2>2. Listed' = Listed /\ \A p : From(p)' = From(p)
    BY <2>1, ListSame
  <2> QED
    BY <2>1, <2>2 DEF ListStays
<1>4. ASSUME NEW t \in Thread, Link(t) \/ Push(t) PROVE ListStays
  <2>1. PICK n \in Producer : n = call[t].ptr /\ Adds(t, n) /\ n \notin Listed
    <3>1. call[t].pc \in AddPcs
      BY <1>4 DEF Link, Push, At, AddPcs
    <3>2. call[t].ptr \in Producer
      BY <1>1, <3>1, FrameShapes DEF Typed, ListPcs
    <3> QED
      BY <1>1, <3>1, <3>2 DEF Adds, ListOK
  <2>2. CASE /\ producerListTail' = producerListTail
             /\ next' = [next EXCEPT ![n] = producerListTail]
    <3>1. /\ next' \in [Producer -> ProducerOrNil]
          /\ \A b \in Producer \ {n} : next'[b] = next[b]
      BY <2>2, ListFacts
    <3>2. ASSUME NEW p \in ProducerOrNil, From(p) \subseteq Listed PROVE From(p)' = From(p)
      BY <1>1, <2>1, <3>1, <3>2, ListWithout
    <3>3. Listed' = Listed
      <4>1. PICK q \in ProducerOrNil : q = producerListTail
        BY ListFacts
      <4>2. From(q)' = From(q)
        BY <3>2, <4>1 DEF Listed
      <4> QED
        BY <2>2, <4>1, <4>2 DEF Listed, From
    <3>4. \A p \in Listed : next'[p] = next[p] /\ From(p)' = From(p)
      <4> SUFFICES ASSUME NEW p \in Listed PROVE next'[p] = next[p] /\ From(p)' = From(p)
        OBVIOUS
      <4>1. p \in Producer /\ p \in ProducerOrNil /\ From(p) \subseteq Listed /\ p # n
        BY <2>1, ListFacts DEF ProducerOrNil
      <4> QED
        BY <3>1, <3>2, <4>1
    <3> QED
      BY <2>2, <3>3, <3>4 DEF ListStays
  <2>3. CASE Push(t) /\ producerListTail = next[n]
    <3>1. producerListTail' = n /\ next' = next
      BY <2>1, <2>3 DEF Push
    <3>2. Listed' = Listed \cup {n}
      BY <1>1, <2>1, <2>3, <3>1, ListPush
    <3>3. \A p : From(p)' = From(p)
      BY <3>1 DEF From, Closed
    <3> QED
      BY <2>1, <2>3, <3>1, <3>2, <3>3 DEF ListStays
  <2> QED
    BY <1>4, <2>1, <2>2, <2>3 DEF Link, Push
<1> QED
  BY <1>1, <1>2, <1>3, <1>4, ListSteps

-----------------------------------------------------------------------------
(* The tables.  What a step does to the keys in them.                      *)
LEMMA InsertKeys ==
  ASSUME Typed, HashOK, NEW t \in Thread, At(t, "insert"),
         Key(call[t].main, call[t].index) = Nil,
         implicitProducerHash' = [implicitProducerHash EXCEPT
           ![call[t].main][call[t].index] = [key |-> t, value |-> call[t].producer]]
  PROVE  /\ Newest' = Newest
         /\ \A k \in 1 .. Newest : capacity(k)' = capacity(k)
         /\ \A u \in Thread : \A k \in 1 .. Newest :
              HasKey(u, k)' <=> HasKey(u, k) \/ (u = t /\ k = call[t].main)
<1>0. PICK m \in 1 .. Newest, x \in Slots(call[t].main), p \in Producer :
        m = call[t].main /\ x = call[t].index /\ p = call[t].producer /\ x \in Slots(m)
  <2>1. call[t].main \in 1 .. Newest /\ call[t].producer \in Producer
    BY MainsFacts, FrameShapes DEF At, Typed
  <2>2. Searched(t, call[t])
    BY DEF HashOK
  <2> QED
    BY <2>1, <2>2 DEF Searched, At
<1> DEFINE H == implicitProducerHash
           e == [key |-> t, value |-> p]
<1>1. H' = [H EXCEPT ![m][x] = e] /\ Key(m, x) = Nil
  BY <1>0
<1>2. TablesOK /\ Newest \in Nat \ {0} /\ DOMAIN H = 1 .. Newest /\ H \in Seq(AllTables)
  BY NewestFacts DEF HashOK, TablesOK, Newest
<1>3. H[m] \in [Slots(m) -> Entry] /\ e \in Entry
  BY <1>2 DEF TablesOK, Entry, ProducerOrNil
<1>4. /\ DOMAIN H' = 1 .. Newest /\ \A k \in 1 .. Newest : k # m => H'[k] = H[k]
      /\ H'[m] = [H[m] EXCEPT ![x] = e]
  BY <1>1, <1>2
<1>5. Newest' = Newest
  <2>1. Len(H') = Len(H)
    BY <1>1, <1>2
  <2> QED
    BY <2>1 DEF Newest
<1>6. \A k \in 1 .. Newest : capacity(k)' = capacity(k)
  BY <1>4 DEF capacity
<1>7. \A k \in 1 .. Newest : Slots(k)' = Slots(k)
  BY <1>6 DEF Slots
<1>8. /\ Key(m, x)' = t
      /\ \A k \in 1 .. Newest : \A i \in Slots(k) : k # m \/ i # x => Key(k, i)' = Key(k, i)
  BY <1>0, <1>3, <1>4 DEF Key
<1> HIDE DEF H, e
<1>9. ASSUME NEW u \in Thread, NEW k \in 1 .. Newest
      PROVE  HasKey(u, k)' <=> HasKey(u, k) \/ (u = t /\ k = m)
  <2>1. u # Nil
    BY ProducerListAssumption
  <2>2. CASE k # m
    BY <1>7, <1>8, <2>2 DEF HasKey
  <2>3. CASE k = m
    BY <1>0, <1>1, <1>7, <1>8, <2>1, <2>3 DEF HasKey
  <2> QED
    BY <2>2, <2>3
<1> QED
  BY <1>0, <1>5, <1>6, <1>9

LEMMA AllocateKeys ==
  ASSUME Typed, HashOK, NEW t \in Thread, Larger(t) # {}, NEW N, N = Newest,
         implicitProducerHash' = Append(implicitProducerHash, Table(newCapacity(t)))
  PROVE  /\ Newest' = N + 1
         /\ capacity(N + 1)' = newCapacity(t)
         /\ \A k \in 1 .. N : capacity(k)' = capacity(k)
         /\ \A u \in Thread : \A k \in 1 .. N : HasKey(u, k)' <=> HasKey(u, k)
         /\ \A u \in Thread : ~HasKey(u, N + 1)'
<1> DEFINE H == implicitProducerHash
<1>1. PICK n \in Nat \ {0} : n = newCapacity(t)
  BY NewCapacity
<1>2. N \in Nat \ {0} /\ N = Len(H) /\ H \in Seq(AllTables)
  BY NewestFacts DEF HashOK, TablesOK, Newest
<1>3. PICK e : e = Table(n) /\ H' = Append(H, e)
  BY <1>1
<1>4. /\ Newest' = N + 1 /\ H'[N + 1] = e
      /\ \A k \in 1 .. N : H'[k] = H[k]
  <2>1. Len(H') = N + 1 /\ H'[N + 1] = e /\ \A k \in 1 .. N : H'[k] = H[k]
    BY <1>2, <1>3
  <2> QED
    BY <2>1 DEF Newest
<1>5. DOMAIN e = 0 .. n - 1 /\ \A i \in 0 .. n - 1 : e[i].key = Nil
  BY <1>3 DEF Table
<1>6. capacity(N + 1)' = n /\ Slots(N + 1)' = 0 .. n - 1
  <2>1. PICK a, b \in Int : a = 0 /\ b = n - 1
    OBVIOUS
  <2>2. Cardinality(a .. b) = IF a > b THEN 0 ELSE b - a + 1
    BY FS_Interval
  <2> QED
    BY <1>4, <1>5, <2>1, <2>2 DEF Slots, capacity
<1>7. \A k \in 1 .. N : capacity(k)' = capacity(k)
  BY <1>4 DEF capacity
<1>8. \A u : \A k \in 1 .. N : HasKey(u, k)' <=> HasKey(u, k)
  BY <1>4, <1>7 DEF Slots, Key, HasKey
<1>9. \A u \in Thread : ~HasKey(u, N + 1)'
  <2>1. \A i \in 0 .. n - 1 : Key(N + 1, i)' = Nil
    BY <1>4, <1>5 DEF Key
  <2> QED
    BY <1>6, <2>1, ProducerListAssumption DEF HasKey
<1> QED
  BY <1>1, <1>2, <1>4, <1>6, <1>7, <1>8, <1>9

LEMMA DestroyKeys ==
  ASSUME Typed, HashOK, Destroy
  PROVE  /\ Newest' = 1 /\ 1 \in 1 .. Newest
         /\ capacity(1)' = capacity(1)
         /\ \A u : HasKey(u, 1)' <=> HasKey(u, 1)
<1> DEFINE H == implicitProducerHash
<1>1. /\ TablesOK /\ Newest \in Nat \ {0} /\ 1 \in 1 .. Newest /\ Newest = Len(H)
      /\ H \in Seq(AllTables)
  BY NewestFacts DEF HashOK, TablesOK, Newest
<1>2. Newest' = 1 /\ H'[1] = H[1]
  <2>1. \A i \in 1 .. 1 : H[i] \in AllTables
    BY <1>1
  <2>2. /\ SubSeq(H, 1, 1) \in Seq(AllTables) /\ Len(SubSeq(H, 1, 1)) = 1
        /\ SubSeq(H, 1, 1)[1] = H[1]
    BY <2>1, SubSeqProperties
  <2> QED
    BY <2>2 DEF Destroy, Newest
<1> QED
  BY <1>1, <1>2 DEF capacity, Slots, Key, HasKey

LEMMA KeysSame ==
  implicitProducerHash' = implicitProducerHash =>
    /\ Newest' = Newest
    /\ \A k : capacity(k)' = capacity(k) /\ \A u : HasKey(u, k)' <=> HasKey(u, k)
  BY DEF Newest, capacity, Slots, Key, HasKey

(* How a step of get_or_add_implicit_producer moves its thread on, with    *)
(* what it does to the tables, the count and the flag.                     *)
HashMove(t, f) ==
  LET c == call[t] IN
  \/ /\ UNCHANGED hashes
     /\ \/ c.pc = "probe" /\ f.pc \in {"probe", "add", "got"}
        \/ /\ c.pc = "probe" /\ f.pc = "insert" /\ f.main = c.main
           /\ \E l \in 1 .. c.main : HasKey(t, l)
        \/ c.pc = "insert" /\ f.pc = "insert" /\ f.main = c.main
        \/ /\ c.pc = "resize" /\ f.count = c.count
           /\ \/ f.pc = "allocate" /\ Wanted(t, Newest)
              \/ f.pc = "clear"
        \/ /\ c.pc \in {"load", "room"}
           /\ \/ f.pc = "load" /\ f.count = c.count
              \/ /\ f.pc = "scan" /\ f.back = [pc |-> "new", main |-> c.main]
                 /\ c.count < Limit(capacity(c.main))
  \/ /\ UNCHANGED <<implicitProducerHash, implicitProducerHashResizeInProgress>>
     /\ \/ /\ c.pc = "add" /\ f.pc = "load" /\ f.count = implicitProducerHashCount + 1
           /\ implicitProducerHashCount' = implicitProducerHashCount + 1
        \/ /\ c.pc = "allocate" /\ f.pc = "giveup"
           /\ implicitProducerHashCount' = implicitProducerHashCount - 1
        \/ /\ c.pc = "new" /\ f.pc = "got"
           /\ implicitProducerHashCount' = implicitProducerHashCount - 1
        \/ /\ c.pc = "new" /\ c.back.pc = "new" /\ f.pc = "insert" /\ f.main = c.back.main
           /\ implicitProducerHashCount' = implicitProducerHashCount
  \/ /\ UNCHANGED <<implicitProducerHash, implicitProducerHashCount>>
     /\ \/ /\ c.pc = "load" /\ implicitProducerHashResizeInProgress' = TRUE /\ f.count = c.count
           /\ f.pc = IF implicitProducerHashResizeInProgress THEN "room" ELSE "resize"
        \/ /\ c.pc = "clear" /\ implicitProducerHashResizeInProgress' = FALSE
           /\ f.pc = "room" /\ f.count = c.count
        \/ /\ c.pc = "giveup" /\ implicitProducerHashResizeInProgress' = FALSE
           /\ f.pc = "got"
  \/ /\ UNCHANGED <<implicitProducerHashResizeInProgress, implicitProducerHashCount>>
     /\ \/ /\ c.pc = "insert" /\ f.pc = "got" /\ Key(c.main, c.index) = Nil
           /\ implicitProducerHash' = [implicitProducerHash EXCEPT
                ![c.main][c.index] = [key |-> t, value |-> c.producer]]
        \/ /\ c.pc = "allocate" /\ f.pc = "clear" /\ f.count = c.count
           /\ Larger(t) # {}
           /\ implicitProducerHash' = Append(implicitProducerHash, Table(newCapacity(t)))

LEMMA HashMoves ==
  ASSUME IInv, NEW t \in Thread, HashStep(t)
  PROVE  \E f : Go(t, f) /\ HashMove(t, f)
<1> DEFINE c == call[t]
<1>1. /\ c.pc = "probe" => c \in [pc : {"probe"}, main : Nat, table : Nat, index : Nat]
      /\ c.pc = "insert" => c \in [pc : {"insert"}, main : Nat, producer : Producer, index : Nat]
      /\ c.pc \in ResizePcs => c \in [pc : ResizePcs, main : Nat, count : Int]
      /\ c.pc = "new" => c.pc = c.back.pc
  BY FrameShapes DEF IInv, Typed
<1>2. Searched(t, c) /\ Newest \in Nat \ {0} /\ TablesOK
  BY NewestFacts DEF IInv, HashOK
<1>3. CASE Probe(t)
  <2>1. /\ c.pc = "probe" /\ c.main \in 1 .. Newest /\ c.table \in 1 .. c.main
        /\ c.index \in Slots(c.table) /\ UNCHANGED hashes
    BY <1>2, <1>3, MainsFacts DEF Probe, At, Searched, IInv
  <2> DEFINE e == implicitProducerHash[c.table][c.index]
  <2>2. e.key = t => \E l \in 1 .. c.main : HasKey(t, l)
    BY <2>1 DEF HasKey, Key
  <2>3. PICK f : /\ Go(t, f)
                 /\ \/ f = [pc |-> "got", producer |-> e.value]
                    \/ f = [pc |-> "insert", main |-> c.main, producer |-> e.value,
                            index |-> FirstSlot(t, c.main)] /\ e.key = t
                    \/ f = [c EXCEPT !.index = NextSlot(t, c.table)]
                    \/ f = [c EXCEPT !.table = c.table - 1, !.index = FirstSlot(t, c.table - 1)]
                    \/ f = [pc |-> "add", main |-> c.main]
    BY <1>3 DEF Probe
  <2> HIDE DEF e
  <2>4. \/ f.pc \in {"probe", "add", "got"}
        \/ f.pc = "insert" /\ f.main = c.main /\ e.key = t
    <3>1. /\ [c EXCEPT !.index = NextSlot(t, c.table)].pc = "probe"
          /\ [c EXCEPT !.table = c.table - 1, !.index = FirstSlot(t, c.table - 1)].pc = "probe"
      BY <1>1, <2>1
    <3>2. CASE f = [pc |-> "got", producer |-> e.value]
      BY <3>2
    <3>3. CASE e.key = t /\ f = [pc |-> "insert", main |-> c.main, producer |-> e.value,
                                 index |-> FirstSlot(t, c.main)]
      BY <3>3
    <3>4. CASE f = [pc |-> "add", main |-> c.main]
      BY <3>4
    <3> HIDE DEF c
    <3> QED
      BY <2>3, <3>1, <3>2, <3>3, <3>4
  <2> QED
    BY <2>1, <2>2, <2>3, <2>4 DEF HashMove
<1>4. CASE Insert(t)
  <2>1. c.pc = "insert"
    BY <1>4 DEF Insert, At
  <2>2. CASE implicitProducerHash[c.main][c.index].key = Nil
    <3> DEFINE f == [pc |-> "got", producer |-> c.producer]
    <3>1. Go(t, f) /\ f.pc = "got"
          /\ implicitProducerHash' = [implicitProducerHash EXCEPT
               ![c.main][c.index] = [key |-> t, value |-> c.producer]]
          /\ UNCHANGED <<implicitProducerHashResizeInProgress, implicitProducerHashCount>>
      BY <1>4, <2>2 DEF Insert
    <3> HIDE DEF f
    <3> QED
      BY <2>1, <2>2, <3>1 DEF HashMove, Key
  <2>3. CASE implicitProducerHash[c.main][c.index].key # Nil
    <3> DEFINE f == [c EXCEPT !.index = NextSlot(t, c.main)]
    <3>1. Go(t, f) /\ UNCHANGED hashes
      BY <1>4, <2>3 DEF Insert, hashes
    <3>2. f.pc = "insert" /\ f.main = c.main
      BY <1>1, <2>1
    <3> HIDE DEF f
    <3> QED
      BY <2>1, <3>1, <3>2 DEF HashMove
  <2> QED
    BY <2>2, <2>3
<1>5. CASE Add(t)
  <2> DEFINE f == [pc |-> "load", main |-> c.main, count |-> implicitProducerHashCount + 1]
  <2>1. /\ c.pc = "add" /\ Go(t, f) /\ f.pc = "load" /\ f.count = implicitProducerHashCount + 1
        /\ implicitProducerHashCount' = implicitProducerHashCount + 1
        /\ UNCHANGED <<implicitProducerHash, implicitProducerHashResizeInProgress>>
    BY <1>5 DEF Add, At
  <2> HIDE DEF f
  <2> QED
    BY <2>1 DEF HashMove
<1>6. ASSUME NEW l \in ResizePcs, NEW m \in Nat, c.pc \in ResizePcs
      PROVE  /\ [c EXCEPT !.pc = l].pc = l /\ [c EXCEPT !.pc = l].count = c.count
             /\ [c EXCEPT !.pc = l, !.main = m].pc = l
             /\ [c EXCEPT !.pc = l, !.main = m].count = c.count
             /\ [c EXCEPT !.main = m, !.pc = l].pc = l
             /\ [c EXCEPT !.main = m, !.pc = l].count = c.count
  BY <1>1, <1>6
<1>7. CASE TestAndSet(t)
  <2> DEFINE l == IF implicitProducerHashResizeInProgress THEN "room" ELSE "resize"
             f == [c EXCEPT !.pc = l]
  <2>1. /\ c.pc = "load" /\ Go(t, f) /\ implicitProducerHashResizeInProgress' = TRUE
        /\ UNCHANGED <<implicitProducerHash, implicitProducerHashCount>>
    BY <1>7 DEF TestAndSet, At
  <2>2. f.pc = l /\ f.count = c.count
    BY <1>6, <2>1 DEF ResizePcs
  <2> HIDE DEF f
  <2> QED
    BY <2>1, <2>2 DEF HashMove
<1>8. CASE Resize(t)
  <2> DEFINE l == IF Wanted(t, Newest) THEN "allocate" ELSE "clear"
             f == [c EXCEPT !.main = Newest, !.pc = l]
  <2>1. c.pc = "resize" /\ Go(t, f) /\ UNCHANGED hashes
    BY <1>8 DEF Resize, At
  <2>2. f.pc = l /\ f.count = c.count
    <3>1. l \in ResizePcs /\ c.pc \in ResizePcs /\ Newest \in Nat
      BY <1>2, <2>1 DEF ResizePcs
    <3> HIDE DEF l
    <3> QED
      BY <1>6, <3>1
  <2> HIDE DEF f
  <2> QED
    BY <2>1, <2>2 DEF HashMove
<1>9. CASE Allocate(t) /\ Larger(t) # {}
  <2> DEFINE f == [c EXCEPT !.main = Newest + 1, !.pc = "clear"]
  <2>1. /\ c.pc = "allocate" /\ Go(t, f)
        /\ implicitProducerHash' = Append(implicitProducerHash, Table(newCapacity(t)))
        /\ UNCHANGED <<implicitProducerHashResizeInProgress, implicitProducerHashCount>>
    BY <1>9 DEF Allocate, At
  <2>2. f.pc = "clear" /\ f.count = c.count
    BY <1>2, <1>6, <2>1 DEF ResizePcs
  <2> HIDE DEF f
  <2> QED
    BY <1>9, <2>1, <2>2 DEF HashMove
<1>10. CASE Allocate(t) /\ Larger(t) = {}
  <2> DEFINE f == [pc |-> "giveup"]
  <2>1. /\ c.pc = "allocate" /\ Go(t, f) /\ f.pc = "giveup"
        /\ implicitProducerHashCount' = implicitProducerHashCount - 1
        /\ UNCHANGED <<implicitProducerHash, implicitProducerHashResizeInProgress>>
    BY <1>10 DEF Allocate, At
  <2> HIDE DEF f
  <2> QED
    BY <2>1 DEF HashMove
<1>11. CASE Clear(t) /\ c.pc = "giveup"
  <2> DEFINE f == [pc |-> "got", producer |-> Nil]
  <2>1. /\ Go(t, f) /\ f.pc = "got" /\ implicitProducerHashResizeInProgress' = FALSE
        /\ UNCHANGED <<implicitProducerHash, implicitProducerHashCount>>
    BY <1>11 DEF Clear, At
  <2> HIDE DEF f
  <2> QED
    BY <1>11, <2>1 DEF HashMove
<1>12. CASE Clear(t) /\ c.pc # "giveup"
  <2> DEFINE f == [c EXCEPT !.pc = "room"]
  <2>1. /\ c.pc = "clear" /\ Go(t, f) /\ implicitProducerHashResizeInProgress' = FALSE
        /\ UNCHANGED <<implicitProducerHash, implicitProducerHashCount>>
    BY <1>12 DEF Clear, At
  <2>2. f.pc = "room" /\ f.count = c.count
    BY <1>6, <2>1 DEF ResizePcs
  <2> HIDE DEF f
  <2> QED
    BY <2>1, <2>2 DEF HashMove
<1>13. CASE Room(t)
  <2>1. c.pc \in {"room", "load"} /\ UNCHANGED hashes
    BY <1>13 DEF Room, At
  <2>2. CASE c.count < Limit(capacity(c.main))
    <3> DEFINE f == [pc |-> "scan", ptr |-> producerListTail, explicit |-> FALSE,
                     back |-> [pc |-> "new", main |-> c.main]]
    <3>1. Go(t, f) /\ f.pc = "scan" /\ f.back = [pc |-> "new", main |-> c.main]
      BY <1>13, <2>2 DEF Room, RecycleOrCreate
    <3> HIDE DEF f
    <3> QED
      BY <2>1, <2>2, <3>1 DEF HashMove
  <2>3. CASE ~(c.count < Limit(capacity(c.main)))
    <3> DEFINE f == [c EXCEPT !.pc = "load", !.main = Newest]
    <3>1. Go(t, f)
      BY <1>13, <2>3 DEF Room
    <3>2. f.pc = "load" /\ f.count = c.count
      BY <1>2, <1>6, <2>1 DEF ResizePcs
    <3> HIDE DEF f
    <3> QED
      BY <2>1, <3>1, <3>2 DEF HashMove
  <2> QED
    BY <2>2, <2>3
<1>14. CASE New(t)
  <2>1. /\ c.pc = "new" /\ c.back.pc = "new" /\ ~c.recycled
        /\ UNCHANGED <<implicitProducerHash, implicitProducerHashResizeInProgress>>
    BY <1>1, <1>14 DEF New, At, IInv, Kinds
  <2>2. CASE c.producer = Nil
    <3> DEFINE f == [pc |-> "got", producer |-> Nil]
    <3>1. Go(t, f) /\ f.pc = "got" /\ implicitProducerHashCount' = implicitProducerHashCount - 1
      BY <1>14, <2>2 DEF New
    <3> HIDE DEF f
    <3> QED
      BY <2>1, <3>1 DEF HashMove
  <2>3. CASE c.producer # Nil
    <3> DEFINE f == [pc |-> "insert", main |-> c.back.main, producer |-> c.producer,
                     index |-> FirstSlot(t, c.back.main)]
    <3>1. /\ Go(t, f) /\ f.pc = "insert" /\ f.main = c.back.main
          /\ implicitProducerHashCount' = implicitProducerHashCount
      BY <1>14, <2>1, <2>3 DEF New
    <3> HIDE DEF f
    <3> QED
      BY <2>1, <3>1 DEF HashMove
  <2> QED
    BY <2>2, <2>3
<1> QED
  BY <1>3, <1>4, <1>5, <1>7, <1>8, <1>9, <1>10, <1>11, <1>12, <1>13, <1>14 DEF HashStep

(* The other steps leave the tables alone.                                 *)
OtherMove(t, f) ==
  LET c == call[t] IN
  \/ c.pc \in QuietPcs /\ f.pc \in QuietPcs
  \/ /\ c.pc \in {"idle", "got", "register", "deactivate"}
     /\ \/ f.pc \in {"probe", "idle", "deactivate"}
        \/ f.pc = "scan" /\ f.back.pc = "register"
  \/ c.pc \in ListPcs /\ f.pc \in ListPcs \cup {"register", "new"} /\ f.back = c.back

LEMMA TokenMoves ==
  ASSUME NEW t \in Thread, TokenStep(t)
  PROVE  /\ UNCHANGED <<hashes, alive>>
         /\ UNCHANGED call \/ \E f : Go(t, f) /\ OtherMove(t, f)
<1> DEFINE c == call[t]
<1>1. ASSUME NEW f, Go(t, f), c.pc \in {"idle", "got", "register", "deactivate"},
             f.pc \in {"probe", "idle", "deactivate"} \/ (f.pc = "scan" /\ f.back.pc = "register")
      PROVE  \E g : Go(t, g) /\ OtherMove(t, g)
  BY <1>1 DEF OtherMove
<1>2. CASE Enqueue(t)
  <2> DEFINE f == [pc |-> "probe", main |-> Newest, table |-> Newest,
                   index |-> HashOf[t] % capacity(Newest)]
  <2>1. c.pc = "idle" /\ Go(t, f) /\ f.pc = "probe" /\ UNCHANGED <<hashes, alive>>
    BY <1>2 DEF Enqueue, At, GetOrAdd, fixed, rest
  <2> HIDE DEF f
  <2> QED
    BY <1>1, <2>1
<1>3. ASSUME NEW k \in Token, CreateToken(t, k)
      PROVE  UNCHANGED <<hashes, alive>> /\ \E g : Go(t, g) /\ OtherMove(t, g)
  <2> DEFINE f == [pc |-> "scan", ptr |-> producerListTail, explicit |-> TRUE,
                   back |-> [pc |-> "register", token |-> k]]
  <2>1. /\ c.pc = "idle" /\ Go(t, f) /\ f.pc = "scan" /\ f.back.pc = "register"
        /\ UNCHANGED <<hashes, alive>>
    BY <1>3 DEF CreateToken, RecycleOrCreate, Owns, At, fixed, rest
  <2> HIDE DEF f
  <2> QED
    BY <1>1, <2>1
<1>4. ASSUME NEW k \in Token, DestroyToken(t, k)
      PROVE  UNCHANGED <<hashes, alive>> /\ \E g : Go(t, g) /\ OtherMove(t, g)
  <2> DEFINE f == [pc |-> "deactivate", producer |-> tokenProducer[k]]
  <2>1. c.pc = "idle" /\ Go(t, f) /\ f.pc = "deactivate" /\ UNCHANGED <<hashes, alive>>
    BY <1>4 DEF DestroyToken, Owns, At
  <2> HIDE DEF f
  <2> QED
    BY <1>1, <2>1
<1>5. ASSUME NEW k \in Token, NEW j \in Token, SwapTokens(t, k, j)
      PROVE  UNCHANGED <<hashes, alive>> /\ UNCHANGED call
  BY <1>5 DEF SwapTokens
<1>6. CASE EnqueueImplicit(t) \/ Register(t) \/ Deactivate(t)
  <2>1. /\ c.pc \in {"got", "register", "deactivate"} /\ Go(t, NoCall)
        /\ UNCHANGED <<hashes, alive>>
    BY <1>6 DEF EnqueueImplicit, Register, Deactivate, At, fixed, rest
  <2>2. NoCall.pc = "idle"
    BY DEF NoCall
  <2> QED
    BY <1>1, <2>1, <2>2
<1> QED
  BY <1>2, <1>3, <1>4, <1>5, <1>6 DEF TokenStep

LEMMA CallMoves ==
  ASSUME IInv, [Next]_vars
  PROVE  \/ UNCHANGED <<hashes, alive, call>>
         \/ Destroy
         \/ \E t \in Thread : \E f :
              /\ Go(t, f) /\ alive' = alive
              /\ HashMove(t, f) \/ (UNCHANGED hashes /\ OtherMove(t, f))
<1>0. Typed /\ HashOK
  BY DEF IInv
<1>1. CASE QuietStep
  BY <1>1 DEF QuietStep, OtherMove, fixed, rest
<1>2. ASSUME NEW t \in Thread, ListStep(t), UNCHANGED <<setup, hashes, content, rotation, rest>>
      PROVE  /\ UNCHANGED <<hashes, alive>>
             /\ UNCHANGED call \/ \E f : Go(t, f) /\ OtherMove(t, f)
  BY <1>0, <1>2, ListStepFrame DEF OtherMove, rest
<1>3. ASSUME NEW t \in Thread, HashStep(t), UNCHANGED <<setup, content, rotation, rest>>
      PROVE  alive' = alive /\ \E f : Go(t, f) /\ HashMove(t, f)
  BY <1>3, HashMoves DEF rest
<1>4. ASSUME NEW t \in Thread, TokenStep(t)
      PROVE  /\ UNCHANGED <<hashes, alive>>
             /\ UNCHANGED call \/ \E f : Go(t, f) /\ OtherMove(t, f)
  BY <1>4, TokenMoves
<1> QED
  BY <1>0, <1>1, <1>2, <1>3, <1>4, NextCases

(* What happens to the keys when t moves on with the frame f.              *)
Enters(t, f, k) == call[t].pc = "insert" /\ f.pc = "got" /\ k = call[t].main
KeysStay(t, f) ==
  /\ Newest' = Newest
  /\ \A k \in 1 .. Newest : capacity(k)' = capacity(k)
  /\ \A u \in Thread : \A k \in 1 .. Newest :
       HasKey(u, k)' <=> HasKey(u, k) \/ (u = t /\ Enters(t, f, k))
KeysGrow(t, f, N) ==
  /\ call[t].pc = "allocate" /\ f.pc = "clear" /\ f.count = call[t].count /\ Larger(t) # {}
  /\ UNCHANGED <<implicitProducerHashResizeInProgress, implicitProducerHashCount>>
  /\ Newest' = N + 1
  /\ capacity(N + 1)' = newCapacity(t)
  /\ \A k \in 1 .. N : capacity(k)' = capacity(k)
  /\ \A u \in Thread : \A k \in 1 .. N : HasKey(u, k)' <=> HasKey(u, k)
  /\ \A u \in Thread : ~HasKey(u, N + 1)'

LEMMA KeysMove ==
  ASSUME IInv, NEW t \in Thread, NEW f, Go(t, f), NEW N, N = Newest,
         HashMove(t, f) \/ (UNCHANGED hashes /\ OtherMove(t, f))
  PROVE  KeysStay(t, f) \/ KeysGrow(t, f, N)
<1> DEFINE c == call[t]
<1>0. Typed /\ HashOK
  BY DEF IInv
<1>1. CASE implicitProducerHash' = implicitProducerHash /\ ~(c.pc = "insert" /\ f.pc = "got")
  BY <1>1, KeysSame DEF KeysStay, Enters
<1>2. CASE /\ c.pc = "insert" /\ f.pc = "got" /\ Key(c.main, c.index) = Nil
           /\ implicitProducerHash' = [implicitProducerHash EXCEPT
                ![c.main][c.index] = [key |-> t, value |-> c.producer]]
  BY <1>0, <1>2, InsertKeys DEF KeysStay, Enters, At
<1>3. CASE /\ c.pc = "allocate" /\ f.pc = "clear" /\ f.count = c.count /\ Larger(t) # {}
           /\ UNCHANGED <<implicitProducerHashResizeInProgress, implicitProducerHashCount>>
           /\ implicitProducerHash' = Append(implicitProducerHash, Table(newCapacity(t)))
  BY <1>0, <1>3, AllocateKeys DEF KeysGrow
<1>4. CASE UNCHANGED hashes /\ OtherMove(t, f)
  <2>1. c.pc # "insert"
    BY <1>4 DEF OtherMove, QuietPcs, ListPcs, AddPcs
  <2> QED
    BY <1>1, <1>4, <2>1 DEF hashes
<1>5. CASE HashMove(t, f)
  BY <1>1, <1>2, <1>3, <1>5 DEF HashMove, hashes
<1> QED
  BY <1>4, <1>5

(* One thread resizes.                                                     *)
LEMMA NextOneResizes == IInv /\ OneResizes /\ [Next]_vars => OneResizes'
<1> SUFFICES ASSUME IInv, OneResizes, [Next]_vars PROVE OneResizes'
  OBVIOUS
<1> DEFINE flag == implicitProducerHashResizeInProgress
<1>0. Typed /\ HashOK /\ flag \in BOOLEAN
  BY DEF IInv, Typed, VarsTyped
<1>1. CASE UNCHANGED <<hashes, alive, call>>
  BY <1>1, KeysSame DEF OneResizes, At, Wanted, hashes, Newest, capacity
<1>2. CASE Destroy
  <2>1. \A u \in Thread : call'[u].pc = "idle"
    BY <1>2 DEF Destroy, Idle, At
  <2> QED
    BY <2>1 DEF OneResizes, Resizing, At
<1>3. ASSUME NEW t \in Thread, NEW f, Go(t, f),
             HashMove(t, f) \/ (UNCHANGED hashes /\ OtherMove(t, f))
      PROVE  OneResizes'
  <2> DEFINE c == call[t]
  <2>1. call'[t] = f /\ \A u \in Thread \ {t} : call'[u] = call[u]
    BY <1>0, <1>3, Moves
  <2>2. /\ f.pc \in Resizing =>
             \/ c.pc \in Resizing /\ flag' = flag
             \/ flag = FALSE /\ flag' = TRUE
        /\ \/ flag' = flag \/ flag' = TRUE
           \/ c.pc \in Resizing /\ f.pc \notin Resizing
        /\ f.pc = "allocate" => Wanted(t, Newest) /\ f.count = c.count /\ UNCHANGED hashes
    <3>1. CASE HashMove(t, f)
      BY <1>0, <3>1 DEF HashMove, Resizing, hashes
    <3>2. CASE UNCHANGED hashes /\ OtherMove(t, f)
      <4>1. f.pc \notin Resizing
        BY <3>2 DEF OtherMove, QuietPcs, ListPcs, AddPcs, Resizing
      <4> QED
        BY <3>2, <4>1 DEF hashes, Resizing
    <3> QED
      BY <1>3, <3>1, <3>2
  <2>3. /\ \A u, v \in Thread : call[u].pc \in Resizing /\ call[v].pc \in Resizing => u = v
        /\ \A u \in Thread : call[u].pc \in Resizing => flag
        /\ \A u \in Thread : call[u].pc = "allocate" => Wanted(u, Newest)
    BY DEF OneResizes, At
  <2>4. \A u, v \in Thread : call'[u].pc \in Resizing /\ call'[v].pc \in Resizing => u = v
    BY <1>0, <2>1, <2>2, <2>3
  <2>5. \A u \in Thread : call'[u].pc \in Resizing => flag'
    BY <1>0, <2>1, <2>2, <2>3
  <2>6. ASSUME NEW u \in Thread, call'[u].pc = "allocate"
        PROVE  call'[u].count >= capacity(Newest)' \div 2
    <3>1. CASE u = t
      <4>1. Wanted(t, Newest) /\ call'[u].count = c.count /\ UNCHANGED hashes
        BY <2>1, <2>2, <2>6, <3>1
      <4>2. capacity(Newest)' = capacity(Newest)
        BY <4>1 DEF hashes, capacity, Newest
      <4> QED
        BY <4>1, <4>2 DEF Wanted
    <3>2. CASE u # t
      <4>1. call'[u] = call[u] /\ call[u].pc = "allocate" /\ call[u].count >= capacity(Newest) \div 2
        BY <2>1, <2>3, <2>6, <3>2 DEF Wanted
      <4>2. c.pc # "allocate"
        BY <2>3, <3>2, <4>1 DEF Resizing
      <4>3. PICK N : N = Newest
        OBVIOUS
      <4>4. KeysStay(t, f)
        BY <1>3, <4>2, <4>3, KeysMove DEF KeysGrow
      <4>5. N \in 1 .. Newest
        BY <4>3, NewestFacts, <1>0 DEF HashOK
      <4>6. Newest' = N /\ capacity(N)' = capacity(N)
        BY <4>3, <4>4, <4>5 DEF KeysStay
      <4>7. capacity(Newest)' = capacity(N)
        BY <4>6 DEF capacity
      <4> QED
        BY <4>1, <4>3, <4>7
    <3> QED
      BY <3>1, <3>2
  <2> QED
    BY <2>4, <2>5, <2>6 DEF OneResizes, At, Wanted
<1> QED
  BY <1>1, <1>2, <1>3, CallMoves

(* A larger table is larger than the ones it replaces.                     *)
LEMMA NextGrows == IInv /\ OneResizes /\ Growing /\ [Next]_vars => Growing'
<1> SUFFICES ASSUME IInv, OneResizes, Growing, [Next]_vars PROVE Growing'
  OBVIOUS
<1>0. Typed /\ HashOK /\ TablesOK
  BY DEF IInv, HashOK
<1>1. CASE UNCHANGED <<hashes, alive, call>>
  BY <1>1, KeysSame DEF Growing, hashes
<1>2. CASE Destroy
  <2>1. Newest' = 1 /\ 1 \in 1 .. Newest /\ capacity(1)' = capacity(1)
    BY <1>0, <1>2, DestroyKeys
  <2>2. \A k \in 1 .. Newest' : k = 1
    BY <2>1
  <2>3. capacity(1) \in Nat
    BY <1>0, <2>1, TableFacts
  <2>4. capacity(1)' <= capacity(1)'
    BY <2>1, <2>3
  <2> QED
    BY <2>2, <2>4 DEF Growing
<1>3. ASSUME NEW t \in Thread, NEW f, Go(t, f),
             HashMove(t, f) \/ (UNCHANGED hashes /\ OtherMove(t, f))
      PROVE  Growing'
  <2>1. PICK N \in Nat \ {0} : N = Newest
    BY <1>0, NewestFacts
  <2>2. CASE KeysStay(t, f)
    BY <2>2 DEF KeysStay, Growing
  <2>3. CASE KeysGrow(t, f, N)
    <3>1. PICK n \in Nat : n = newCapacity(t) /\ call[t].count < n \div 2
      BY <1>0, <2>3, NewCapacity DEF KeysGrow, Larger
    <3>2. /\ call[t].count >= capacity(N) \div 2 /\ call[t].count \in Int
          /\ \A k \in 1 .. N : capacity(k) \in Nat
      <4>1. call[t] \in [pc : ResizePcs, main : Nat, count : Int]
        BY <1>0, <2>3, FrameShapes DEF KeysGrow, Typed, ResizePcs
      <4> QED
        BY <1>0, <2>1, <2>3, <4>1, TableFacts DEF KeysGrow, OneResizes, At, Wanted
    <3>3. capacity(N) <= n
      <4>1. PICK a \in Nat, x \in Int : a = capacity(N) /\ x = call[t].count
        BY <2>1, <3>2
      <4>2. x >= a \div 2 /\ x < n \div 2
        BY <3>1, <3>2, <4>1
      <4>3. a <= n
        BY <4>2
      <4> QED
        BY <4>1, <4>3
    <3>4. \A k \in 1 .. N : capacity(k) <= capacity(N)
      BY <2>1 DEF Growing
    <3>5. \A k \in 1 .. N : capacity(k) <= n
      BY <2>1, <3>1, <3>2, <3>3, <3>4
    <3>6. \A k, l \in 1 .. N : k <= l => capacity(k)' <= capacity(l)'
      BY <2>1, <2>3 DEF KeysGrow, Growing
    <3>7. /\ Newest' = N + 1 /\ capacity(N + 1)' = n
          /\ \A k \in 1 .. N : capacity(k)' <= n
      BY <2>3, <3>1, <3>5 DEF KeysGrow
    <3>8. \A k, l \in 1 .. N + 1 : k <= l => capacity(k)' <= capacity(l)'
      <4> SUFFICES ASSUME NEW k \in 1 .. N + 1, NEW l \in 1 .. N + 1, k <= l
                   PROVE  capacity(k)' <= capacity(l)'
        OBVIOUS
      <4>1. CASE l = N + 1
        <5>1. k = N + 1 \/ k \in 1 .. N
          OBVIOUS
        <5> QED
          BY <3>1, <3>7, <4>1, <5>1
      <4>2. CASE l # N + 1
        <5>1. k \in 1 .. N /\ l \in 1 .. N
          BY <4>2
        <5> QED
          BY <3>6, <5>1
      <4> QED
        BY <4>1, <4>2
    <3> QED
      BY <3>7, <3>8 DEF Growing
  <2> QED
    BY <1>3, <2>1, <2>2, <2>3, KeysMove
<1> QED
  BY <1>1, <1>2, <1>3, CallMoves

(* The count of the ids.                                                   *)
LEMMA KeysOfOthers ==
  ASSUME IInv, NEW t \in Thread, NEW f, Go(t, f), NEW u \in Thread,
         HashMove(t, f) \/ (UNCHANGED hashes /\ OtherMove(t, f))
  PROVE  (\E k \in 1 .. Newest : HasKey(u, k))' <=>
           \/ \E k \in 1 .. Newest : HasKey(u, k)
           \/ u = t /\ call[t].pc = "insert" /\ f.pc = "got"
<1>1. PICK N \in Nat \ {0} : N = Newest
  BY NewestFacts DEF IInv, HashOK
<1>2. call[t].pc = "insert" => call[t].main \in 1 .. N
  BY <1>1, MainsFacts DEF IInv
<1>3. KeysStay(t, f) \/ KeysGrow(t, f, N)
  BY <1>1, KeysMove
<1>4. CASE KeysStay(t, f)
  <2>1. Newest' = N /\ \A k \in 1 .. N : HasKey(u, k)' <=> HasKey(u, k) \/ (u = t /\ Enters(t, f, k))
    BY <1>1, <1>4 DEF KeysStay
  <2> QED
    BY <1>1, <1>2, <2>1 DEF Enters
<1>5. CASE KeysGrow(t, f, N)
  <2>1. /\ Newest' = N + 1 /\ \A k \in 1 .. N : HasKey(u, k)' <=> HasKey(u, k)
        /\ ~HasKey(u, N + 1)' /\ call[t].pc # "insert"
    BY <1>5 DEF KeysGrow
  <2>2. \A k \in 1 .. N + 1 : k \in 1 .. N \/ k = N + 1
    BY <1>1
  <2>3. \A k \in 1 .. N : k \in 1 .. N + 1
    BY <1>1
  <2> QED
    BY <1>1, <2>1, <2>2, <2>3
<1> QED
  BY <1>3, <1>4, <1>5

LEMMA EnrolledMoves ==
  ASSUME IInv, IInv', NEW t \in Thread, NEW f, Go(t, f),
         HashMove(t, f) \/ (UNCHANGED hashes /\ OtherMove(t, f))
  PROVE  /\ \A u \in Thread \ {t} : Enrolled(u, call[u])' <=> Enrolled(u, call[u])
         /\ \/ /\ Enrolled(t, call[t])' <=> Enrolled(t, call[t])
               /\ implicitProducerHashCount' = implicitProducerHashCount
            \/ /\ ~Enrolled(t, call[t]) /\ Enrolled(t, call[t])'
               /\ implicitProducerHashCount' = implicitProducerHashCount + 1
            \/ /\ Enrolled(t, call[t]) /\ ~Enrolled(t, call[t])'
               /\ implicitProducerHashCount' = implicitProducerHashCount - 1
<1> DEFINE c == call[t]
           count == implicitProducerHashCount
           Known(u) == \E k \in 1 .. Newest : HasKey(u, k)
<1>0. Typed /\ HashOK /\ Typed' /\ HashOK'
  BY DEF IInv
<1>1. call'[t] = f /\ \A u \in Thread \ {t} : call'[u] = call[u]
  BY <1>0, Moves
<1>2. \A u \in Thread : Known(u)' <=> Known(u) \/ (u = t /\ c.pc = "insert" /\ f.pc = "got")
  BY KeysOfOthers
<1>3. /\ c.pc \in {"add", "giveup"} \cup ResizePcs => ~Known(t)
      /\ c.pc \in ListPcs \cup {"new"} /\ c.back.pc = "new" => ~Known(t)
      /\ c.pc = "new" => c.back.pc = "new"
  <2>1. Searched(t, c) /\ FrameOK(c)
    BY <1>0 DEF HashOK, Typed
  <2> QED
    BY <2>1, FrameShapes DEF Searched, Unknown
<1>4. FrameOK(f)
  BY <1>0, <1>1 DEF Typed
<1>5. f.pc \in {"register", "new"} => f.pc = f.back.pc
  BY <1>4, FrameShapes
<1> HIDE DEF Known
<1>6. \A u : /\ \A g : Enrolled(u, g) <=> Known(u) \/ g.pc \in {"insert", "new"} \cup ResizePcs
                                      \/ (g.pc \in ListPcs /\ g.back.pc = "new")
             /\ Enrolled(u, call[u])' <=>
                  \/ Known(u)' \/ call'[u].pc \in {"insert", "new"} \cup ResizePcs
                  \/ (call'[u].pc \in ListPcs /\ call'[u].back.pc = "new")
  BY DEF Enrolled, Known
<1>7. \A u \in Thread \ {t} : Enrolled(u, call[u])' <=> Enrolled(u, call[u])
  BY <1>1, <1>2, <1>6
<1> DEFINE In(g) == \/ g.pc \in {"insert", "new"} \cup ResizePcs
                    \/ (g.pc \in ListPcs /\ g.back.pc = "new")
<1>8. /\ Enrolled(t, call[t]) <=> Known(t) \/ In(c)
      /\ Enrolled(t, call[t])' <=> Known(t)' \/ In(f)
  BY <1>1, <1>6
<1>9. Known(t)' <=> Known(t) \/ (c.pc = "insert" /\ f.pc = "got")
  BY <1>2
<1>10. CASE UNCHANGED hashes /\ OtherMove(t, f)
  <2>1. count' = count
    BY <1>10 DEF hashes
  <2>2. c.pc # "insert"
    BY <1>10 DEF OtherMove, QuietPcs, ListPcs, AddPcs
  <2>3. In(f) <=> In(c)
    <3>1. CASE c.pc \in QuietPcs /\ f.pc \in QuietPcs
      BY <3>1 DEF QuietPcs, ListPcs, AddPcs, ResizePcs
    <3>2. CASE /\ c.pc \in {"idle", "got", "register", "deactivate"}
               /\ \/ f.pc \in {"probe", "idle", "deactivate"}
                  \/ f.pc = "scan" /\ f.back.pc = "register"
      BY <3>2 DEF ListPcs, AddPcs, ResizePcs
    <3>3. CASE c.pc \in ListPcs /\ f.pc \in ListPcs \cup {"register", "new"} /\ f.back = c.back
      BY <1>5, <3>3 DEF ListPcs, AddPcs, ResizePcs
    <3> QED
      BY <1>10, <3>1, <3>2, <3>3 DEF OtherMove
  <2> QED
    BY <1>7, <1>8, <1>9, <2>1, <2>2, <2>3
<1>11. CASE HashMove(t, f)
  <2>1. \/ /\ count' = count
           /\ \/ c.pc = "probe" /\ f.pc \in {"probe", "add", "got"}
              \/ /\ c.pc = "probe" /\ f.pc = "insert"
                 /\ \E l \in 1 .. c.main : HasKey(t, l)
              \/ c.pc = "insert" /\ f.pc \in {"insert", "got"}
              \/ c.pc = "new" /\ f.pc = "insert"
              \/ c.pc \in ResizePcs /\ f.pc \in ResizePcs
              \/ c.pc \in ResizePcs /\ f.pc = "scan" /\ f.back.pc = "new"
              \/ c.pc = "giveup" /\ f.pc = "got"
        \/ c.pc = "add" /\ f.pc = "load" /\ count' = count + 1
        \/ c.pc = "allocate" /\ f.pc = "giveup" /\ count' = count - 1
        \/ c.pc = "new" /\ f.pc = "got" /\ count' = count - 1
    BY <1>11 DEF HashMove, hashes, ResizePcs
  <2>2. c.pc = "probe" /\ (\E l \in 1 .. c.main : HasKey(t, l)) => Known(t)
    <3>1. c.pc = "probe" => c.main \in 1 .. Newest
      BY <1>0, MainsFacts
    <3>2. Newest \in Nat
      BY <1>0, NewestFacts DEF HashOK
    <3> QED
      BY <3>1, <3>2 DEF Known
  <2>3. \/ /\ (Known(t)' \/ In(f)) <=> (Known(t) \/ In(c))
           /\ count' = count
        \/ ~(Known(t) \/ In(c)) /\ (Known(t)' \/ In(f)) /\ count' = count + 1
        \/ (Known(t) \/ In(c)) /\ ~(Known(t)' \/ In(f)) /\ count' = count - 1
    BY <1>3, <1>9, <2>1, <2>2 DEF ListPcs, AddPcs, ResizePcs
  <2> QED
    BY <1>7, <1>8, <2>3
<1> QED
  BY <1>10, <1>11

LEMMA NextCountsIds == IInv /\ IInv' /\ IdsCounted /\ [Next]_vars => IdsCounted'
<1> SUFFICES ASSUME IInv, IInv', IdsCounted, [Next]_vars PROVE IdsCounted'
  OBVIOUS
<1> DEFINE count == implicitProducerHashCount
           E == Enrollment
<1>0. Typed /\ HashOK /\ IsFiniteSet(Thread)
  BY ProducerListAssumption DEF IInv
<1>1. CASE UNCHANGED <<hashes, alive, call>>
  <2>1. \A u : Enrolled(u, call[u])' <=> Enrolled(u, call[u])
    BY <1>1, KeysSame DEF Enrolled, hashes
  <2>2. Enrollment' = Enrollment
    BY <2>1 DEF Enrollment
  <2> QED
    BY <1>1, <2>2 DEF IdsCounted, hashes
<1>2. CASE Destroy
  BY <1>2 DEF Destroy, IdsCounted
<1>3. ASSUME NEW t \in Thread, NEW f, Go(t, f), alive' = alive,
             HashMove(t, f) \/ (UNCHANGED hashes /\ OtherMove(t, f))
      PROVE  IdsCounted'
  <2>1. CASE ~alive
    <3>1. call[t].pc = "idle"
      BY <1>0, <2>1 DEF Typed, Idle, At
    <3>2. ~HashMove(t, f)
      BY <3>1 DEF HashMove
    <3> QED
      BY <1>3, <2>1, <3>2 DEF IdsCounted, hashes
  <2>2. CASE alive
    <3>1. PICK S \in SUBSET Thread, n \in Nat : S = E /\ n = Cardinality(S) /\ count = n
      BY <1>0, <2>2, FS_Subset, FS_CardinalityType DEF IdsCounted, Enrollment
    <3>2. PICK T \in SUBSET Thread : T = E'
      BY DEF Enrollment
    <3>3. IsFiniteSet(S) /\ IsFiniteSet(T)
      BY <1>0, FS_Subset
    <3>4. /\ \A u \in Thread \ {t} : u \in T <=> u \in S
          /\ \/ t \in T /\ t \in S /\ count' = count
             \/ t \notin T /\ t \notin S /\ count' = count
             \/ t \notin S /\ t \in T /\ count' = count + 1
             \/ t \in S /\ t \notin T /\ count' = count - 1
      BY <1>3, <3>1, <3>2, EnrolledMoves DEF Enrollment
    <3>5. count' = Cardinality(T)
      <4>1. CASE t \in T <=> t \in S
        <5>1. T = S
          BY <3>4, <4>1
        <5> QED
          BY <3>1, <3>4, <4>1, <5>1
      <4>2. CASE t \notin S /\ t \in T
        <5>1. T = S \cup {t}
          BY <3>4, <4>2
        <5>2. Cardinality(T) = n + 1
          BY <3>1, <3>3, <4>2, <5>1, FS_AddElement
        <5> QED
          BY <3>1, <3>4, <4>2, <5>2
      <4>3. CASE t \in S /\ t \notin T
        <5>1. T = S \ {t}
          BY <3>4, <4>3
        <5>2. Cardinality(T) = n - 1
          BY <3>1, <3>3, <4>3, <5>1, FS_RemoveElement
        <5> QED
          BY <3>1, <3>4, <4>3, <5>2
      <4> QED
        BY <3>4, <4>1, <4>2, <4>3
    <3>6. Cardinality(T) \in 0 .. Cardinality(Thread)
      BY <1>0, <3>3, FS_Subset, FS_CardinalityType
    <3> QED
      BY <3>2, <3>5, <3>6 DEF IdsCounted
  <2> QED
    BY <2>1, <2>2
<1> QED
  BY <1>1, <1>2, <1>3, CallMoves

(* The ids that arrive in a table stay fewer than it has room for.         *)
LEMMA LimitGrows == \A a, b \in Nat : a <= b => Limit(a) <= Limit(b) /\ Limit(a) \in Nat
  BY DEF Limit

Arrives(u, g, k, n) == Bound(u, g, k) \/ Waiting(g, n)

LEMMA FewKept ==
  ASSUME FewArrive, NEW k, NEW n \in Nat, NEW j \in 1 .. Newest, Limit(capacity(j)) <= n,
         \A u \in Thread : Arrives(u, call[u], k, n)' => Arrives(u, call[u], j, n),
         Arriving(k, n)' # {}
  PROVE  Cardinality(Arriving(k, n)') < n
<1>1. PICK S \in SUBSET Thread, T \in SUBSET Thread : S = Arriving(j, n) /\ T = Arriving(k, n)'
  BY DEF Arriving
<1>2. T \subseteq S
  BY <1>1 DEF Arriving, Arrives
<1>3. IsFiniteSet(S) /\ IsFiniteSet(T)
  BY ProducerListAssumption, FS_Subset
<1>4. Cardinality(T) <= Cardinality(S) /\ Cardinality(T) \in Nat /\ Cardinality(S) \in Nat
  BY <1>2, <1>3, FS_Subset, FS_CardinalityType
<1>5. Cardinality(S) < n
  BY <1>1, <1>2 DEF FewArrive
<1> QED
  BY <1>1, <1>4, <1>5

LEMMA ArrivesMoves ==
  ASSUME IInv, IInv', Growing, NEW t \in Thread, NEW f, Go(t, f),
         NEW N, N = Newest, NEW k \in 1 .. N, NEW n \in Nat, Limit(capacity(k)) <= n,
         HashMove(t, f) \/ (UNCHANGED hashes /\ OtherMove(t, f)),
         ~(call[t].pc = "add" /\ f.pc = "load")
  PROVE  \A u \in Thread : Arrives(u, call[u], k, n)' => Arrives(u, call[u], k, n)
<1> DEFINE c == call[t]
<1>0. Typed /\ HashOK /\ TablesOK /\ N \in Nat \ {0}
  BY NewestFacts DEF IInv, HashOK
<1>1. call'[t] = f /\ \A u \in Thread \ {t} : call'[u] = call[u]
  BY <1>0, Moves
<1>2. ASSUME NEW u \in Thread, NEW l \in 1 .. k, HasKey(u, l)'
      PROVE  HasKey(u, l) \/ (u = t /\ Enters(t, f, l))
  <2>1. l \in 1 .. N
    BY <1>0
  <2> QED
    BY <1>2, <2>1, KeysMove DEF KeysStay, KeysGrow
<1>3. ASSUME NEW u \in Thread \ {t}, Arrives(u, call[u], k, n)'
      PROVE  Arrives(u, call[u], k, n)
  <2>1. \A l \in 1 .. k : HasKey(u, l)' => HasKey(u, l)
    BY <1>2
  <2> QED
    BY <1>1, <1>3, <2>1 DEF Arrives, Bound, Waiting
<1>4. ASSUME Arrives(t, call[t], k, n)'
      PROVE  Arrives(t, c, k, n)
  <2>1. \/ \E l \in 1 .. k : HasKey(t, l)'
        \/ f.pc = "insert" /\ f.main <= k
        \/ f.pc \in ListPcs \cup {"new"} /\ f.back.pc = "new" /\ f.back.main <= k
        \/ f.pc \in ResizePcs /\ f.count < n
    BY <1>1, <1>4 DEF Arrives, Bound, Waiting
  <2>2. CASE \E l \in 1 .. k : HasKey(t, l)'
    <3>1. PICK l \in 1 .. k : HasKey(t, l)'
      BY <2>2
    <3>2. CASE HasKey(t, l)
      BY <3>2 DEF Arrives, Bound
    <3>3. CASE Enters(t, f, l)
      BY <1>0, <3>3 DEF Enters, Arrives, Bound
    <3> QED
      BY <1>2, <3>1, <3>2, <3>3
  <2>3. CASE f.pc = "insert" /\ f.main <= k
    <3>1. HashMove(t, f)
      BY <2>3 DEF OtherMove, QuietPcs, ListPcs, AddPcs
    <3>2. \/ /\ c.pc = "probe" /\ f.main = c.main /\ \E l \in 1 .. c.main : HasKey(t, l)
          \/ c.pc = "insert" /\ f.main = c.main
          \/ c.pc = "new" /\ c.back.pc = "new" /\ f.main = c.back.main
      BY <2>3, <3>1 DEF HashMove
    <3>3. CASE c.pc = "probe" /\ f.main = c.main /\ \E l \in 1 .. c.main : HasKey(t, l)
      <4>1. c.main \in 1 .. N
        BY <1>0, <3>3, MainsFacts
      <4>2. \E l \in 1 .. k : HasKey(t, l)
        BY <1>0, <2>3, <3>3, <4>1
      <4> QED
        BY <4>2 DEF Arrives, Bound
    <3> QED
      BY <2>3, <3>2, <3>3 DEF Arrives, Bound
  <2>4. CASE f.pc \in ListPcs \cup {"new"} /\ f.back.pc = "new" /\ f.back.main <= k
    <3>1. CASE UNCHANGED hashes /\ OtherMove(t, f)
      <4>1. c.pc \in ListPcs /\ f.back = c.back
        BY <2>4, <3>1 DEF OtherMove, QuietPcs, ListPcs, AddPcs
      <4> QED
        BY <2>4, <4>1 DEF Arrives, Bound
    <3>2. CASE HashMove(t, f)
      <4>1. /\ c.pc \in {"load", "room"} /\ f.back = [pc |-> "new", main |-> c.main]
            /\ c.count < Limit(capacity(c.main))
        BY <2>4, <3>2 DEF HashMove, ListPcs, AddPcs
      <4>2. c.main <= k
        BY <2>4, <4>1
      <4>3. c.main \in 1 .. N /\ c \in [pc : ResizePcs, main : Nat, count : Int]
        BY <1>0, <4>1, MainsFacts, FrameShapes DEF ResizePcs, Typed
      <4>4. PICK a \in Nat, b \in Nat : a = capacity(c.main) /\ b = capacity(k)
        BY <1>0, <4>3, TableFacts
      <4>5. a <= b
        BY <4>2, <4>3, <4>4 DEF Growing
      <4>6. Limit(a) <= Limit(b) /\ Limit(a) \in Nat /\ Limit(b) \in Nat
        BY <4>5, LimitGrows
      <4>7. c.count < n
        BY <4>1, <4>3, <4>4, <4>6
      <4> QED
        BY <4>1, <4>7 DEF Arrives, Waiting, ResizePcs
    <3> QED
      BY <3>1, <3>2
  <2>5. CASE f.pc \in ResizePcs /\ f.count < n
    <3>1. HashMove(t, f)
      BY <2>5 DEF OtherMove, QuietPcs, ListPcs, AddPcs, ResizePcs
    <3>2. c.pc \in ResizePcs /\ f.count = c.count
      BY <2>5, <3>1 DEF HashMove, ResizePcs
    <3> QED
      BY <2>5, <3>2 DEF Arrives, Waiting
  <2> QED
    BY <2>1, <2>2, <2>3, <2>4, <2>5
<1> QED
  BY <1>3, <1>4

LEMMA NextFewArrive ==
  ASSUME IInv, IInv', Growing, Growing', IdsCounted', FewArrive, [Next]_vars
  PROVE  FewArrive'
<1>0. Typed /\ HashOK /\ TablesOK
  BY DEF IInv, HashOK
<1>1. CASE UNCHANGED <<hashes, alive, call>>
  <2>1. /\ Newest' = Newest
        /\ \A k : capacity(k)' = capacity(k)
        /\ \A k, n : Arriving(k, n)' = Arriving(k, n)
    BY <1>1, KeysSame DEF Arriving, Bound, Waiting, hashes
  <2> QED
    BY <2>1 DEF FewArrive, Limit
<1>2. CASE Destroy
  <2>1. Newest' = 1 /\ 1 \in 1 .. Newest /\ capacity(1)' = capacity(1)
        /\ \A u : HasKey(u, 1)' <=> HasKey(u, 1)
    BY <1>0, <1>2, DestroyKeys
  <2>2. call' = call
    BY <1>2 DEF Destroy
  <2>3. \A n : \A u \in Thread : Arrives(u, call[u], 1, n)' => Arrives(u, call[u], 1, n)
    <3>1. \A l \in 1 .. 1 : l = 1
      OBVIOUS
    <3> QED
      BY <2>1, <2>2, <3>1 DEF Arrives, Bound, Waiting
  <2>4. ASSUME NEW k \in 1 .. Newest', NEW n \in Nat, Limit(capacity(k)') <= n, Arriving(k, n)' # {}
        PROVE  Cardinality(Arriving(k, n)') < n
    <3>1. k = 1 /\ Limit(capacity(1)) <= n
      BY <2>1, <2>4
    <3> QED
      BY <2>1, <2>3, <2>4, <3>1, FewKept
  <2> QED
    BY <2>4 DEF FewArrive, Limit
<1>3. ASSUME NEW t \in Thread, NEW f, Go(t, f), alive' = alive,
             HashMove(t, f) \/ (UNCHANGED hashes /\ OtherMove(t, f))
      PROVE  FewArrive'
  <2>0. PICK N \in Nat \ {0} : N = Newest
    BY <1>0, NewestFacts
  <2>1. call'[t] = f /\ \A u \in Thread \ {t} : call'[u] = call[u]
    BY <1>0, <1>3, Moves
  <2>2. CASE call[t].pc = "add" /\ f.pc = "load"
    <3>1. /\ UNCHANGED <<implicitProducerHash, implicitProducerHashResizeInProgress>>
          /\ f.count = implicitProducerHashCount'
      <4>1. HashMove(t, f)
        BY <1>3, <2>2 DEF OtherMove, QuietPcs, ListPcs, AddPcs
      <4> QED
        BY <2>2, <4>1 DEF HashMove
    <3>2. alive'
      BY <1>0, <1>3, <2>2 DEF Typed, Idle, At
    <3>3. Newest' = N /\ \A k : capacity(k)' = capacity(k)
                      /\ \A u : HasKey(u, k)' <=> HasKey(u, k)
      BY <2>0, <3>1, KeysSame
    <3>4. ASSUME NEW k \in 1 .. N, NEW n \in Nat, Limit(capacity(k)) <= n, Arriving(k, n)' # {}
          PROVE  Cardinality(Arriving(k, n)') < n
      <4>1. CASE f.count < n
        <5>1. PICK S \in SUBSET Thread, T \in SUBSET Thread :
                S = Enrollment' /\ T = Arriving(k, n)'
          BY DEF Enrollment, Arriving
        <5>2. T \subseteq S
          <6>1. ASSUME NEW u \in T PROVE u \in S
            <7>1. Newest' \in Nat /\ k \in 1 .. Newest'
              BY <2>0, <3>3
            <7> QED
              BY <5>1, <6>1, <7>1 DEF Arriving, Bound, Waiting, Enrollment, Enrolled
          <6> QED
            BY <6>1
        <5>3. IsFiniteSet(S) /\ IsFiniteSet(T)
          BY ProducerListAssumption, FS_Subset
        <5>4. /\ Cardinality(T) <= Cardinality(S)
              /\ Cardinality(T) \in Nat /\ Cardinality(S) \in Nat
          BY <5>2, <5>3, FS_Subset, FS_CardinalityType
        <5>5. f.count = Cardinality(S)
          BY <3>1, <3>2, <5>1 DEF IdsCounted
        <5> QED
          BY <4>1, <5>1, <5>4, <5>5
      <4>2. CASE ~(f.count < n)
        <5>1. \A u \in Thread : Arrives(u, call[u], k, n)' => Arrives(u, call[u], k, n)
          <6>1. f.pc = "load" /\ ~Waiting(f, n)
            BY <2>2, <4>2 DEF Waiting
          <6> QED
            BY <2>1, <3>3, <6>1 DEF Arrives, Bound, Waiting, ListPcs, AddPcs
        <5> QED
          BY <2>0, <3>4, <5>1, FewKept
      <4> QED
        BY <4>1, <4>2
    <3> QED
      BY <3>3, <3>4 DEF FewArrive, Limit
  <2>3. CASE ~(call[t].pc = "add" /\ f.pc = "load")
    <3>1. ASSUME NEW k \in 1 .. N, NEW n \in Nat, Limit(capacity(k)) <= n, Arriving(k, n)' # {}
          PROVE  Cardinality(Arriving(k, n)') < n
      <4>1. \A u \in Thread : Arrives(u, call[u], k, n)' => Arrives(u, call[u], k, n)
        BY <1>3, <2>0, <2>3, <3>1, ArrivesMoves
      <4> QED
        BY <2>0, <3>1, <4>1, FewKept
    <3>2. CASE KeysStay(t, f)
      <4>1. Newest' = N /\ \A k \in 1 .. N : capacity(k)' = capacity(k)
        BY <2>0, <3>2 DEF KeysStay
      <4> QED
        BY <3>1, <4>1 DEF FewArrive, Limit
    <3>3. CASE KeysGrow(t, f, N)
      <4>1. /\ Newest' = N + 1 /\ \A k \in 1 .. N : capacity(k)' = capacity(k)
            /\ \A u \in Thread : ~HasKey(u, N + 1)'
        BY <2>0, <3>3 DEF KeysGrow
      <4>2. ASSUME NEW n \in Nat, Limit(capacity(N + 1)') <= n, Arriving(N + 1, n)' # {}
            PROVE  Cardinality(Arriving(N + 1, n)') < n
        <5>1. N \in 1 .. N /\ N \in 1 .. Newest' /\ N + 1 \in 1 .. Newest'
          BY <4>1
        <5>2. PICK a \in Nat, b \in Nat : a = capacity(N) /\ a = capacity(N)' /\ b = capacity(N + 1)'
          BY <2>0, <4>1, <5>1, TableFacts DEF IInv, HashOK, TablesOK
        <5>3. a <= b
          BY <4>1, <5>1, <5>2 DEF Growing
        <5>4. Limit(a) <= Limit(b) /\ Limit(a) \in Nat /\ Limit(b) \in Nat
          BY <5>3, LimitGrows
        <5>5. Limit(capacity(N)) <= n
          BY <4>2, <5>2, <5>4
        <5>6. \A u \in Thread : Arrives(u, call[u], N, n)' => Arrives(u, call[u], N, n)
          BY <1>3, <2>0, <2>3, <5>1, <5>5, ArrivesMoves
        <5>7. ASSUME NEW u \in Thread, Arrives(u, call[u], N + 1, n)'
              PROVE  Arrives(u, call[u], N, n)'
          <6>1. \A l \in 1 .. N + 1 : HasKey(u, l)' => l \in 1 .. N
            BY <2>0, <4>1
          <6>2. CASE u = t
            <7>1. call'[u].pc = "clear"
              BY <2>1, <3>3, <6>2 DEF KeysGrow
            <7> QED
              BY <5>7, <6>1, <7>1 DEF Arrives, Bound, Waiting, ListPcs, AddPcs
          <6>3. CASE u # t
            <7>1. /\ call'[u].pc = "insert" => call'[u].main \in 1 .. N
                  /\ call'[u].pc \in ListPcs \cup {"new"} /\ call'[u].back.pc = "new"
                       => call'[u].back.main \in 1 .. N
              BY <1>0, <2>0, <2>1, <6>3, MainsFacts
            <7> QED
              BY <5>7, <6>1, <7>1 DEF Arrives, Bound, Waiting
          <6> QED
            BY <6>2, <6>3
        <5> QED
          BY <2>0, <4>2, <5>1, <5>5, <5>6, <5>7, FewKept
      <4>3. ASSUME NEW k \in 1 .. Newest', NEW n \in Nat, Limit(capacity(k)') <= n,
                   Arriving(k, n)' # {}
            PROVE  Cardinality(Arriving(k, n)') < n
        <5>1. k = N + 1 \/ k \in 1 .. N
          BY <2>0, <4>1
        <5>2. CASE k \in 1 .. N
          <6>1. Limit(capacity(k)) <= n
            BY <4>1, <4>3, <5>2
          <6> QED
            BY <3>1, <4>3, <5>2, <6>1
        <5> QED
          BY <4>2, <4>3, <5>1, <5>2
      <4> QED
        BY <4>3 DEF FewArrive, Limit
    <3> QED
      BY <1>3, <2>0, <3>2, <3>3, KeysMove
  <2> QED
    BY <2>2, <2>3
<1> QED
  BY <1>1, <1>2, <1>3, CallMoves

LEMMA TablesGrowInit == Init => TablesGrow
<1> SUFFICES ASSUME Init PROVE TablesGrow
  OBVIOUS
<1>1. IInv
  BY QueueInit
<1>2. \A t \in Thread : call[t] = NoCall /\ call[t].pc = "idle"
  BY DEF Init, InitList, NoCall
<1>3. /\ Newest = 1 /\ implicitProducerHash[1] = Table(INITIAL_IMPLICIT_PRODUCER_HASH_SIZE)
      /\ implicitProducerHashCount = 0
  BY DEF Init, InitHash, Newest
<1>4. INITIAL_IMPLICIT_PRODUCER_HASH_SIZE \in Nat \ {0}
  BY HashAssumption
<1>5. \A k \in 1 .. Newest : k = 1
  BY <1>3
<1>6. \A t \in Thread : \A k \in 1 .. Newest : ~HasKey(t, k)
  <2>1. DOMAIN implicitProducerHash[1] = Slots(1)
    BY <1>1, <1>3, TableFacts DEF IInv, HashOK
  <2>2. \A i \in Slots(1) : Key(1, i) = Nil
    <3>1. PICK n, e : n = INITIAL_IMPLICIT_PRODUCER_HASH_SIZE /\ e = Table(n)
      OBVIOUS
    <3>2. DOMAIN e = 0 .. n - 1 /\ \A i \in 0 .. n - 1 : e[i].key = Nil
      BY <3>1 DEF Table
    <3> QED
      BY <1>3, <2>1, <3>1, <3>2 DEF Key
  <2> QED
    BY <1>5, <2>2, ProducerListAssumption DEF HasKey
<1>7. OneResizes
  BY <1>2 DEF OneResizes, Resizing, At
<1>8. Growing
  <2>1. capacity(1) \in Nat
    BY <1>1, <1>3, TableFacts DEF IInv, HashOK
  <2> QED
    BY <1>5, <2>1 DEF Growing
<1>9. IdsCounted
  <2>1. Enrollment = {}
    BY <1>2, <1>6 DEF Enrollment, Enrolled, ResizePcs, ListPcs, AddPcs
  <2>2. Cardinality(Thread) \in Nat /\ Cardinality({}) = 0
    BY ProducerListAssumption, FS_CardinalityType, FS_EmptySet
  <2> QED
    BY <1>3, <2>1, <2>2 DEF IdsCounted
<1>10. FewArrive
  <2>1. ASSUME NEW k \in 1 .. Newest, NEW n \in Nat PROVE Arriving(k, n) = {}
    <3>1. \A l \in 1 .. k : l \in 1 .. Newest
      BY <1>3, <1>5
    <3> QED
      BY <1>2, <1>6, <3>1 DEF Arriving, Bound, Waiting, ListPcs, AddPcs, ResizePcs
  <2> QED
    BY <2>1 DEF FewArrive
<1> QED
  BY <1>7, <1>8, <1>9, <1>10 DEF TablesGrow

(* The count, the tables and the threads that wait for room in one fit     *)
(* together (get_or_add_implicit_producer, in any interleaving).           *)
THEOREM TablesGrowRight == Spec => []TablesGrow
<1>1. Init => TablesGrow
  BY TablesGrowInit
<1>2. IInv /\ IInv' /\ TablesGrow /\ [Next]_vars => TablesGrow'
  <2> SUFFICES ASSUME IInv, IInv', TablesGrow, [Next]_vars PROVE TablesGrow'
    OBVIOUS
  <2>1. OneResizes' /\ Growing' /\ IdsCounted'
    BY NextOneResizes, NextGrows, NextCountsIds DEF TablesGrow
  <2>2. FewArrive'
    BY <2>1, NextFewArrive DEF TablesGrow
  <2> QED
    BY <2>1, <2>2 DEF TablesGrow
<1> QED
  BY <1>1, <1>2, QueueSound, PTL DEF Spec

LEMMA RoomFacts ==
  ASSUME IInv, TablesGrow
  PROVE  RoomToInsert
<1>0. TablesOK /\ Reachable
  BY DEF IInv, HashOK
<1> SUFFICES ASSUME NEW k \in 1 .. Newest, \A i \in Slots(k) : Key(k, i) # Nil PROVE FALSE
  <2>1. \A k \in 1 .. Newest : DOMAIN implicitProducerHash[k] = Slots(k)
    BY <1>0, TableFacts
  <2> QED
    BY <2>1 DEF RoomToInsert, Key
<1>1. PICK n \in Nat \ {0} : n = capacity(k) /\ Slots(k) = 0 .. n - 1
  BY <1>0, TableFacts DEF Slots
<1>2. PICK l \in Nat : l = Limit(n) /\ l <= n
  BY DEF Limit
<1>3. PICK S : S = Slots(k)
  OBVIOUS
<1>4. IsFiniteSet(S) /\ Cardinality(S) = n
  <2>1. PICK a, b \in Int : a = 0 /\ b = n - 1
    OBVIOUS
  <2>2. IsFiniteSet(a .. b) /\ Cardinality(a .. b) = IF a > b THEN 0 ELSE b - a + 1
    BY FS_Interval
  <2> QED
    BY <1>1, <1>3, <2>1, <2>2
<1>5. PICK T \in SUBSET Thread : T = Arriving(k, l)
  BY DEF Arriving
<1>6. IsFiniteSet(T)
  BY ProducerListAssumption, FS_Subset
<1>7. PICK f : f = [i \in S |-> Key(k, i)]
  OBVIOUS
<1>8. f \in [S -> T]
  <2>1. ASSUME NEW i \in S PROVE Key(k, i) \in T
    <3>1. Key(k, i) \in Thread
      BY <1>0, <1>3, TableFacts DEF Key, Entry
    <3>2. HasKey(Key(k, i), k) /\ k \in 1 .. k
      BY <1>3 DEF HasKey
    <3> QED
      BY <1>5, <3>1, <3>2 DEF Arriving, Bound
  <2> QED
    BY <1>7, <2>1
<1>9. T # {}
  <2>1. 0 \in S
    BY <1>1, <1>3
  <2> QED
    BY <1>8, <2>1
<1>10. Cardinality(T) < n
  <2>1. Limit(capacity(k)) <= l
    BY <1>1, <1>2
  <2>2. Cardinality(T) < l
    BY <1>5, <1>9, <2>1 DEF TablesGrow, FewArrive
  <2>3. Cardinality(T) \in Nat
    BY <1>6, FS_CardinalityType
  <2> QED
    BY <1>2, <2>2, <2>3
<1>11. \E x, y \in S : x # y /\ f[x] = f[y]
  BY <1>4, <1>6, <1>8, <1>10, FS_PigeonHole
<1>12. PICK x, y \in S : x # y /\ f[x] = f[y]
  BY <1>11
<1> QED
  BY <1>0, <1>3, <1>7, <1>12 DEF Reachable

(* A search for an id or for a free slot always ends: every table keeps a  *)
(* free slot, however many threads go by the same count (3303 and 3310 of  *)
(* concurrentqueue.h).                                                     *)
THEOREM TablesKeepRoom == Spec => []RoomToInsert
<1>1. IInv /\ TablesGrow => RoomToInsert
  BY RoomFacts
<1> QED
  BY <1>1, QueueSound, TablesGrowRight, PTL

-----------------------------------------------------------------------------
(* The number of producers.                                                *)
LatePcs == {"link", "push"}

LEMMA LateMoves ==
  ASSUME Typed, NEW t \in Thread, NEW f, Go(t, f),
         call[t].pc \in LatePcs <=> f.pc \in LatePcs,
         f.pc \in LatePcs => f.ptr = call[t].ptr
  PROVE  \A p \in Producer : CountedFirst(p)' <=> CountedFirst(p)
<1>1. call'[t] = f /\ \A u \in Thread \ {t} : call'[u] = call[u]
  BY Moves
<1> SUFFICES ASSUME NEW p \in Producer PROVE CountedFirst(p)' <=> CountedFirst(p)
  OBVIOUS
<1>2. ASSUME NEW u \in Thread
      PROVE  (call'[u].pc \in {"link", "push"} /\ call'[u].ptr = p)
               <=> (call[u].pc \in {"link", "push"} /\ call[u].ptr = p)
  <2>1. CASE u = t
    BY <1>1, <2>1 DEF LatePcs
  <2>2. CASE u # t
    BY <1>1, <2>2
  <2> QED
    BY <2>1, <2>2
<1> QED
  BY <1>2 DEF CountedFirst

(* How a step of recycle_or_create_producer moves its thread on.           *)
ListMove(t, f) ==
  LET c == call[t] IN
  \/ UNCHANGED list /\ c.pc \in {"scan", "grab", "create"} /\ f.pc \notin LatePcs
  \/ /\ c.pc = "fetch_add" /\ f.pc = "link" /\ f.ptr = c.ptr
     /\ CountProducer(t)
  \/ /\ c.pc = "link" /\ f.pc = "push" /\ f.ptr = c.ptr
     /\ Link(t)
  \/ /\ c.pc = "push" /\ f.pc \notin LatePcs /\ producerListTail = next[c.ptr]
     /\ Push(t)

LEMMA ListMoves ==
  ASSUME Typed, NEW t \in Thread, ListStep(t)
  PROVE  \/ \E f : Go(t, f) /\ ListMove(t, f)
         \/ Push(t) /\ call[t].pc = "push" /\ UNCHANGED call /\ producerListTail # next[call[t].ptr]
<1> DEFINE c == call[t]
<1>1. /\ c.pc \in ListPcs => c \in [pc : ListPcs, ptr : ProducerOrNil, explicit : BOOLEAN,
                                    back : Back]
      /\ c.pc \in ListPcs => c.back.pc \in {"register", "new"}
  BY FrameShapes, BackShape DEF Typed
<1>2. ASSUME NEW l, NEW p, c.pc \in ListPcs
      PROVE  /\ [c EXCEPT !.pc = l].pc = l /\ [c EXCEPT !.pc = l].ptr = c.ptr
             /\ [c EXCEPT !.ptr = p].pc = c.pc
             /\ [c EXCEPT !.pc = l, !.ptr = p].pc = l
  BY <1>1, <1>2
<1>3. ASSUME NEW p, NEW r, Return(t, p, r), c.pc \in ListPcs
      PROVE  \E f : Go(t, f) /\ f.pc \notin LatePcs
  <2> DEFINE f == [producer |-> p, recycled |-> r, back |-> c.back, pc |-> c.back.pc]
  <2>1. Go(t, f) /\ f.pc \in {"register", "new"}
    BY <1>1, <1>3 DEF Return
  <2> HIDE DEF f
  <2> QED
    BY <2>1 DEF LatePcs
<1>4. CASE Scan(t) \/ Grab(t) \/ Create(t)
  <2>1. c.pc \in {"scan", "grab", "create"} /\ UNCHANGED list /\ c.pc \in ListPcs
    BY <1>4 DEF Scan, Grab, Create, At, ListPcs
  <2>2. \/ \E p, r : Return(t, p, r)
        \/ \E l \in {"scan", "grab", "create", "fetch_add"} : \E p :
             \/ Go(t, [c EXCEPT !.pc = l])
             \/ Go(t, [c EXCEPT !.ptr = p])
             \/ Go(t, [c EXCEPT !.pc = l, !.ptr = p])
    BY <1>4 DEF Scan, Grab, Create
  <2>3. CASE \E p, r : Return(t, p, r)
    BY <1>3, <2>1, <2>3 DEF ListMove
  <2>4. CASE \E l \in {"scan", "grab", "create", "fetch_add"} : \E p :
               \/ Go(t, [c EXCEPT !.pc = l])
               \/ Go(t, [c EXCEPT !.ptr = p])
               \/ Go(t, [c EXCEPT !.pc = l, !.ptr = p])
    <3>1. PICK l \in {"scan", "grab", "create", "fetch_add"} : \E p :
               \/ Go(t, [c EXCEPT !.pc = l])
               \/ Go(t, [c EXCEPT !.ptr = p])
               \/ Go(t, [c EXCEPT !.pc = l, !.ptr = p])
      BY <2>4
    <3>2. PICK p, f : /\ Go(t, f)
                      /\ f \in {[c EXCEPT !.pc = l], [c EXCEPT !.ptr = p],
                                [c EXCEPT !.pc = l, !.ptr = p]}
      BY <3>1
    <3>3. f.pc = l \/ f.pc = c.pc
      <4>1. /\ [c EXCEPT !.pc = l].pc = l /\ [c EXCEPT !.ptr = p].pc = c.pc
            /\ [c EXCEPT !.pc = l, !.ptr = p].pc = l
        BY <1>2, <2>1
      <4> HIDE DEF c
      <4>2. CASE f = [c EXCEPT !.pc = l]
        BY <4>1, <4>2
      <4>3. CASE f = [c EXCEPT !.ptr = p]
        BY <4>1, <4>3
      <4>4. CASE f = [c EXCEPT !.pc = l, !.ptr = p]
        BY <4>1, <4>4
      <4> QED
        BY <3>2, <4>2, <4>3, <4>4
    <3>4. f.pc \notin LatePcs
      BY <2>1, <3>1, <3>3 DEF LatePcs
    <3> QED
      BY <2>1, <3>2, <3>4 DEF ListMove
  <2> QED
    BY <2>2, <2>3, <2>4
<1>5. CASE CountProducer(t)
  <2> DEFINE f == [c EXCEPT !.pc = "link"]
  <2>1. c.pc = "fetch_add" /\ Go(t, f)
    BY <1>5 DEF CountProducer, At
  <2>2. f.pc = "link" /\ f.ptr = c.ptr
    BY <1>2, <2>1 DEF ListPcs, AddPcs
  <2> HIDE DEF f
  <2> QED
    BY <1>5, <2>1, <2>2 DEF ListMove
<1>6. CASE Link(t)
  <2> DEFINE f == [c EXCEPT !.pc = "push"]
  <2>1. c.pc = "link" /\ Go(t, f)
    BY <1>6 DEF Link, At
  <2>2. f.pc = "push" /\ f.ptr = c.ptr
    BY <1>2, <2>1 DEF ListPcs, AddPcs
  <2> HIDE DEF f
  <2> QED
    BY <1>6, <2>1, <2>2 DEF ListMove
<1>7. CASE Push(t) /\ producerListTail = next[c.ptr]
  <2>1. c.pc = "push" /\ Return(t, c.ptr, FALSE)
    BY <1>7 DEF Push, At
  <2> QED
    BY <1>3, <1>7, <2>1 DEF ListMove, ListPcs, AddPcs
<1>8. CASE Push(t) /\ producerListTail # next[c.ptr]
  BY <1>8 DEF Push, At
<1> QED
  BY <1>4, <1>5, <1>6, <1>7, <1>8 DEF ListStep

LEMMA ReckonedMoves ==
  ASSUME IInv, [Next]_vars
  PROVE  \/ Reckoned' = Reckoned /\ producerCount' = producerCount
         \/ \E n \in Producer \ Reckoned :
              Reckoned' = Reckoned \cup {n} /\ producerCount' = producerCount + 1
<1>0. Typed /\ ListOK /\ Owned /\ ListStays
  BY NextKeepsList DEF IInv
<1>1. ASSUME NEW t \in Thread, call[t].pc \in AddPcs
      PROVE  /\ call[t].ptr \in Producer /\ call[t].ptr \notin Listed
             /\ \A u \in Thread : call[u].pc \in AddPcs /\ call[u].ptr = call[t].ptr => u = t
  <2>1. PICK n \in Producer : n = call[t].ptr
    BY <1>0, <1>1, FrameShapes DEF Typed, ListPcs
  <2>2. Adds(t, n)
    BY <1>1, <2>1 DEF Adds
  <2>3. \A u \in Thread : Adds(u, n) => u = t
    BY <1>0, <2>2 DEF Owned, Mine
  <2> QED
    BY <1>0, <2>1, <2>2, <2>3 DEF ListOK, Adds
<1>2. ASSUME Listed' = Listed, \A p \in Producer : CountedFirst(p)' <=> CountedFirst(p)
      PROVE  Reckoned' = Reckoned
  BY <1>2 DEF Reckoned
<1>3. ASSUME UNCHANGED call PROVE \A p \in Producer : CountedFirst(p)' <=> CountedFirst(p)
  BY <1>3 DEF CountedFirst
<1>4. CASE UNCHANGED list /\ (UNCHANGED call \/ \E t \in Thread : \E f :
               Go(t, f) /\ call[t].pc \notin LatePcs /\ f.pc \notin LatePcs)
  <2>1. Listed' = Listed /\ producerCount' = producerCount
    BY <1>4, ListSame DEF list
  <2> QED
    BY <1>0, <1>2, <1>3, <1>4, <2>1, LateMoves
<1>5. CASE QuietStep \/ Destroy
  <2>1. /\ UNCHANGED list
        /\ \/ UNCHANGED call
           \/ \E t \in Thread : \E f : call[t].pc \in QuietPcs /\ f.pc \in QuietPcs /\ Go(t, f)
    BY <1>5 DEF QuietStep, Destroy, fixed
  <2> QED
    BY <1>4, <2>1 DEF QuietPcs, LatePcs
<1>6. ASSUME NEW t \in Thread, HashStep(t)
      PROVE  UNCHANGED list /\ \E f : Go(t, f) /\ call[t].pc \notin LatePcs /\ f.pc \notin LatePcs
  <2>1. UNCHANGED list
    BY <1>6 DEF HashStep, Probe, Insert, Add, TestAndSet, Resize, Allocate, Clear, Room, New
  <2>2. PICK f : Go(t, f) /\ HashMove(t, f)
    BY <1>6, HashMoves
  <2> QED
    BY <2>1, <2>2 DEF HashMove, LatePcs
<1>7. ASSUME NEW t \in Thread, TokenStep(t)
      PROVE  /\ UNCHANGED list
             /\ \/ UNCHANGED call
                \/ \E f : Go(t, f) /\ call[t].pc \notin LatePcs /\ f.pc \notin LatePcs
  <2>1. UNCHANGED list
    BY <1>7 DEF TokenStep, Enqueue, CreateToken, DestroyToken, SwapTokens, EnqueueImplicit,
           Register, Deactivate, fixed
  <2>2. UNCHANGED call \/ (call[t].pc \notin ListPcs /\ \E f : Go(t, f) /\ OtherMove(t, f))
    <3>1. UNCHANGED call \/ call[t].pc \in {"idle", "got", "register", "deactivate"}
      BY <1>7 DEF TokenStep, Enqueue, CreateToken, DestroyToken, SwapTokens, EnqueueImplicit,
             Register, Deactivate, Owns, At
    <3> QED
      BY <1>7, <3>1, TokenMoves DEF ListPcs, AddPcs
  <2> QED
    BY <2>1, <2>2 DEF OtherMove, QuietPcs, ListPcs, AddPcs, LatePcs
<1>8. ASSUME NEW t \in Thread, ListStep(t)
      PROVE  \/ Reckoned' = Reckoned /\ producerCount' = producerCount
             \/ \E n \in Producer \ Reckoned :
                  Reckoned' = Reckoned \cup {n} /\ producerCount' = producerCount + 1
  <2> DEFINE c == call[t]
  <2>1. CASE Push(t) /\ c.pc = "push" /\ UNCHANGED call /\ producerListTail # next[c.ptr]
    <3>1. producerCount' = producerCount /\ producerListTail' = producerListTail
      BY <2>1 DEF Push
    <3>2. Listed' = Listed
      <4>1. ASSUME NEW u \in Thread, Adds(u, producerListTail'), producerListTail' = producerListTail
            PROVE  Listed' = Listed
        <5>1. producerListTail \notin Listed
          BY <1>1, <4>1 DEF Adds
        <5>2. producerListTail \in Producer
          BY <1>1, <4>1 DEF Adds
        <5> QED
          BY <5>1, <5>2, ListFacts, ProducerListAssumption
      <4> QED
        BY <1>0, <3>1, <4>1 DEF ListStays
    <3> QED
      BY <1>2, <1>3, <2>1, <3>1, <3>2
  <2>2. ASSUME NEW f, Go(t, f), ListMove(t, f)
        PROVE  \/ Reckoned' = Reckoned /\ producerCount' = producerCount
               \/ \E n \in Producer \ Reckoned :
                    Reckoned' = Reckoned \cup {n} /\ producerCount' = producerCount + 1
    <3>0. call'[t] = f /\ \A u \in Thread \ {t} : call'[u] = call[u]
      BY <1>0, <2>2, Moves
    <3>1. CASE UNCHANGED list /\ c.pc \in {"scan", "grab", "create"} /\ f.pc \notin LatePcs
      BY <1>4, <2>2, <3>1 DEF LatePcs
    <3>2. CASE c.pc = "fetch_add" /\ f.pc = "link" /\ f.ptr = c.ptr /\ CountProducer(t)
      <4>1. UNCHANGED <<producerListTail, next>> /\ producerCount' = producerCount + 1
        BY <3>2 DEF CountProducer
      <4>2. Listed' = Listed
        BY <4>1, ListSame
      <4>3. PICK n \in Producer : n = c.ptr
        BY <1>1, <3>2 DEF AddPcs
      <4>4. n \notin Reckoned
        BY <1>1, <3>2, <4>3 DEF Reckoned, CountedFirst, AddPcs
      <4>5. \A p \in Producer : CountedFirst(p)' <=> CountedFirst(p) \/ p = n
        BY <3>0, <3>2, <4>3 DEF CountedFirst
      <4>6. Reckoned' = Reckoned \cup {n}
        BY <4>2, <4>5 DEF Reckoned
      <4> QED
        BY <4>1, <4>4, <4>6
    <3>3. CASE c.pc = "link" /\ f.pc = "push" /\ f.ptr = c.ptr /\ Link(t)
      <4>1. producerCount' = producerCount /\ producerListTail' = producerListTail
        BY <3>3 DEF Link
      <4>2. Listed' = Listed
        <5>1. ASSUME NEW u \in Thread, Adds(u, producerListTail') PROVE FALSE
          <6>1. producerListTail \notin Listed /\ producerListTail \in Producer
            BY <1>1, <4>1, <5>1 DEF Adds
          <6> QED
            BY <6>1, ListFacts, ProducerListAssumption
        <5> QED
          BY <1>0, <5>1 DEF ListStays
      <4>3. \A p \in Producer : CountedFirst(p)' <=> CountedFirst(p)
        BY <1>0, <2>2, <3>3, LateMoves DEF LatePcs
      <4> QED
        BY <1>2, <4>1, <4>2, <4>3
    <3>4. CASE c.pc = "push" /\ f.pc \notin LatePcs /\ producerListTail = next[c.ptr] /\ Push(t)
      <4>1. producerCount' = producerCount /\ producerListTail' = c.ptr /\ next' = next
        BY <3>4 DEF Push
      <4>2. PICK n \in Producer : n = c.ptr /\ n \notin Listed
        BY <1>1, <3>4 DEF AddPcs
      <4>3. Listed' = Listed \cup {n}
        BY <1>0, <3>4, <4>1, <4>2, ListPush
      <4>4. \A p \in Producer : p # n => (CountedFirst(p)' <=> CountedFirst(p))
        BY <3>0, <3>4, <4>2 DEF CountedFirst, LatePcs
      <4>5. CountedFirst(n)
        BY <3>4, <4>2 DEF CountedFirst
      <4>6. Reckoned' = Reckoned
        BY <4>2, <4>3, <4>4, <4>5 DEF Reckoned
      <4> QED
        BY <4>1, <4>6
    <3> QED
      BY <2>2, <3>1, <3>2, <3>3, <3>4 DEF ListMove
  <2> QED
    BY <1>0, <1>8, <2>1, <2>2, ListMoves
<1> QED
  BY <1>0, <1>4, <1>5, <1>6, <1>7, <1>8, NextCases

LEMMA ListCountedInit == Init => ListCounted
<1> SUFFICES ASSUME Init PROVE ListCounted
  OBVIOUS
<1>1. PICK n \in Nat : \E old \in [1 .. n -> Producer] : OrderedBy(old, n)
  BY InitialOrder
<1>2. PICK old \in [1 .. n -> Producer] :
         /\ producerCount = n
         /\ \A i, j \in 1 .. n : old[i] = old[j] => i = j
         /\ Listed = {old[i] : i \in 1 .. n}
         /\ \A i \in 1 .. n : next[old[i]] = IF i = 1 THEN Nil ELSE old[i - 1]
  BY <1>1, ListInit DEF OrderedBy
<1>3. NoCycle
  <2> SUFFICES ASSUME NEW p \in Listed PROVE p \notin From(next[p])
    BY DEF NoCycle
  <2>1. PICK i \in 1 .. n : p = old[i]
    BY <1>2
  <2>2. PICK S \in SUBSET Producer : S = {old[j] : j \in 1 .. i - 1}
    <3>1. \A j \in 1 .. i - 1 : j \in 1 .. n
      OBVIOUS
    <3> QED
      BY <3>1
  <2>3. Closed(S) /\ next[p] \in S \cup {Nil}
    <3>1. ASSUME NEW j \in 1 .. i PROVE next[old[j]] \in S \cup {Nil}
      <4>1. j \in 1 .. n /\ (j # 1 => j - 1 \in 1 .. i - 1)
        OBVIOUS
      <4> QED
        BY <1>2, <2>2, <4>1
    <3>2. ASSUME NEW x \in S PROVE next[x] \in S \cup {Nil}
      <4>1. PICK j \in 1 .. i - 1 : x = old[j]
        BY <2>2
      <4>2. j \in 1 .. i
        OBVIOUS
      <4> QED
        BY <3>1, <4>1, <4>2
    <3> QED
      BY <2>1, <3>1, <3>2 DEF Closed
  <2>4. From(next[p]) \subseteq S
    BY <2>3, ListLeast
  <2>5. p \notin S
    <3>1. ASSUME NEW j \in 1 .. i - 1 PROVE old[j] # p
      <4>1. j \in 1 .. n /\ j # i
        OBVIOUS
      <4> QED
        BY <1>2, <2>1, <4>1
    <3> QED
      BY <2>2, <3>1
  <2> QED
    BY <2>4, <2>5
<1>4. Reckoned = Listed
  BY ListInit DEF Reckoned, CountedFirst, Init, InitList, NoCall, InitiallyListed, Listed, From
<1>5. Cardinality(Listed) = n
  <2>1. PICK S, T : S = 1 .. n /\ T = Listed
    OBVIOUS
  <2>2. IsFiniteSet(S) /\ Cardinality(S) = n
    <3>1. PICK a, b \in Int : a = 1 /\ b = n
      OBVIOUS
    <3>2. IsFiniteSet(a .. b) /\ Cardinality(a .. b) = IF a > b THEN 0 ELSE b - a + 1
      BY FS_Interval
    <3> QED
      BY <2>1, <3>1, <3>2
  <2>3. old \in [S -> T]
    BY <1>2, <2>1
  <2>4. old \in Surjection(S, T) /\ old \in Injection(S, T)
    <3>1. \A x \in T : \E i \in S : old[i] = x
      BY <1>2, <2>1
    <3>2. \A i, j \in S : old[i] = old[j] => i = j
      BY <1>2, <2>1
    <3> QED
      BY <2>3, <3>1, <3>2 DEF Surjection, Injection, IsInjective
  <2>5. Cardinality(T) = Cardinality(S)
    BY <2>2, <2>4, FS_Surjection
  <2> QED
    BY <2>1, <2>2, <2>5
<1> QED
  BY <1>2, <1>3, <1>4, <1>5 DEF ListCounted

LEMMA NextListCounted == IInv /\ IInv' /\ ListCounted /\ [Next]_vars => ListCounted'
<1> SUFFICES ASSUME IInv, IInv', ListCounted, [Next]_vars PROVE ListCounted'
  OBVIOUS
<1>1. ListStays
  BY NextKeepsList
<1>2. NoCycle'
  <2> SUFFICES ASSUME NEW p \in Listed' PROVE p \notin From(next[p])'
    BY DEF NoCycle
  <2>0. next' \in [Producer -> ProducerOrNil] /\ From(Nil)' = {}
    <3>1. next' \in [Producer -> ProducerOrNil]
      BY DEF IInv, Typed, VarsTyped
    <3>2. Closed({})' /\ Nil \in {} \cup {Nil}
      BY DEF Closed
    <3> QED
      BY <3>1, <3>2 DEF From
  <2>1. CASE p \in Listed
    <3>1. PICK q : q = next[p] /\ q = next'[p] /\ q \in Listed \cup {Nil}
      BY <1>1, <2>1, ListFacts DEF ListStays
    <3>2. p \notin From(q)
      BY <2>1, <3>1 DEF ListCounted, NoCycle
    <3>3. p \notin From(q)'
      BY <1>1, <2>0, <3>1, <3>2 DEF ListStays
    <3> QED
      BY <3>1, <3>3 DEF From
  <2>2. CASE p \notin Listed
    <3>1. p = producerListTail' /\ next' = next /\ next[p] = producerListTail
      BY <1>1, <2>2 DEF ListStays
    <3>2. PICK q : q = producerListTail /\ q = next'[p]
      BY <3>1
    <3>3. q \in Listed \cup {Nil}
      BY <3>2, ListFacts
    <3>4. p \notin From(q)'
      <4>1. CASE q = Nil
        BY <2>0, <4>1
      <4>2. CASE q \in Listed
        <5>1. From(q)' = From(q)
          BY <1>1, <4>2 DEF ListStays
        <5>2. From(q) \subseteq Listed
          BY <4>2, ListFacts
        <5> QED
          BY <2>2, <5>1, <5>2
      <4> QED
        BY <3>3, <4>1, <4>2
    <3> QED
      BY <3>2, <3>4 DEF From
  <2> QED
    BY <2>1, <2>2
<1>3. PICK S \in SUBSET Producer, T \in SUBSET Producer : S = Reckoned /\ T = Reckoned'
  BY DEF Reckoned
<1>4. IsFiniteSet(S) /\ Cardinality(S) \in Nat /\ producerCount = Cardinality(S)
  BY <1>3, ProducerListAssumption, FS_Subset, FS_CardinalityType DEF ListCounted
<1>5. producerCount' = Cardinality(T)
  <2>1. CASE T = S /\ producerCount' = producerCount
    BY <1>4, <2>1
  <2>2. CASE \E n \in Producer \ S : T = S \cup {n} /\ producerCount' = producerCount + 1
    BY <1>4, <2>2, FS_AddElement
  <2> QED
    BY <1>3, <2>1, <2>2, ReckonedMoves
<1> QED
  BY <1>2, <1>3, <1>5 DEF ListCounted

(* The list leads one way, and no producer that can be come by is left out *)
(* of the count (add_producer counts before it links, 1415).               *)
THEOREM ListIsCounted == Spec => []ListCounted
<1>1. Init => ListCounted
  BY ListCountedInit
<1>2. IInv /\ IInv' /\ ListCounted /\ [Next]_vars => ListCounted'
  BY NextListCounted
<1> QED
  BY <1>1, <1>2, QueueSound, PTL DEF Spec

-----------------------------------------------------------------------------
(* Consumers.  What a frame says of the list stays true when others go on. *)
LEMMA FineKept ==
  ASSUME IInv, IInv', ListStays, NEW f, NEW c, NEW m, NEW n \in SUBSET m, Fine(f, c, m)
  PROVE  Fine(f, c, n)'
<1>1. Listed \subseteq Listed' /\ \A p \in Listed : From(p)' = From(p)
  BY DEF ListStays
<1>2. ConsumerTokenTyped(c) => ConsumerTokenTyped(c)'
  BY <1>1 DEF ConsumerTokenTyped
<1>3. Consuming(f, c)'
  <2>1. f.pc = "offset" => f.tail \in Listed
    BY DEF Fine, Consuming
  <2> QED
    BY <1>1, <1>2, <2>1 DEF Fine, Consuming
<1>4. Ahead(f, c, n)'
  <2>1. f.pc = "score" /\ f.nonEmptyCount = 0 => n \subseteq From(f.ptr)'
    BY <1>1 DEF Fine, Ahead, Consuming
  <2>2. f.pc = "rest" => f.skip \notin n /\ (f.count = 0 => n \subseteq From(f.ptr)')
    BY <1>1 DEF Fine, Ahead, Consuming
  <2>3. ASSUME f.pc = "turn", f.count = 0
        PROVE /\ f.ptr # c.currentProducer /\ c.currentProducer \in From(f.tail)'
              /\ IF c.currentProducer \in From(f.ptr)'
                 THEN n \subseteq From(f.ptr)' \ From(c.currentProducer)'
                 ELSE n \subseteq From(f.ptr)' \cup (From(f.tail)' \ From(c.currentProducer)')
    <3>1. f.ptr \in Listed /\ f.tail \in Listed
      BY <2>3 DEF Fine, Consuming
    <3>2. c.currentProducer \in Listed
      BY <2>3 DEF Fine, Consuming, ConsumerTokenTyped, TokenPcs, AtCurrent
    <3>3. /\ From(f.ptr)' = From(f.ptr) /\ From(f.tail)' = From(f.tail)
          /\ From(c.currentProducer)' = From(c.currentProducer)
      BY <1>1, <3>1, <3>2
    <3> QED
      BY <2>3, <3>3 DEF Fine, Ahead
  <2> QED
    BY <2>1, <2>2, <2>3 DEF Fine, Ahead
<1> QED
  BY <1>1, <1>2, <1>3, <1>4 DEF Fine

LEMMA ConsumersKept ==
  ASSUME IInv, IInv', ConsumersOK, ListStays, setup' = setup,
         size' \in [Producer -> Sizes], missed' \in [Thread -> SUBSET Producer],
         DOMAIN consumer' = Thread, consumer' = [t \in Thread |-> consumer'[t]], Offsets',
         \A t \in Thread : \A p \in missed'[t] : size'[p] > 0,
         \A t \in Thread :
           \/ /\ call'[t] = call[t] /\ consumer'[t] = consumer[t]
              /\ missed'[t] \subseteq missed[t]
           \/ \E f, c, m : /\ call'[t] = f /\ consumer'[t] = c /\ missed'[t] = m
                           /\ Fine(f, c, m)
  PROVE  ConsumersOK'
<1>1. ASSUME NEW t \in Thread PROVE Fine(call[t], consumer[t], missed[t])'
  <2>1. PICK f, c, m, n : /\ call'[t] = f /\ consumer'[t] = c /\ missed'[t] = n
                          /\ n \subseteq m /\ Fine(f, c, m)
    BY DEF ConsumersOK
  <2>2. Fine(f, c, n)'
    BY <2>1, FineKept
  <2> QED
    BY <2>1, <2>2
<1>2. Sizes' = Sizes
  BY DEF Sizes
<1> QED
  BY <1>1, <1>2 DEF ConsumersOK

(* The steps.                                                              *)
LEMMA ConsumerFacts ==
  ASSUME IInv, ConsumersOK
  PROVE  /\ setup.room \in Nat /\ Sizes \subseteq Nat
         /\ size \in [Producer -> Nat] /\ \A p \in Producer : size[p] \in Sizes
         /\ \A t \in Thread : /\ Fine(call[t], consumer[t], missed[t])
                              /\ \A p \in missed[t] : p \in Listed /\ size[p] > 0
         /\ Listed \subseteq Producer /\ Nil \notin Listed
<1>1. setup.room \in Nat
  BY ProducerListAssumption DEF IInv, Typed, VarsTyped
<1> QED
  BY <1>1, ListFacts DEF ConsumersOK, Sizes, Fine

(* What the taking of n elements leaves.                                   *)
ContentKept(t) ==
  /\ size' \in [Producer -> Sizes] /\ missed' \in [Thread -> SUBSET Producer]
  /\ \A u \in Thread : /\ missed'[u] \subseteq missed[u] \/ u = t
                       /\ \A p \in missed'[u] : size'[p] > 0

LEMMA AvailableFacts ==
  ASSUME IInv, ConsumersOK, NEW p \in Producer, NEW max \in Nat
  PROVE  /\ Available(p, max) \in 0 .. max /\ Available(p, max) \in 0 .. size[p]
         /\ Available(p, max) < max => Available(p, max) = size[p]
  BY ConsumerFacts DEF Available

LEMMA TakeFacts ==
  ASSUME IInv, ConsumersOK, NEW t \in Thread, NEW p \in Producer, NEW f,
         NEW n \in 0 .. size[p], Take(t, p, n, f)
  PROVE  /\ ContentKept(t) /\ Go(t, f) /\ \A u \in Thread : missed'[u] \subseteq missed[u]
         /\ f = NoCall => missed'[t] = {}
         /\ size[p] = n => p \notin missed'[t]
<1>1. /\ size' = [size EXCEPT ![p] = @ - n] /\ Go(t, f)
      /\ missed' = [x \in Thread |->
           IF x = t /\ f = NoCall THEN {}
           ELSE IF size[p] = n THEN missed[x] \ {p} ELSE missed[x]]
  BY DEF Take
<1>2. size' \in [Producer -> Sizes]
  <2>1. size[p] - n \in Sizes
    BY ConsumerFacts DEF Sizes
  <2> QED
    BY <1>1, <2>1 DEF ConsumersOK
<1>3. missed' \in [Thread -> SUBSET Producer]
  BY <1>1 DEF ConsumersOK
<1>4. ASSUME NEW u \in Thread
      PROVE  missed'[u] \subseteq missed[u] /\ \A q \in missed'[u] : size'[q] > 0
  <2>1. missed'[u] \subseteq missed[u] /\ (size[p] = n => p \notin missed'[u])
    BY <1>1
  <2>2. ASSUME NEW q \in missed'[u] PROVE size'[q] > 0
    <3>1. q \in Producer /\ size[q] > 0 /\ size[q] \in Nat /\ size[p] \in Nat
      BY <2>1, ConsumerFacts
    <3>2. CASE q = p
      <4>1. size'[q] = size[p] - n /\ size[p] # n
        BY <1>1, <2>1, <2>2, <3>1, <3>2 DEF ConsumersOK
      <4> QED
        BY <3>1, <4>1
    <3>3. CASE q # p
      BY <1>1, <3>1, <3>3 DEF ConsumersOK
    <3> QED
      BY <3>2, <3>3
  <2> QED
    BY <2>1, <2>2
<1>5. f = NoCall => missed'[t] = {}
  BY <1>1
<1>6. size[p] = n => p \notin missed'[t]
  BY <1>1
<1> QED
  BY <1>1, <1>2, <1>3, <1>4, <1>5, <1>6 DEF ContentKept

(* A call that returns, or one that is not about elements, has nothing to  *)
(* come by.                                                                *)
LEMMA NothingMissed ==
  \A f, c : /\ c = Nil \/ ConsumerTokenTyped(c)
            /\ f = NoCall \/ f.pc \notin DequeuePcs \cup {"idle", "false"}
            => Fine(f, c, {})
<1> SUFFICES ASSUME NEW f, NEW c, c = Nil \/ ConsumerTokenTyped(c),
                    f = NoCall \/ f.pc \notin DequeuePcs \cup {"idle", "false"}
             PROVE  Fine(f, c, {})
  OBVIOUS
<1>1. Consuming(f, c)
  BY DEF Consuming, DequeuePcs, TokenPcs, AtCurrent, NoCall
<1>2. Ahead(f, c, {})
  BY DEF Ahead, DequeuePcs, TokenPcs, NoCall
<1> QED
  BY <1>1, <1>2 DEF Fine

LEMMA FalseFine ==
  ASSUME NEW c, c = Nil \/ ConsumerTokenTyped(c)
  PROVE  Fine(False, c, {})
  BY DEF Fine, Consuming, Ahead, DequeuePcs, TokenPcs, AtCurrent, False

LEMMA AlongFine ==
  ASSUME IInv, NEW p \in Listed \cup {Nil}, NEW skip \in ProducerOrNil, NEW max \in Nat,
         NEW count \in 0 .. max, NEW m \in SUBSET Listed, skip \notin m,
         count = 0 => m \subseteq From(p), NEW c, c = Nil \/ ConsumerTokenTyped(c),
         NEW g, g = [pc |-> "rest", ptr |-> p, skip |-> skip, max |-> max, count |-> count],
         Along(g) = NoCall => m = {}
  PROVE  Fine(Along(g), c, m)
<1>1. g.pc = "rest" /\ g.ptr = p /\ g.skip = skip /\ g.max = max /\ g.count = count
  OBVIOUS
<1>2. CASE count = max \/ (p = Nil /\ count > 0)
  <2>1. Along(g) = NoCall
    BY <1>1, <1>2 DEF Along
  <2> QED
    BY <2>1, NothingMissed
<1>3. CASE ~(count = max \/ (p = Nil /\ count > 0)) /\ p = Nil
  <2>1. Along(g) = False /\ count = 0
    BY <1>1, <1>3 DEF Along
  <2>2. m = {}
    BY <1>3, <2>1, FromFacts, ListFacts
  <2> QED
    BY <2>1, <2>2, FalseFine
<1>4. CASE ~(count = max \/ (p = Nil /\ count > 0)) /\ p # Nil
  <2>1. Along(g) = g /\ p \in Listed
    BY <1>1, <1>4 DEF Along
  <2>2. Consuming(g, c)
    BY <1>1, <1>4, <2>1 DEF Consuming, TokenPcs, AtCurrent
  <2>3. Ahead(g, c, m)
    BY <1>1 DEF Ahead, DequeuePcs
  <2> QED
    BY <2>1, <2>2, <2>3 DEF Fine
<1> QED
  BY <1>2, <1>3, <1>4

LEMMA ScoredFine ==
  ASSUME IInv, NEW p \in Listed \cup {Nil}, NEW n \in 0 .. 3, NEW b \in ProducerOrNil,
         NEW s \in Nat, IF n = 0 THEN s = 0 ELSE b \in Listed,
         NEW m \in SUBSET Listed, n = 0 => m \subseteq From(p),
         NEW c, c = Nil \/ ConsumerTokenTyped(c),
         NEW g, g = [pc |-> "score", ptr |-> p, nonEmptyCount |-> n, best |-> b, bestSize |-> s]
  PROVE  Fine(Scored(g), c, m)
<1>1. g.pc = "score" /\ g.ptr = p /\ g.nonEmptyCount = n /\ g.best = b /\ g.bestSize = s
  OBVIOUS
<1>2. CASE p # Nil /\ n < 3
  <2>1. Scored(g) = g /\ p \in Listed
    BY <1>1, <1>2 DEF Scored
  <2>2. Consuming(g, c)
    BY <1>1, <1>2, <2>1 DEF Consuming, TokenPcs, AtCurrent
  <2>3. Ahead(g, c, m)
    BY <1>1 DEF Ahead, DequeuePcs
  <2> QED
    BY <2>1, <2>2, <2>3 DEF Fine
<1>3. CASE ~(p # Nil /\ n < 3) /\ n = 0
  <2>1. Scored(g) = False
    BY <1>1, <1>3 DEF Scored
  <2>2. m = {}
    BY <1>3, FromFacts, ListFacts
  <2> QED
    BY <2>1, <2>2, FalseFine
<1>4. CASE ~(p # Nil /\ n < 3) /\ n # 0
  <2>1. PICK h : h = Scored(g) /\ h = [pc |-> "best", best |-> b]
    BY <1>1, <1>4 DEF Scored
  <2>2. Consuming(h, c)
    BY <1>4, <2>1 DEF Consuming, TokenPcs, AtCurrent
  <2>3. Ahead(h, c, m)
    BY <2>1 DEF Ahead, DequeuePcs
  <2> QED
    BY <2>1, <2>2, <2>3 DEF Fine
<1> QED
  BY <1>2, <1>3, <1>4

LEMMA AroundFine ==
  ASSUME IInv, NEW p \in Listed, NEW tail \in Listed, NEW max \in Nat \ {0}, NEW count \in Nat,
         NEW m \in SUBSET Listed, NEW c, ConsumerTokenTyped(c),
         c.currentProducer \in Listed,
         count = 0 =>
           /\ c.currentProducer \in From(tail)
           /\ IF c.currentProducer \in From(p)
              THEN m \subseteq From(p) \ From(c.currentProducer)
              ELSE m \subseteq From(p) \cup (From(tail) \ From(c.currentProducer)),
         NEW g, g = [pc |-> "turn", max |-> max, count |-> count, tail |-> tail, ptr |-> p],
         Around(g, c.currentProducer) = NoCall => m = {}
  PROVE  Fine(Around(g, c.currentProducer), c, m)
<1>1. g.pc = "turn" /\ g.ptr = p /\ g.tail = tail /\ g.max = max /\ g.count = count
  OBVIOUS
<1>2. CASE p # c.currentProducer
  <2>1. Around(g, c.currentProducer) = g
    BY <1>1, <1>2 DEF Around
  <2>2. Consuming(g, c)
    <3>1. c.currentProducer # Nil
      BY ListFacts
    <3> QED
      BY <1>1, <3>1 DEF Consuming, TokenPcs, AtCurrent
  <2>3. Ahead(g, c, m)
    BY <1>1, <1>2 DEF Ahead, DequeuePcs, TokenPcs
  <2> QED
    BY <2>1, <2>2, <2>3 DEF Fine
<1>3. CASE p = c.currentProducer /\ count > 0
  <2>1. Around(g, c.currentProducer) = NoCall
    BY <1>1, <1>3 DEF Around
  <2> QED
    BY <2>1, NothingMissed
<1>4. CASE p = c.currentProducer /\ count = 0
  <2>1. Around(g, c.currentProducer) = False
    BY <1>1, <1>4 DEF Around
  <2>2. m = {}
    BY <1>4, ListFacts
  <2> QED
    BY <2>1, <2>2, FalseFine
<1> QED
  BY <1>2, <1>3, <1>4

LEMMA ActorFine ==
  ASSUME IInv, IInv', ConsumersOK, ListStays, setup' = setup, NEW t \in Thread,
         NEW f, NEW c, NEW m, Go(t, f), consumer' = [consumer EXCEPT ![t] = c],
         ContentKept(t), m = missed'[t], Fine(f, c, m), Offsets'
  PROVE  ConsumersOK'
<1>1. call'[t] = f /\ \A u \in Thread \ {t} : call'[u] = call[u]
  BY Moves DEF IInv
<1>2. /\ consumer'[t] = c /\ \A u \in Thread \ {t} : consumer'[u] = consumer[u]
      /\ DOMAIN consumer' = Thread /\ consumer' = [u \in Thread |-> consumer'[u]]
  BY DEF ConsumersOK
<1>3. \A u \in Thread : \/ /\ call'[u] = call[u] /\ consumer'[u] = consumer[u]
                           /\ missed'[u] \subseteq missed[u]
                        \/ \E g, d, n : /\ call'[u] = g /\ consumer'[u] = d /\ missed'[u] = n
                                        /\ Fine(g, d, n)
  BY <1>1, <1>2 DEF ContentKept
<1> QED
  BY <1>2, <1>3, ConsumersKept DEF ContentKept

(* The same when the token stays as it is.                                 *)
LEMMA CallerFine ==
  ASSUME IInv, IInv', ConsumersOK, ListStays, setup' = setup, NEW t \in Thread,
         NEW f, NEW m, Go(t, f), UNCHANGED rotation,
         ContentKept(t), m = missed'[t], Fine(f, consumer[t], m)
  PROVE  ConsumersOK'
<1>1. PICK c : c = consumer[t] /\ consumer' = [consumer EXCEPT ![t] = c]
  BY DEF rotation, ConsumersOK
<1>2. Offsets'
  BY DEF rotation, Offsets, ConsumersOK
<1> QED
  BY <1>1, <1>2, ActorFine

LEMMA SameContent ==
  ASSUME ConsumersOK, size' = size, missed' = missed, NEW t \in Thread
  PROVE  ContentKept(t)
  BY DEF ConsumersOK, ContentKept

LEMMA BeginFine ==
  ASSUME IInv, IInv', ConsumersOK, ListStays, NEW t \in Thread, NEW f, Begin(t, f),
         UNCHANGED rotation,
         \A m \in SUBSET Listed : Fine(f, consumer[t], m)
  PROVE  ConsumersOK'
<1>1. /\ Go(t, f) /\ missed' = [missed EXCEPT ![t] = {p \in Listed : size[p] > 0}]
      /\ setup' = setup /\ size' = size
  BY DEF Begin, fixed
<1>2. PICK m : m = {p \in Listed : size[p] > 0}
  OBVIOUS
<1>3. m = missed'[t] /\ m \in SUBSET Listed
  BY <1>1, <1>2 DEF ConsumersOK
<1>4. ContentKept(t)
  BY <1>1, <1>2, ListFacts DEF ContentKept, ConsumersOK
<1> QED
  BY <1>1, <1>3, <1>4, CallerFine

LEMMA DequeueFine ==
  ASSUME IInv, IInv', ConsumersOK, ListStays, NEW t \in Thread, Dequeue(t), UNCHANGED rest
  PROVE  ConsumersOK'
<1> DEFINE c == consumer[t]
<1>0. c = Nil \/ ConsumerTokenTyped(c)
  BY DEF ConsumersOK, Fine
<1>1. CASE TryDequeue(t)
  <2>1. PICK g : /\ g = [pc |-> "score", ptr |-> producerListTail, nonEmptyCount |-> 0,
                         best |-> Nil, bestSize |-> 0]
                 /\ Begin(t, Scored(g)) /\ UNCHANGED rotation
    BY <1>1 DEF TryDequeue
  <2>2. ASSUME NEW m \in SUBSET Listed PROVE Fine(Scored(g), c, m)
    BY <1>0, <2>1, ScoredFine, ListFacts DEF Listed, ProducerOrNil
  <2> QED
    BY <2>1, <2>2, BeginFine
<1>2. ASSUME NEW max \in setup.bulk, TryDequeueAlong(t, max) PROVE ConsumersOK'
  <2>1. PICK g : /\ g = [pc |-> "rest", ptr |-> producerListTail, skip |-> Nil, max |-> max,
                         count |-> 0]
                 /\ Begin(t, Along(g)) /\ UNCHANGED rotation
    BY <1>2 DEF TryDequeueAlong, FromTail
  <2>2. max \in Nat \ {0}
    BY ProducerListAssumption DEF IInv, Typed, VarsTyped
  <2>3. Along(g) # NoCall
    BY <2>1, <2>2 DEF Along, NoCall, False
  <2>4. ASSUME NEW m \in SUBSET Listed PROVE Fine(Along(g), c, m)
    <3>1. PICK p : p = producerListTail /\ p \in Listed \cup {Nil} /\ m \subseteq From(p)
      BY ListFacts DEF Listed
    <3>2. Nil \in ProducerOrNil /\ Nil \notin m /\ max \in Nat /\ 0 \in 0 .. max
      BY <2>2, ListFacts DEF ProducerOrNil
    <3>3. g = [pc |-> "rest", ptr |-> p, skip |-> Nil, max |-> max, count |-> 0]
      BY <2>1, <3>1
    <3> QED
      BY <1>0, <2>3, <3>1, <3>2, <3>3, AlongFine
  <2> QED
    BY <2>1, <2>4, BeginFine
<1> QED
  BY <1>1, <1>2 DEF Dequeue

LEMMA DequeueWithTokenFine ==
  ASSUME IInv, IInv', ConsumersOK, ListStays, NEW t \in Thread, DequeueWithToken(t),
         UNCHANGED rest
  PROVE  ConsumersOK'
<1>1. PICK max \in setup.bulk, bulk \in BOOLEAN : TryDequeueToken(t, max, bulk)
  BY DEF DequeueWithToken
<1>2. PICK g : /\ g = [pc |-> "check", max |-> max, bulk |-> bulk] /\ consumer[t] # Nil
               /\ Begin(t, g) /\ UNCHANGED rotation
  BY <1>1 DEF TryDequeueToken
<1>3. max \in Nat \ {0}
  BY ProducerListAssumption DEF IInv, Typed, VarsTyped
<1>4. Consuming(g, consumer[t])
  <2>1. ConsumerTokenTyped(consumer[t])
    BY <1>2 DEF ConsumersOK, Fine
  <2> QED
    BY <1>2, <1>3, <2>1 DEF Consuming, TokenPcs, AtCurrent
<1>5. ASSUME NEW m \in SUBSET Listed PROVE Fine(g, consumer[t], m)
  <2>1. Ahead(g, consumer[t], m)
    BY <1>2 DEF Ahead, DequeuePcs, TokenPcs
  <2> QED
    BY <1>4, <2>1 DEF Fine, ConsumersOK
<1> QED
  BY <1>2, <1>5, BeginFine

LEMMA CreateConsumerFine ==
  ASSUME IInv, IInv', ConsumersOK, ListStays, NEW t \in Thread, CreateConsumer(t),
         UNCHANGED rest
  PROVE  ConsumersOK'
<1>1. PICK c : /\ c = [initialOffset |-> nextExplicitConsumerId,
                       lastKnownGlobalOffset |-> Words - 1,
                       itemsConsumedFromCurrent |-> 0, currentProducer |-> Nil,
                       desiredProducer |-> Nil]
               /\ consumer' = [consumer EXCEPT ![t] = c]
  BY DEF CreateConsumer
<1>2. /\ nextExplicitConsumerId' = (nextExplicitConsumerId + 1) % Words
      /\ size' = size /\ missed' = missed /\ call' = call /\ setup' = setup /\ At(t, "idle")
      /\ globalExplicitConsumerOffset' = globalExplicitConsumerOffset
  BY DEF CreateConsumer, fixed, content
<1>3. Words \in Nat \ {0} /\ Offsets
  BY ConsumerAssumption DEF ConsumersOK
<1>4. ConsumerTokenTyped(c)
  BY <1>1, <1>3 DEF ConsumerTokenTyped, ProducerOrNil, Offsets
<1>5. Offsets'
  BY <1>2, <1>3, ModRange DEF Offsets
<1>6. Go(t, NoCall) /\ missed[t] = {}
  <2>1. call[t] = NoCall /\ missed[t] = {}
    BY <1>2 DEF At, ConsumersOK, Fine, Consuming, Ahead, NoCall, DequeuePcs, TokenPcs
  <2> QED
    BY <1>2, <2>1 DEF Go, IInv, Typed
<1>7. Fine(NoCall, c, {})
  BY <1>4, NothingMissed
<1> QED
  BY <1>1, <1>2, <1>5, <1>6, <1>7, SameContent, ActorFine

LEMMA ScoreFine ==
  ASSUME IInv, IInv', ConsumersOK, ListStays, NEW t \in Thread, Score(t), UNCHANGED rest
  PROVE  ConsumersOK'
<1> DEFINE c == consumer[t]
<1>0. (c = Nil \/ ConsumerTokenTyped(c)) /\ Fine(call[t], c, missed[t])
  BY DEF ConsumersOK, Fine
<1>1. PICK f : f = call[t] /\ f.pc = "score"
  BY DEF Score, At
<1>2. /\ f \in [pc : {"score"}, ptr : Listed, nonEmptyCount : 0 .. 2, best : ProducerOrNil,
                bestSize : Nat]
      /\ IF f.nonEmptyCount = 0 THEN f.bestSize = 0 ELSE f.best \in Listed
      /\ f.nonEmptyCount = 0 => missed[t] \subseteq From(f.ptr)
  BY <1>0, <1>1 DEF Fine, Consuming, Ahead
<1>3. PICK p \in Listed, s \in Nat : p = f.ptr /\ s = size[p]
  BY <1>2, ConsumerFacts
<1>4. PICK n, b, z, q :
        /\ n = IF s > 0 THEN f.nonEmptyCount + 1 ELSE f.nonEmptyCount
        /\ b = IF s > f.bestSize THEN p ELSE f.best
        /\ z = IF s > f.bestSize THEN s ELSE f.bestSize
        /\ q = next[p]
  OBVIOUS
<1>5. PICK g : /\ g = [pc |-> "score", ptr |-> q, nonEmptyCount |-> n, best |-> b,
                       bestSize |-> z]
               /\ Go(t, Scored(g))
  <2>1. Go(t, Scored([f EXCEPT !.ptr = q, !.nonEmptyCount = n, !.best = b, !.bestSize = z]))
    BY <1>1, <1>2, <1>3, <1>4 DEF Score
  <2>2. [f EXCEPT !.ptr = q, !.nonEmptyCount = n, !.best = b, !.bestSize = z]
          = [pc |-> "score", ptr |-> q, nonEmptyCount |-> n, best |-> b, bestSize |-> z]
    <3>1. f \in [pc : {"score"}, ptr : ProducerOrNil, nonEmptyCount : Nat, best : ProducerOrNil,
                 bestSize : Nat]
      BY <1>2, ListFacts DEF ProducerOrNil
    <3>2. q \in ProducerOrNil /\ n \in Nat /\ b \in ProducerOrNil /\ z \in Nat
      BY <1>2, <1>3, <1>4, ListFacts DEF ProducerOrNil
    <3> DEFINE h == [f EXCEPT !.ptr = q, !.nonEmptyCount = n, !.best = b, !.bestSize = z]
    <3>3. h \in [pc : {"score"}, ptr : ProducerOrNil, nonEmptyCount : Nat,
                 best : ProducerOrNil, bestSize : Nat]
      BY <3>1, <3>2
    <3>4. h.pc = "score" /\ h.ptr = q /\ h.nonEmptyCount = n /\ h.best = b /\ h.bestSize = z
      BY <3>1
    <3> HIDE DEF h
    <3>5. h = [pc |-> "score", ptr |-> q, nonEmptyCount |-> n, best |-> b, bestSize |-> z]
      BY <3>3, <3>4
    <3> QED
      BY <3>5 DEF h
  <2> QED
    BY <2>1, <2>2
<1>6. /\ setup' = setup /\ size' = size /\ missed' = missed /\ UNCHANGED rotation
  BY DEF Score, fixed, content
<1>7. PICK m : m = missed[t] /\ m \in SUBSET Listed
  BY ConsumerFacts
<1>8. /\ n \in 0 .. 3 /\ b \in ProducerOrNil /\ z \in Nat /\ q \in Listed \cup {Nil}
      /\ IF n = 0 THEN z = 0 ELSE b \in Listed
  <2>1. q \in Listed \cup {Nil} /\ p \in ProducerOrNil
    BY <1>4, ListFacts DEF ProducerOrNil
  <2> QED
    BY <1>2, <1>3, <1>4, <2>1
<1>9. n = 0 => m \subseteq From(q)
  <2>1. SUFFICES ASSUME n = 0 PROVE m \subseteq From(q)
    OBVIOUS
  <2>2. f.nonEmptyCount = 0 /\ s = 0
    BY <1>2, <1>4, <2>1
  <2>3. p \notin m
    <3>1. \A x \in m : size[x] # 0
      BY <1>7, ConsumerFacts
    <3> QED
      BY <1>3, <2>2, <3>1
  <2>4. From(p) = {p} \cup From(q)
    BY <1>4, FromFacts, ListFacts
  <2> QED
    BY <1>2, <1>3, <1>7, <2>2, <2>3, <2>4
<1>10. Fine(Scored(g), c, m)
  BY <1>0, <1>5, <1>7, <1>8, <1>9, ScoredFine
<1> QED
  BY <1>5, <1>6, <1>7, <1>10, SameContent, CallerFine

LEMMA DequeueBestFine ==
  ASSUME IInv, IInv', ConsumersOK, ListStays, NEW t \in Thread, DequeueBest(t), UNCHANGED rest
  PROVE  ConsumersOK'
<1> DEFINE c == consumer[t]
<1>0. (c = Nil \/ ConsumerTokenTyped(c)) /\ Fine(call[t], c, missed[t])
  BY DEF ConsumersOK, Fine
<1>1. PICK p \in Producer : p = call[t].best /\ p \in Listed
  BY <1>0, ListFacts DEF DequeueBest, At, Fine, Consuming
<1>2. PICK n : n = Available(p, 1) /\ n \in 0 .. 1 /\ n \in 0 .. size[p] /\ (n < 1 => n = size[p])
  BY AvailableFacts
<1>3. PICK f : /\ f = IF n = 1 THEN NoCall ELSE [pc |-> "reload", best |-> p]
               /\ Take(t, p, n, f)
  BY <1>1, <1>2 DEF DequeueBest
<1>4. setup' = setup /\ UNCHANGED rotation
  BY DEF DequeueBest, fixed
<1>5. PICK m : m = missed'[t]
  OBVIOUS
<1>6. /\ ContentKept(t) /\ Go(t, f) /\ m \subseteq missed[t]
      /\ (f = NoCall => m = {}) /\ (size[p] = n => p \notin m)
  BY <1>2, <1>3, <1>5, TakeFacts
<1>7. Fine(f, c, m)
  <2>1. CASE n = 1
    BY <1>0, <1>3, <1>6, <2>1, NothingMissed
  <2>2. CASE n # 1
    <3>1. f = [pc |-> "reload", best |-> p] /\ p \notin m
      BY <1>2, <1>3, <1>6, <2>2
    <3>2. Consuming(f, c)
      BY <1>1, <3>1 DEF Consuming, TokenPcs, AtCurrent
    <3>3. Ahead(f, c, m)
      BY <3>1 DEF Ahead, DequeuePcs
    <3> QED
      BY <1>0, <1>6, <3>2, <3>3 DEF Fine
  <2> QED
    BY <2>1, <2>2
<1> QED
  BY <1>4, <1>5, <1>6, <1>7, CallerFine

LEMMA ReloadFine ==
  ASSUME IInv, IInv', ConsumersOK, ListStays, NEW t \in Thread, Reload(t), UNCHANGED rest
  PROVE  ConsumersOK'
<1> DEFINE c == consumer[t]
<1>0. (c = Nil \/ ConsumerTokenTyped(c)) /\ Fine(call[t], c, missed[t])
  BY DEF ConsumersOK, Fine
<1>1. PICK b : b = call[t].best /\ b \in Listed /\ b \notin missed[t]
  BY <1>0 DEF Reload, At, Fine, Consuming, Ahead
<1>2. PICK p : p = producerListTail /\ p \in Listed \cup {Nil} /\ Listed = From(p)
  BY ListFacts DEF Listed
<1>3. PICK g : /\ g = [pc |-> "rest", ptr |-> p, skip |-> b, max |-> 1, count |-> 0]
               /\ Go(t, Along(g))
  BY <1>1, <1>2 DEF Reload, FromTail
<1>4. setup' = setup /\ UNCHANGED rotation /\ size' = size /\ missed' = missed
  BY DEF Reload, fixed, content
<1>5. PICK m : m = missed[t] /\ m \in SUBSET Listed
  BY ConsumerFacts
<1>6. Along(g) # NoCall
  BY <1>3 DEF Along, NoCall, False
<1>7. b \in ProducerOrNil /\ 1 \in Nat /\ 0 \in 0 .. 1
  BY <1>1, ListFacts DEF ProducerOrNil
<1>8. Fine(Along(g), c, m)
  BY <1>0, <1>1, <1>2, <1>3, <1>5, <1>6, <1>7, AlongFine
<1> QED
  BY <1>3, <1>4, <1>5, <1>8, SameContent, CallerFine

LEMMA DequeueRestFine ==
  ASSUME IInv, IInv', ConsumersOK, ListStays, NEW t \in Thread, DequeueRest(t), UNCHANGED rest
  PROVE  ConsumersOK'
<1> DEFINE c == consumer[t]
<1>0. (c = Nil \/ ConsumerTokenTyped(c)) /\ Fine(call[t], c, missed[t])
  BY DEF ConsumersOK, Fine
<1>1. PICK f : f = call[t] /\ f.pc = "rest"
  BY DEF DequeueRest, At
<1>2. /\ f \in [pc : {"rest"}, ptr : Listed, skip : ProducerOrNil, max : Nat, count : Nat]
      /\ f.count < f.max /\ f.skip \notin missed[t]
      /\ f.count = 0 => missed[t] \subseteq From(f.ptr)
  BY <1>0, <1>1 DEF Fine, Consuming, Ahead
<1>3. PICK p \in Producer : p = f.ptr /\ p \in Listed
  BY <1>2, ListFacts
<1>4. PICK a : /\ a = Available(p, f.max - f.count) /\ a \in 0 .. f.max - f.count
               /\ a \in 0 .. size[p] /\ (a < f.max - f.count => a = size[p])
  <2>1. PICK x \in Nat : x = f.max - f.count
    BY <1>2
  <2> QED
    BY <2>1, AvailableFacts
<1>5. PICK n : n = (IF p = f.skip THEN 0 ELSE a) /\ n \in 0 .. f.max - f.count /\ n \in 0 .. size[p]
  BY <1>2, <1>4, ConsumerFacts
<1>6. PICK q, k : q = next[p] /\ k = f.count + n
  OBVIOUS
<1>7. PICK g : /\ g = [pc |-> "rest", ptr |-> q, skip |-> f.skip, max |-> f.max, count |-> k]
               /\ Take(t, p, n, Along(g))
  <2>1. Take(t, p, n, Along([f EXCEPT !.count = @ + n, !.ptr = next[f.ptr]]))
    BY <1>1, <1>3, <1>4, <1>5 DEF DequeueRest
  <2>2. [f EXCEPT !.count = @ + n, !.ptr = next[f.ptr]]
          = [pc |-> "rest", ptr |-> q, skip |-> f.skip, max |-> f.max, count |-> k]
    <3>1. f \in [pc : {"rest"}, ptr : ProducerOrNil, skip : ProducerOrNil, max : Nat, count : Nat]
      BY <1>2, ListFacts DEF ProducerOrNil
    <3>2. k \in Nat /\ q \in ProducerOrNil /\ next[f.ptr] = q /\ f.count + n = k
      BY <1>2, <1>3, <1>5, <1>6, ListFacts DEF ProducerOrNil
    <3> DEFINE h == [f EXCEPT !.count = k, !.ptr = q]
    <3>3. h \in [pc : {"rest"}, ptr : ProducerOrNil, skip : ProducerOrNil, max : Nat,
                 count : Nat]
      BY <3>1, <3>2
    <3>4. h.pc = "rest" /\ h.ptr = q /\ h.skip = f.skip /\ h.max = f.max /\ h.count = k
      BY <3>1
    <3> HIDE DEF h
    <3>5. h = [pc |-> "rest", ptr |-> q, skip |-> f.skip, max |-> f.max, count |-> k]
      BY <3>3, <3>4
    <3> QED
      BY <3>2, <3>5 DEF h
  <2> QED
    BY <2>1, <2>2
<1>8. setup' = setup /\ UNCHANGED rotation
  BY DEF DequeueRest, fixed
<1>9. PICK m : m = missed'[t]
  OBVIOUS
<1>10. /\ ContentKept(t) /\ Go(t, Along(g)) /\ m \subseteq missed[t]
       /\ (Along(g) = NoCall => m = {}) /\ (size[p] = n => p \notin m)
  BY <1>5, <1>7, <1>9, TakeFacts
<1>11. k = 0 => m \subseteq From(q)
  <2>1. SUFFICES ASSUME k = 0 PROVE m \subseteq From(q)
    OBVIOUS
  <2>2. f.count = 0 /\ n = 0
    BY <1>2, <1>5, <1>6, <2>1
  <2>3. p \notin m
    <3>1. CASE p = f.skip
      BY <1>2, <1>10, <3>1
    <3>2. CASE p # f.skip
      BY <1>2, <1>4, <1>5, <1>10, <2>2, <3>2
    <3> QED
      BY <3>1, <3>2
  <2>4. From(p) = {p} \cup From(q)
    BY <1>6, FromFacts, ListFacts
  <2> QED
    BY <1>2, <1>3, <1>10, <2>2, <2>3, <2>4
<1>12. /\ q \in Listed \cup {Nil} /\ f.skip \in ProducerOrNil /\ f.max \in Nat
       /\ k \in 0 .. f.max /\ m \in SUBSET Listed /\ f.skip \notin m
  <2>1. q \in Listed \cup {Nil}
    BY <1>3, <1>6, ListFacts
  <2>2. m \subseteq Listed
    BY <1>10, ConsumerFacts
  <2> QED
    BY <1>2, <1>5, <1>6, <1>10, <2>1, <2>2
<1>13. Fine(Along(g), c, m)
  BY <1>0, <1>7, <1>10, <1>11, <1>12, AlongFine
<1> QED
  BY <1>8, <1>9, <1>10, <1>13, CallerFine

LEMMA AfterFacts ==
  ASSUME IInv
  PROVE  \A p, tail \in Listed : After(p, tail) \in Listed
  BY ListFacts DEF After

(* There are walks of any length, and they stay on the list.               *)
Walk(f, p, tail, n) == f = [i \in 0 .. n |-> IF i = 0 THEN p ELSE After(f[i - 1], tail)]

LEMMA WalksExist ==
  ASSUME NEW p, NEW tail, NEW n \in Nat
  PROVE  \E f : Walk(f, p, tail, n)
<1> DEFINE S == {k \in Nat : ~\E f : Walk(f, p, tail, k)}
<1>1. SUFFICES ASSUME S # {} PROVE FALSE
  OBVIOUS
<1>2. PICK k \in S : \A l \in S : k <= l
  BY <1>1, Smallest
<1>3. k # 0
  <2>1. SUFFICES ASSUME k = 0 PROVE FALSE
    OBVIOUS
  <2>2. PICK f : f = [i \in 0 .. 0 |-> p]
    OBVIOUS
  <2>3. f = [i \in 0 .. 0 |-> IF i = 0 THEN p ELSE After(f[i - 1], tail)]
    BY <2>2
  <2> QED
    BY <1>2, <2>1, <2>3 DEF Walk
<1>4. PICK l \in Nat : k = l + 1 /\ l \notin S
  <2>1. k - 1 \in Nat /\ k = (k - 1) + 1 /\ ~(k <= k - 1)
    BY <1>2, <1>3
  <2>2. k - 1 \notin S
    BY <1>2, <2>1
  <2> QED
    BY <2>1, <2>2
<1>5. PICK g : Walk(g, p, tail, l)
  BY <1>4
<1>6. g = [i \in 0 .. l |-> IF i = 0 THEN p ELSE After(g[i - 1], tail)]
  BY <1>5 DEF Walk
<1>7. PICK f : f = [i \in 0 .. k |-> IF i = k THEN After(g[l], tail) ELSE g[i]]
  OBVIOUS
<1>8. ASSUME NEW i \in 0 .. k PROVE f[i] = IF i = 0 THEN p ELSE After(f[i - 1], tail)
  <2>1. CASE i = k
    <3>1. f[i] = After(g[l], tail) /\ i - 1 = l /\ i # 0
      BY <1>4, <1>7, <2>1
    <3>2. f[l] = g[l]
      BY <1>4, <1>7
    <3> QED
      BY <3>1, <3>2
  <2>2. CASE i # k
    <3>1. i \in 0 .. l /\ (i # 0 => i - 1 \in 0 .. k /\ i - 1 # k)
      BY <1>4, <2>2
    <3>2. f[i] = g[i] /\ (i # 0 => f[i - 1] = g[i - 1])
      BY <1>7, <2>2, <3>1
    <3> QED
      BY <1>6, <3>1, <3>2
  <2> QED
    BY <2>1, <2>2
<1>9. f = [i \in 0 .. k |-> f[i]]
  BY <1>7
<1>10. Walk(f, p, tail, k)
  BY <1>8, <1>9 DEF Walk
<1> QED
  BY <1>2, <1>10

LEMMA AdvanceFacts ==
  ASSUME IInv, NEW p \in Listed, NEW tail \in Listed, NEW n \in Nat
  PROVE  Advance(p, tail, n) \in Listed
<1>1. PICK f : Walk(f, p, tail, n) /\ Advance(p, tail, n) = f[n]
  <2>1. PICK f : /\ f = CHOOSE g : g = [i \in 0 .. n |-> IF i = 0 THEN p ELSE After(g[i - 1], tail)]
                 /\ Advance(p, tail, n) = f[n]
    BY DEF Advance
  <2>2. \E g : g = [i \in 0 .. n |-> IF i = 0 THEN p ELSE After(g[i - 1], tail)]
    <3>1. PICK g : Walk(g, p, tail, n)
      BY WalksExist
    <3>2. g = [i \in 0 .. n |-> IF i = 0 THEN p ELSE After(g[i - 1], tail)]
      BY <3>1 DEF Walk
    <3> QED
      BY <3>2
  <2> QED
    BY <2>1, <2>2 DEF Walk
<1>2. \A i \in 0 .. n : f[i] = IF i = 0 THEN p ELSE After(f[i - 1], tail)
  BY <1>1 DEF Walk
<1> DEFINE S == {k \in 0 .. n : f[k] \notin Listed}
<1>3. SUFFICES ASSUME S # {} PROVE FALSE
  BY <1>1
<1>4. PICK k \in S : \A l \in S : k <= l
  <2>1. S \in SUBSET Nat
    OBVIOUS
  <2> HIDE DEF S
  <2> QED
    BY <1>3, <2>1, Smallest
<1>5. k # 0
  BY <1>2, <1>4
<1>6. k - 1 \in 0 .. n /\ ~(k <= k - 1)
  BY <1>4, <1>5
<1>7. f[k - 1] \in Listed
  BY <1>4, <1>6
<1>8. f[k] = After(f[k - 1], tail)
  BY <1>2, <1>4, <1>5
<1> QED
  BY <1>4, <1>7, <1>8, AfterFacts

LEMMA TokenFacts ==
  ASSUME IInv, ConsumersOK, NEW t \in Thread, call[t].pc \in TokenPcs
  PROVE  /\ ConsumerTokenTyped(consumer[t])
         /\ Consuming(call[t], consumer[t]) /\ Ahead(call[t], consumer[t], missed[t])
         /\ missed[t] \in SUBSET Listed
  BY DEF ConsumersOK, Fine, Consuming

LEMMA CheckOffsetFine ==
  ASSUME IInv, IInv', ConsumersOK, ListStays, NEW t \in Thread, CheckOffset(t), UNCHANGED rest
  PROVE  ConsumersOK'
<1>1. PICK f, c : f = call[t] /\ c = consumer[t] /\ f.pc = "check"
  BY DEF CheckOffset, At
<1>2. /\ ConsumerTokenTyped(c)
      /\ f \in [pc : {"check", "tail", "current"}, max : Nat \ {0}, bulk : BOOLEAN]
  BY <1>1, TokenFacts DEF TokenPcs, Consuming
<1>3. PICK l : /\ l = IF \/ c.desiredProducer = Nil
                         \/ c.lastKnownGlobalOffset # globalExplicitConsumerOffset
                      THEN "tail" ELSE "current"
               /\ Go(t, [f EXCEPT !.pc = l])
  BY <1>1 DEF CheckOffset
<1>4. setup' = setup /\ UNCHANGED rotation /\ size' = size /\ missed' = missed
  BY DEF CheckOffset, fixed, content
<1>5. PICK m : m = missed[t] /\ m \in SUBSET Listed
  BY ConsumerFacts
<1> DEFINE g == [f EXCEPT !.pc = l]
<1>6. /\ g \in [pc : {"check", "tail", "current"}, max : Nat \ {0}, bulk : BOOLEAN]
      /\ g.pc = l
  BY <1>2, <1>3
<1>7. Go(t, g)
  BY <1>3
<1> HIDE DEF g
<1>8. l = "current" => c.currentProducer # Nil
  BY <1>2, <1>3 DEF ConsumerTokenTyped
<1>9. Consuming(g, c)
  BY <1>2, <1>3, <1>6, <1>8 DEF Consuming, TokenPcs, AtCurrent
<1>10. Ahead(g, c, m)
  BY <1>3, <1>6 DEF Ahead, DequeuePcs, TokenPcs
<1>11. Fine(g, consumer[t], m)
  BY <1>1, <1>2, <1>5, <1>9, <1>10 DEF Fine
<1> QED
  BY <1>4, <1>5, <1>7, <1>11, SameContent, CallerFine

(* The producers from the tail that was read are among those counted.      *)
LEMMA CountedEnough ==
  ASSUME IInv, ListCounted, NEW p \in Listed
  PROVE  Cardinality(From(p)) \in Nat /\ Cardinality(From(p)) <= producerCount
<1>1. PICK S, T : S = From(p) /\ T = Reckoned
  OBVIOUS
<1>2. S \subseteq T /\ T \subseteq Producer
  BY <1>1, ListFacts DEF Reckoned
<1>3. IsFiniteSet(T) /\ IsFiniteSet(S)
  BY <1>2, ProducerListAssumption, FS_Subset
<1>4. Cardinality(S) <= Cardinality(T) /\ Cardinality(S) \in Nat
  BY <1>2, <1>3, FS_Subset, FS_CardinalityType
<1> QED
  BY <1>1, <1>4 DEF ListCounted

LEMMA LoadListFine ==
  ASSUME IInv, IInv', ListCounted, ConsumersOK, ListStays, NEW t \in Thread, LoadList(t),
         UNCHANGED rest
  PROVE  ConsumersOK'
<1>1. PICK f, c : f = call[t] /\ c = consumer[t] /\ f.pc \in {"tail", "count"}
  BY DEF LoadList, At
<1>2. /\ ConsumerTokenTyped(c) /\ Consuming(f, c)
  BY <1>1, TokenFacts DEF TokenPcs
<1>3. setup' = setup /\ UNCHANGED rotation /\ size' = size /\ missed' = missed
  BY DEF LoadList, fixed, content
<1>4. PICK m : m = missed[t] /\ m \in SUBSET Listed
  BY ConsumerFacts
<1>5. CASE f.pc = "tail"
  <2>1. f \in [pc : {"check", "tail", "current"}, max : Nat \ {0}, bulk : BOOLEAN]
    BY <1>2, <1>5 DEF Consuming
  <2>2. PICK p : p = producerListTail /\ p \in Listed \cup {Nil} /\ (p = Nil => Listed = {})
    BY ListFacts
  <2>3. CASE c.desiredProducer = Nil /\ p = Nil
    <3>1. Go(t, False)
      BY <1>1, <1>5, <2>2, <2>3 DEF LoadList, At
    <3>2. m = {}
      BY <1>4, <2>2, <2>3
    <3>3. Fine(False, consumer[t], m)
      BY <1>1, <1>2, <3>2, FalseFine
    <3> QED
      BY <1>3, <1>4, <3>1, <3>3, SameContent, CallerFine
  <2>4. CASE ~(c.desiredProducer = Nil /\ p = Nil)
    <3>1. p \in Listed
      BY <1>2, <2>2, <2>4 DEF ConsumerTokenTyped
    <3>2. PICK g : /\ g = [pc |-> "count", max |-> f.max, bulk |-> f.bulk, tail |-> p,
                           count |-> 0]
                   /\ Go(t, g)
      BY <1>1, <1>5, <2>2, <2>4 DEF LoadList, Going, At
    <3>3. Consuming(g, c)
      BY <1>2, <2>1, <3>1, <3>2 DEF Consuming, TokenPcs, AtCurrent
    <3>4. Ahead(g, c, m)
      BY <3>2 DEF Ahead, DequeuePcs, TokenPcs
    <3>5. Fine(g, consumer[t], m)
      BY <1>1, <1>2, <1>4, <3>3, <3>4 DEF Fine
    <3> QED
      BY <1>3, <1>4, <3>2, <3>5, SameContent, CallerFine
  <2> QED
    BY <2>3, <2>4
<1>6. CASE f.pc = "count"
  <2>1. f \in [pc : {"count", "offset"}, max : Nat \ {0}, bulk : BOOLEAN, tail : Listed,
               count : Nat]
    BY <1>2, <1>6 DEF Consuming
  <2>2. PICK p, k : p = f.tail /\ p \in Listed /\ k = producerCount /\ k \in Nat
    BY <2>1 DEF IInv, Typed, VarsTyped
  <2>3. PICK g : /\ g = [pc |-> "offset", max |-> f.max, bulk |-> f.bulk, tail |-> p,
                         count |-> k]
                 /\ Go(t, g)
    BY <1>1, <1>6, <2>2 DEF LoadList, Going, At
  <2>4. k >= Cardinality(From(p))
    BY <2>2, CountedEnough
  <2>5. Consuming(g, c)
    BY <1>2, <2>1, <2>2, <2>3, <2>4 DEF Consuming, TokenPcs, AtCurrent
  <2>6. Ahead(g, c, m)
    BY <2>3 DEF Ahead, DequeuePcs, TokenPcs
  <2>7. Fine(g, consumer[t], m)
    BY <1>1, <1>2, <1>4, <2>5, <2>6 DEF Fine
  <2> QED
    BY <1>3, <1>4, <2>3, <2>7, SameContent, CallerFine
<1> QED
  BY <1>1, <1>5, <1>6

LEMMA UpdateFine ==
  ASSUME IInv, IInv', ConsumersOK, ListStays, NEW t \in Thread, Update(t), UNCHANGED rest
  PROVE  ConsumersOK'
<1>1. PICK f, c : f = call[t] /\ c = consumer[t] /\ f.pc = "offset"
  BY DEF Update, At
<1>2. /\ ConsumerTokenTyped(c)
      /\ f \in [pc : {"count", "offset"}, max : Nat \ {0}, bulk : BOOLEAN, tail : Listed,
                count : Nat]
      /\ f.count >= Cardinality(From(f.tail))
  BY <1>1, TokenFacts DEF TokenPcs, Consuming
<1>3. PICK p \in Listed, k \in Nat \ {0} : p = f.tail /\ k = f.count
  <2>1. PICK S : S = From(f.tail) /\ f.tail \in S /\ IsFiniteSet(S)
    <3>1. f.tail \in Listed
      BY <1>2
    <3>2. f.tail \in From(f.tail) /\ From(f.tail) \subseteq Producer
      BY <3>1, ListFacts
    <3> QED
      BY <3>2, ProducerListAssumption, FS_Subset
  <2>2. Cardinality(S) \in Nat /\ Cardinality(S) # 0
    BY <2>1, FS_EmptySet, FS_CardinalityType
  <2> QED
    BY <1>2, <2>1, <2>2
<1>4. PICK o : o = globalExplicitConsumerOffset /\ o \in 0 .. Words - 1
  BY DEF ConsumersOK, Offsets
<1>5. PICK x, y :
        /\ x = k - 1 - (c.initialOffset % k) /\ x \in Nat
        /\ y = ((o - c.lastKnownGlobalOffset) % Words) % k /\ y \in Nat
  <2>1. c.initialOffset \in Nat /\ c.lastKnownGlobalOffset \in Int /\ Words \in Nat \ {0}
    BY <1>2, ConsumerAssumption DEF ConsumerTokenTyped
  <2>2. c.initialOffset % k \in 0 .. k - 1
    BY <2>1, ModRange
  <2>3. k - 1 - (c.initialOffset % k) \in Nat
    BY <2>2
  <2>4. PICK w \in Int : w = o - c.lastKnownGlobalOffset
    BY <1>4, <2>1
  <2>5. w % Words \in Nat
    BY <2>1
  <2>6. (w % Words) % k \in Nat
    BY <2>5, ModRange
  <2> QED
    BY <2>3, <2>4, <2>6
<1>6. PICK first \in Listed : first = Advance(p, p, x)
  BY <1>5, AdvanceFacts
<1>7. PICK from \in Listed : from = IF c.desiredProducer = Nil THEN first ELSE c.desiredProducer
  BY <1>2 DEF ConsumerTokenTyped
<1>8. PICK desired \in Listed : desired = Advance(from, p, y)
  BY <1>5, AdvanceFacts
<1>9. PICK d : /\ d = [initialOffset |-> c.initialOffset, lastKnownGlobalOffset |-> o,
                       itemsConsumedFromCurrent |-> 0,
                       currentProducer |-> desired, desiredProducer |-> desired]
               /\ consumer' = [consumer EXCEPT ![t] = d]
  BY <1>1, <1>3, <1>4, <1>5, <1>6, <1>7, <1>8 DEF Update
<1>10. PICK g : /\ g = [pc |-> "current", max |-> f.max, bulk |-> f.bulk]
                /\ Go(t, g)
  BY <1>1 DEF Update
<1>11. /\ setup' = setup /\ size' = size /\ missed' = missed
       /\ globalExplicitConsumerOffset' = globalExplicitConsumerOffset
       /\ nextExplicitConsumerId' = nextExplicitConsumerId
  BY DEF Update, fixed, content
<1>12. Offsets'
  BY <1>11 DEF Offsets, ConsumersOK
<1>13. PICK m : m = missed[t] /\ m \in SUBSET Listed
  BY ConsumerFacts
<1>14. ConsumerTokenTyped(d) /\ d.currentProducer # Nil
  <2>1. desired # Nil /\ desired \in ProducerOrNil
    BY ListFacts DEF ProducerOrNil
  <2>2. ConsumerTokenTyped(d)
    BY <1>2, <1>4, <1>9, <2>1 DEF ConsumerTokenTyped
  <2> QED
    BY <1>9, <2>1, <2>2
<1>15. Consuming(g, d)
  BY <1>2, <1>10, <1>14 DEF Consuming, TokenPcs, AtCurrent
<1>16. Ahead(g, d, m)
  BY <1>10 DEF Ahead, DequeuePcs, TokenPcs
<1>17. Fine(g, d, m)
  BY <1>13, <1>14, <1>15, <1>16 DEF Fine
<1> QED
  BY <1>9, <1>10, <1>11, <1>12, <1>13, <1>17, SameContent, ActorFine

LEMMA DequeueCurrentFine ==
  ASSUME IInv, IInv', ConsumersOK, ListStays, NEW t \in Thread, DequeueCurrent(t),
         UNCHANGED rest
  PROVE  ConsumersOK'
<1>1. PICK f, c : f = call[t] /\ c = consumer[t] /\ f.pc = "current"
  BY DEF DequeueCurrent, At
<1>2. /\ ConsumerTokenTyped(c)
      /\ f \in [pc : {"check", "tail", "current"}, max : Nat \ {0}, bulk : BOOLEAN]
      /\ c.currentProducer # Nil
  BY <1>1, TokenFacts DEF TokenPcs, AtCurrent, Consuming
<1>3. PICK p \in Producer : p = c.currentProducer /\ p \in Listed
  BY <1>2, ListFacts DEF ConsumerTokenTyped
<1>4. PICK n : /\ n = Available(p, f.max) /\ n \in 0 .. f.max /\ n \in 0 .. size[p]
               /\ (n < f.max => n = size[p])
  <2>1. PICK x \in Nat : x = f.max
    BY <1>2
  <2> QED
    BY <2>1, AvailableFacts
<1>5. PICK items \in Nat : items = (c.itemsConsumedFromCurrent + n) % Words
  <2>1. PICK x \in Nat : x = c.itemsConsumedFromCurrent + n
    BY <1>2, <1>4 DEF ConsumerTokenTyped
  <2>2. x % Words \in Nat
    BY ModRange, ConsumerAssumption
  <2> QED
    BY <2>1, <2>2
<1>6. PICK turns \in BOOLEAN :
        turns = \/ f.bulk /\ items >= EXPLICIT_CONSUMER_CONSUMPTION_QUOTA_BEFORE_ROTATE
                \/ items = EXPLICIT_CONSUMER_CONSUMPTION_QUOTA_BEFORE_ROTATE
  OBVIOUS
<1>7. PICK left : left = f.max - n
  OBVIOUS
<1>8. PICK g : /\ g = IF n < f.max THEN [pc |-> "reset", max |-> left, count |-> n]
                      ELSE IF turns THEN [pc |-> "rotate"] ELSE NoCall
               /\ Take(t, p, n, g)
               /\ consumer' = [consumer EXCEPT ![t].itemsConsumedFromCurrent = items]
  BY <1>1, <1>3, <1>4, <1>5, <1>6, <1>7 DEF DequeueCurrent
<1>9. PICK d : /\ d = [c EXCEPT !.itemsConsumedFromCurrent = items]
               /\ consumer' = [consumer EXCEPT ![t] = d]
  BY <1>1, <1>8
<1>10. ConsumerTokenTyped(d) /\ d.currentProducer = p
  BY <1>2, <1>3, <1>9 DEF ConsumerTokenTyped
<1>11. PICK m : m = missed'[t]
  OBVIOUS
<1>12. /\ ContentKept(t) /\ Go(t, g) /\ m \subseteq missed[t]
       /\ (g = NoCall => m = {}) /\ (size[p] = n => p \notin m)
  BY <1>4, <1>8, <1>11, TakeFacts
<1>13. setup' = setup /\ Offsets'
  BY DEF DequeueCurrent, fixed, Offsets, ConsumersOK
<1>14. Fine(g, d, m)
  <2>1. m \subseteq Listed
    BY <1>12, ConsumerFacts
  <2>2. CASE n < f.max
    <3>1. g = [pc |-> "reset", max |-> left, count |-> n] /\ p \notin m
      BY <1>4, <1>8, <1>12, <2>2
    <3>2. left \in Nat \ {0} /\ n \in Nat
      BY <1>2, <1>4, <1>7, <2>2
    <3>3. Consuming(g, d)
      BY <1>2, <1>3, <1>10, <3>1, <3>2 DEF Consuming, TokenPcs, AtCurrent
    <3>4. Ahead(g, d, m)
      BY <1>10, <3>1 DEF Ahead, DequeuePcs, TokenPcs
    <3> QED
      BY <1>10, <2>1, <3>3, <3>4 DEF Fine
  <2>3. CASE ~(n < f.max) /\ turns
    <3>1. g = [pc |-> "rotate"]
      BY <1>8, <2>3
    <3>2. Consuming(g, d)
      BY <3>1 DEF Consuming, TokenPcs, AtCurrent
    <3>3. Ahead(g, d, m)
      BY <3>1 DEF Ahead, DequeuePcs, TokenPcs
    <3> QED
      BY <1>10, <2>1, <3>2, <3>3 DEF Fine
  <2>4. CASE ~(n < f.max) /\ ~turns
    <3>1. g = NoCall /\ m = {}
      BY <1>8, <1>12, <2>4
    <3> QED
      BY <1>10, <3>1, NothingMissed
  <2> QED
    BY <2>2, <2>3, <2>4
<1> QED
  BY <1>9, <1>11, <1>12, <1>13, <1>14, ActorFine

(* A call that is over.                                                    *)
LEMMA EndFine ==
  ASSUME IInv, IInv', ConsumersOK, ListStays, NEW t \in Thread, Go(t, NoCall),
         missed' = [missed EXCEPT ![t] = {}], size' = size, setup' = setup,
         consumer' = consumer, Offsets'
  PROVE  ConsumersOK'
<1>1. ContentKept(t) /\ missed'[t] = {}
  BY DEF ContentKept, ConsumersOK
<1>2. PICK c : c = consumer[t] /\ consumer' = [consumer EXCEPT ![t] = c]
  BY DEF ConsumersOK
<1>3. c = Nil \/ ConsumerTokenTyped(c)
  BY <1>2 DEF ConsumersOK, Fine
<1>4. Fine(NoCall, c, {})
  BY <1>3, NothingMissed
<1> QED
  BY <1>1, <1>2, <1>4, ActorFine

LEMMA EndsFine ==
  ASSUME IInv, IInv', ConsumersOK, ListStays, NEW t \in Thread, Rotate(t) \/ ReturnFalse(t),
         UNCHANGED rest
  PROVE  ConsumersOK'
<1>1. Words \in Nat \ {0} /\ Offsets
  BY ConsumerAssumption DEF ConsumersOK
<1>2. (globalExplicitConsumerOffset + 1) % Words \in 0 .. Words - 1
  BY <1>1, ModRange DEF Offsets
<1>3. CASE Rotate(t)
  <2>1. Offsets'
    BY <1>1, <1>2, <1>3 DEF Rotate, Offsets
  <2> QED
    BY <1>3, <2>1, EndFine DEF Rotate, fixed
<1>4. CASE ReturnFalse(t)
  <2>1. Offsets'
    BY <1>1, <1>4 DEF ReturnFalse, rotation, Offsets
  <2> QED
    BY <1>4, <2>1, EndFine DEF ReturnFalse, rotation, fixed
<1> QED
  BY <1>3, <1>4

(* One round of the list: from the one after the current producer, over    *)
(* the tail, back to it.                                                   *)
LEMMA ResetTailFine ==
  ASSUME IInv, IInv', ListCounted, ConsumersOK, ListStays, NEW t \in Thread, ResetTail(t),
         UNCHANGED rest
  PROVE  ConsumersOK'
<1>1. PICK f, c : f = call[t] /\ c = consumer[t] /\ f.pc = "reset"
  BY DEF ResetTail, At
<1>2. /\ ConsumerTokenTyped(c) /\ f \in [pc : {"reset"}, max : Nat \ {0}, count : Nat]
      /\ c.currentProducer # Nil /\ c.currentProducer \notin missed[t]
  BY <1>1, TokenFacts DEF TokenPcs, AtCurrent, Consuming, Ahead
<1>3. PICK p \in Listed : p = c.currentProducer
  BY <1>2 DEF ConsumerTokenTyped
<1>4. PICK tail \in Listed : tail = producerListTail
  BY ListFacts
<1>5. PICK q \in Listed : q = After(p, tail)
  BY AfterFacts
<1>6. PICK g : /\ g = [pc |-> "turn", max |-> f.max, count |-> f.count, tail |-> tail,
                       ptr |-> q]
               /\ Go(t, Around(g, p))
               /\ missed' = IF Around(g, p) = NoCall THEN [missed EXCEPT ![t] = {}] ELSE missed
  BY <1>1, <1>3, <1>4, <1>5 DEF ResetTail
<1>7. setup' = setup /\ UNCHANGED rotation /\ size' = size
  BY DEF ResetTail, fixed
<1>8. PICK m : m = missed'[t]
  OBVIOUS
<1>9. /\ ContentKept(t) /\ m \subseteq missed[t] /\ (Around(g, p) = NoCall => m = {})
  <2>1. CASE Around(g, p) = NoCall
    BY <1>6, <1>7, <1>8, <2>1 DEF ContentKept, ConsumersOK
  <2>2. CASE Around(g, p) # NoCall
    BY <1>6, <1>7, <1>8, <2>2 DEF ContentKept, ConsumersOK
  <2> QED
    BY <2>1, <2>2
<1>10. m \in SUBSET Listed /\ p \notin m
  BY <1>2, <1>3, <1>9, ConsumerFacts
<1>11. Listed = From(tail)
  BY <1>4 DEF Listed
<1>12. /\ p \in From(tail)
       /\ IF p \in From(q) THEN m \subseteq From(q) \ From(p)
          ELSE m \subseteq From(q) \cup (From(tail) \ From(p))
  <2>1. From(p) = {p} \cup From(next[p]) /\ From(Nil) = {} /\ p \notin From(next[p])
    BY FromFacts, ListFacts DEF ListCounted, NoCycle
  <2>2. CASE next[p] = Nil
    <3>1. q = tail /\ From(p) = {p}
      BY <1>5, <2>1, <2>2 DEF After
    <3> QED
      BY <1>10, <1>11, <3>1
  <2>3. CASE next[p] # Nil
    <3>1. q = next[p]
      BY <1>5, <2>3 DEF After
    <3> QED
      BY <1>10, <1>11, <2>1, <3>1
  <2> QED
    BY <2>2, <2>3
<1>13. f.max \in Nat \ {0} /\ f.count \in Nat
  BY <1>2
<1>14. Fine(Around(g, p), consumer[t], m)
  BY <1>1, <1>2, <1>3, <1>6, <1>9, <1>10, <1>12, <1>13, AroundFine
<1> QED
  BY <1>6, <1>7, <1>8, <1>9, <1>14, CallerFine

LEMMA DequeueTurnFine ==
  ASSUME IInv, IInv', ListCounted, ConsumersOK, ListStays, NEW t \in Thread, DequeueTurn(t),
         UNCHANGED rest
  PROVE  ConsumersOK'
<1>1. PICK f, c : f = call[t] /\ c = consumer[t] /\ f.pc = "turn"
  BY DEF DequeueTurn, At
<1>2. /\ ConsumerTokenTyped(c)
      /\ f \in [pc : {"turn"}, max : Nat \ {0}, count : Nat, tail : Listed, ptr : Listed]
      /\ c.currentProducer # Nil
      /\ f.count = 0 =>
           /\ f.ptr # c.currentProducer /\ c.currentProducer \in From(f.tail)
           /\ IF c.currentProducer \in From(f.ptr)
              THEN missed[t] \subseteq From(f.ptr) \ From(c.currentProducer)
              ELSE missed[t] \subseteq
                     From(f.ptr) \cup (From(f.tail) \ From(c.currentProducer))
  BY <1>1, TokenFacts DEF TokenPcs, AtCurrent, Consuming, Ahead
<1>3. PICK p \in Producer, tail \in Listed, cur \in Listed :
        p = f.ptr /\ p \in Listed /\ tail = f.tail /\ cur = c.currentProducer
  BY <1>2, ListFacts DEF ConsumerTokenTyped
<1>4. PICK n : /\ n = Available(p, f.max) /\ n \in 0 .. f.max /\ n \in 0 .. size[p]
               /\ (n < f.max => n = size[p])
  <2>1. PICK x \in Nat : x = f.max
    BY <1>2
  <2> QED
    BY <2>1, AvailableFacts
<1>5. PICK d : /\ d = IF n = 0 THEN c ELSE [c EXCEPT !.currentProducer = p,
                                                     !.itemsConsumedFromCurrent = n]
               /\ consumer' = [consumer EXCEPT ![t] = d]
  BY <1>1, <1>3, <1>4 DEF DequeueTurn
<1>6. PICK at \in Listed : at = IF n = 0 THEN cur ELSE p
  BY <1>3
<1>7. ConsumerTokenTyped(d) /\ d.currentProducer = at
  <2>1. CASE n = 0
    BY <1>2, <1>3, <1>5, <1>6, <2>1
  <2>2. CASE n # 0
    <3> DEFINE h == [c EXCEPT !.currentProducer = p, !.itemsConsumedFromCurrent = n]
    <3>1. /\ c \in [initialOffset : 0 .. Words - 1, lastKnownGlobalOffset : 0 .. Words - 1,
                    itemsConsumedFromCurrent : Nat, currentProducer : ProducerOrNil,
                    desiredProducer : ProducerOrNil]
          /\ c.desiredProducer \in Listed \cup {Nil}
          /\ c.currentProducer = Nil <=> c.desiredProducer = Nil
      BY <1>2 DEF ConsumerTokenTyped
    <3>2. n \in Nat /\ p \in ProducerOrNil /\ p # Nil
      BY <1>3, <1>4, ListFacts DEF ProducerOrNil
    <3>3. /\ h \in [initialOffset : 0 .. Words - 1, lastKnownGlobalOffset : 0 .. Words - 1,
                    itemsConsumedFromCurrent : Nat, currentProducer : ProducerOrNil,
                    desiredProducer : ProducerOrNil]
          /\ h.currentProducer = p /\ h.desiredProducer = c.desiredProducer
      BY <3>1, <3>2
    <3> HIDE DEF h
    <3>4. ConsumerTokenTyped(h)
      BY <1>2, <1>3, <3>1, <3>2, <3>3 DEF ConsumerTokenTyped
    <3> QED
      BY <1>5, <1>6, <2>2, <3>3, <3>4 DEF h
  <2> QED
    BY <2>1, <2>2
<1>8. PICK q \in Listed : q = After(p, tail)
  BY <1>3, AfterFacts
<1>9. PICK left, k : left = f.max - n /\ k = f.count + n /\ left \in Nat /\ k \in Nat
                     /\ (n # f.max => left \in Nat \ {0})
  BY <1>2, <1>4
<1>10. PICK g : g = [pc |-> "turn", max |-> left, count |-> k, tail |-> tail, ptr |-> q]
  OBVIOUS
<1>11. [f EXCEPT !.max = left, !.count = k, !.ptr = q] = g
  <2> DEFINE h == [f EXCEPT !.max = left, !.count = k, !.ptr = q]
  <2>1. f \in [pc : {"turn"}, max : Nat, count : Nat, tail : Listed, ptr : Listed]
    BY <1>2
  <2>2. h \in [pc : {"turn"}, max : Nat, count : Nat, tail : Listed, ptr : Listed]
    BY <1>9, <2>1
  <2>3. h.pc = "turn" /\ h.max = left /\ h.count = k /\ h.tail = tail /\ h.ptr = q
    BY <1>3, <2>1
  <2> HIDE DEF h
  <2>4. h = [pc |-> "turn", max |-> left, count |-> k, tail |-> tail, ptr |-> q]
    BY <2>2, <2>3
  <2> QED
    BY <1>10, <2>4 DEF h
<1>12. PICK e : /\ e = IF n = f.max THEN NoCall ELSE Around(g, d.currentProducer)
                /\ Take(t, p, n, e)
  <2>1. Take(t, p, n, IF n = f.max THEN NoCall
                      ELSE Around([f EXCEPT !.max = @ - n, !.count = @ + n,
                                            !.ptr = After(f.ptr, f.tail)], d.currentProducer))
    BY <1>1, <1>3, <1>4, <1>5 DEF DequeueTurn
  <2>2. [f EXCEPT !.max = @ - n, !.count = @ + n, !.ptr = After(f.ptr, f.tail)] = g
    BY <1>3, <1>8, <1>9, <1>11
  <2> QED
    BY <2>1, <2>2
<1>13. PICK m : m = missed'[t]
  OBVIOUS
<1>14. /\ ContentKept(t) /\ Go(t, e) /\ m \subseteq missed[t]
       /\ (e = NoCall => m = {}) /\ (size[p] = n => p \notin m)
  BY <1>4, <1>12, <1>13, TakeFacts
<1>15. setup' = setup /\ Offsets'
  BY DEF DequeueTurn, fixed, Offsets, ConsumersOK
<1>16. Fine(e, d, m)
  <2>1. CASE n = f.max
    BY <1>7, <1>12, <1>14, <2>1, NothingMissed
  <2>2. CASE n # f.max
    <3>1. e = Around(g, d.currentProducer) /\ left \in Nat \ {0}
      BY <1>9, <1>12, <2>2
    <3>2. m \in SUBSET Listed
      BY <1>14, ConsumerFacts
    <3>3. ASSUME k = 0
          PROVE  /\ at \in From(tail)
                 /\ IF at \in From(q) THEN m \subseteq From(q) \ From(at)
                    ELSE m \subseteq From(q) \cup (From(tail) \ From(at))
      <4>1. f.count = 0 /\ n = 0 /\ at = cur
        BY <1>2, <1>4, <1>6, <1>9, <3>3
      <4>2. p \notin m
        BY <1>2, <1>4, <1>14, <2>2, <4>1
      <4>3. /\ p # cur /\ cur \in From(tail)
            /\ IF cur \in From(p) THEN m \subseteq From(p) \ From(cur)
               ELSE m \subseteq From(p) \cup (From(tail) \ From(cur))
        BY <1>2, <1>3, <1>14, <4>1
      <4>4. From(p) = {p} \cup From(next[p]) /\ From(Nil) = {}
        BY FromFacts, ListFacts
      <4>5. CASE next[p] = Nil
        <5>1. q = tail /\ From(p) = {p}
          BY <1>8, <4>4, <4>5 DEF After
        <5> QED
          BY <4>1, <4>2, <4>3, <5>1
      <4>6. CASE next[p] # Nil
        <5>1. q = next[p]
          BY <1>8, <4>6 DEF After
        <5> QED
          BY <4>1, <4>2, <4>3, <4>4, <5>1
      <4> QED
        BY <4>5, <4>6
    <3> QED
      BY <1>7, <1>9, <1>10, <1>14, <3>1, <3>2, <3>3, AroundFine
  <2> QED
    BY <2>1, <2>2
<1> QED
  BY <1>5, <1>13, <1>14, <1>15, <1>16, ActorFine

(* A step that is no consumer's: elements may come, none go.               *)
Plain(f) == f = NoCall \/ f.pc \notin DequeuePcs \cup {"idle", "false"}

LEMMA QuietsFine ==
  ASSUME IInv, IInv', ConsumersOK, ListStays, UNCHANGED <<setup, missed, rotation>>,
         size' \in [Producer -> Sizes], \A p \in Producer : size'[p] >= size[p],
         \/ UNCHANGED call
         \/ \E t \in Thread : \E f : Go(t, f) /\ call[t].pc \notin DequeuePcs /\ Plain(f)
  PROVE  ConsumersOK'
<1>1. /\ missed' \in [Thread -> SUBSET Producer] /\ Offsets'
      /\ DOMAIN consumer' = Thread /\ consumer' = [t \in Thread |-> consumer'[t]]
  BY DEF ConsumersOK, rotation, Offsets
<1>2. \A t \in Thread : \A p \in missed'[t] : size'[p] > 0
  <2> SUFFICES ASSUME NEW t \in Thread, NEW p \in missed'[t] PROVE size'[p] > 0
    OBVIOUS
  <2>1. p \in missed[t]
    OBVIOUS
  <2>2. p \in Producer /\ size[p] > 0 /\ size[p] \in Nat
    BY <2>1, ConsumerFacts
  <2>3. size'[p] \in Nat /\ size'[p] >= size[p]
    BY <2>2, ConsumerFacts
  <2> QED
    BY <2>2, <2>3
<1>3. ASSUME NEW t \in Thread
      PROVE  \/ /\ call'[t] = call[t] /\ consumer'[t] = consumer[t]
                /\ missed'[t] \subseteq missed[t]
             \/ \E f, c, m : /\ call'[t] = f /\ consumer'[t] = c /\ missed'[t] = m
                             /\ Fine(f, c, m)
  <2>1. consumer'[t] = consumer[t] /\ missed'[t] = missed[t]
    BY DEF rotation
  <2>2. CASE call'[t] = call[t]
    BY <2>1, <2>2
  <2>3. CASE call'[t] # call[t]
    <3>1. PICK f : Go(t, f) /\ call[t].pc \notin DequeuePcs /\ Plain(f)
      BY <2>3, Moves DEF IInv
    <3>2. call'[t] = f
      BY <3>1, Moves DEF IInv
    <3>3. missed[t] = {} /\ (consumer[t] = Nil \/ ConsumerTokenTyped(consumer[t]))
      BY <3>1 DEF ConsumersOK, Fine, Ahead
    <3>4. Fine(f, consumer[t], {})
      BY <3>1, <3>3, NothingMissed DEF Plain
    <3> QED
      BY <2>1, <3>2, <3>3, <3>4
  <2> QED
    BY <2>2, <2>3
<1> QED
  BY <1>1, <1>2, <1>3, ConsumersKept

LEMMA SameSize ==
  ASSUME IInv, ConsumersOK, size' = size
  PROVE  size' \in [Producer -> Sizes] /\ \A p \in Producer : size'[p] >= size[p]
<1>1. \A p \in Producer : size[p] \in Nat
  BY ConsumerFacts
<1> QED
  BY <1>1 DEF ConsumersOK

LEMMA PutFacts ==
  ASSUME IInv, ConsumersOK, NEW p \in Producer, NEW n \in setup.bulk, Put(p, n)
  PROVE  size' \in [Producer -> Sizes] /\ \A q \in Producer : size'[q] >= size[q]
<1>1. n \in Nat /\ setup.room \in Nat /\ size[p] \in Nat /\ \A q \in Producer : size[q] \in Nat
  BY ConsumerFacts, ProducerListAssumption DEF IInv, Typed, VarsTyped
<1>2. PICK k : k = (IF size[p] + n <= setup.room THEN size[p] + n ELSE size[p])
               /\ size' = [size EXCEPT ![p] = k]
  BY DEF Put
<1>3. k \in Sizes /\ k >= size[p]
  BY <1>1, <1>2, ConsumerFacts DEF Sizes
<1> QED
  BY <1>1, <1>2, <1>3 DEF ConsumersOK

LEMMA OtherStepsFine ==
  ASSUME IInv, IInv', ConsumersOK, ListStays, NEW t \in Thread,
         \/ ListStep(t) /\ UNCHANGED <<setup, hashes, content, rotation, rest>>
         \/ HashStep(t) /\ UNCHANGED <<setup, content, rotation, rest>>
         \/ TokenStep(t)
  PROVE  ConsumersOK'
<1> DEFINE c == call[t]
<1>0. Typed
  BY DEF IInv
<1>1. CASE ListStep(t) /\ UNCHANGED <<setup, hashes, content, rotation, rest>>
  <2>1. /\ c.pc \in ListPcs
        /\ \/ UNCHANGED call
           \/ \E f : Go(t, f) /\ f.pc \in ListPcs \cup {"register", "new"}
    BY <1>0, <1>1, ListStepFrame
  <2>2. c.pc \notin DequeuePcs
    BY <2>1 DEF ListPcs, AddPcs, DequeuePcs, TokenPcs
  <2>3. \A f : f.pc \in ListPcs \cup {"register", "new"} => Plain(f)
    BY DEF Plain, ListPcs, AddPcs, DequeuePcs, TokenPcs
  <2>4. UNCHANGED <<setup, missed, size, rotation>>
    BY <1>1 DEF content
  <2> QED
    BY <2>1, <2>2, <2>3, <2>4, SameSize, QuietsFine
<1>2. CASE HashStep(t) /\ UNCHANGED <<setup, content, rotation, rest>>
  <2>1. PICK f : Go(t, f) /\ HashMove(t, f)
    BY <1>2, HashMoves
  <2>2. c.pc \notin DequeuePcs /\ Plain(f)
    BY <2>1 DEF HashMove, Plain, DequeuePcs, TokenPcs
  <2>3. UNCHANGED <<setup, missed, size, rotation>>
    BY <1>2 DEF content
  <2> QED
    BY <2>1, <2>2, <2>3, SameSize, QuietsFine
<1>3. CASE TokenStep(t)
  <2>1. CASE Enqueue(t)
    <3> DEFINE f == [pc |-> "probe", main |-> Newest, table |-> Newest,
                     index |-> HashOf[t] % capacity(Newest)]
    <3>1. /\ c.pc = "idle" /\ Go(t, f) /\ f.pc = "probe"
          /\ UNCHANGED <<setup, missed, size, rotation>>
      BY <2>1 DEF Enqueue, At, GetOrAdd, fixed, content
    <3> HIDE DEF f
    <3>2. c.pc \notin DequeuePcs /\ Plain(f)
      BY <3>1 DEF Plain, DequeuePcs, TokenPcs
    <3> QED
      BY <3>1, <3>2, SameSize, QuietsFine
  <2>2. ASSUME NEW k \in Token, CreateToken(t, k) PROVE ConsumersOK'
    <3> DEFINE f == [pc |-> "scan", ptr |-> producerListTail, explicit |-> TRUE,
                     back |-> [pc |-> "register", token |-> k]]
    <3>1. /\ c.pc = "idle" /\ Go(t, f) /\ f.pc = "scan"
          /\ UNCHANGED <<setup, missed, size, rotation>>
      BY <2>2 DEF CreateToken, RecycleOrCreate, Owns, At, fixed, content
    <3> HIDE DEF f
    <3>2. c.pc \notin DequeuePcs /\ Plain(f)
      BY <3>1 DEF Plain, DequeuePcs, TokenPcs
    <3> QED
      BY <3>1, <3>2, SameSize, QuietsFine
  <2>3. ASSUME NEW k \in Token, DestroyToken(t, k) PROVE ConsumersOK'
    <3> DEFINE f == [pc |-> "deactivate", producer |-> tokenProducer[k]]
    <3>1. /\ c.pc = "idle" /\ Go(t, f) /\ f.pc = "deactivate"
          /\ UNCHANGED <<setup, missed, size, rotation>>
      BY <2>3 DEF DestroyToken, Owns, At, content
    <3> HIDE DEF f
    <3>2. c.pc \notin DequeuePcs /\ Plain(f)
      BY <3>1 DEF Plain, DequeuePcs, TokenPcs
    <3> QED
      BY <3>1, <3>2, SameSize, QuietsFine
  <2>4. ASSUME NEW k \in Token, NEW j \in Token, SwapTokens(t, k, j) PROVE ConsumersOK'
    <3>1. UNCHANGED <<setup, missed, size, rotation>> /\ UNCHANGED call
      BY <2>4 DEF SwapTokens, content
    <3> QED
      BY <3>1, SameSize, QuietsFine
  <2>5. ASSUME c.pc \in {"got", "register", "deactivate"} PROVE c.pc \notin DequeuePcs
    BY <2>5 DEF DequeuePcs, TokenPcs
  <2>6. Plain(NoCall)
    BY DEF Plain
  <2>7. CASE Register(t) \/ Deactivate(t)
    <3>1. /\ c.pc \in {"register", "deactivate"} /\ Go(t, NoCall)
          /\ UNCHANGED <<setup, missed, size, rotation>>
      BY <2>7 DEF Register, Deactivate, At, content
    <3> QED
      BY <2>5, <2>6, <3>1, SameSize, QuietsFine
  <2>8. CASE EnqueueImplicit(t)
    <3>1. c.pc = "got" /\ Go(t, NoCall) /\ UNCHANGED <<setup, missed, rotation>>
      BY <2>8 DEF EnqueueImplicit, At, fixed
    <3>2. c.producer \in ProducerOrNil
      BY <1>0, <3>1, FrameShapes DEF Typed
    <3>3. size' \in [Producer -> Sizes] /\ \A q \in Producer : size'[q] >= size[q]
      <4>1. CASE c.producer = Nil
        BY <2>8, <4>1, SameSize DEF EnqueueImplicit
      <4>2. CASE c.producer # Nil
        <5>1. PICK p \in Producer : p = c.producer
          BY <3>2, <4>2 DEF ProducerOrNil
        <5>2. PICK n \in setup.bulk : Put(p, n)
          BY <2>8, <4>2, <5>1 DEF EnqueueImplicit
        <5> QED
          BY <5>2, PutFacts
      <4> QED
        BY <4>1, <4>2
    <3> QED
      BY <2>5, <2>6, <3>1, <3>3, QuietsFine
  <2> QED
    BY <1>3, <2>1, <2>2, <2>3, <2>4, <2>7, <2>8 DEF TokenStep
<1> QED
  BY <1>1, <1>2, <1>3

LEMMA TokenCallsFine ==
  ASSUME IInv, IInv', ConsumersOK, ListStays, NEW t \in Thread, NEW k \in Token,
         NEW n \in setup.bulk, EnqueueToken(t, k, n) \/ TryDequeueFromProducer(t, k, n)
  PROVE  ConsumersOK'
<1>1. PICK p \in Producer : p = tokenProducer[k]
  BY DEF EnqueueToken, TryDequeueFromProducer, Valid, IInv, Typed, VarsTyped, ProducerOrNil
<1>2. n \in Nat
  BY ProducerListAssumption DEF IInv, Typed, VarsTyped
<1>3. CASE EnqueueToken(t, k, n)
  <2>1. Put(p, n) /\ UNCHANGED call /\ UNCHANGED <<setup, missed, rotation>>
    BY <1>1, <1>3 DEF EnqueueToken, fixed
  <2> QED
    BY <2>1, PutFacts, QuietsFine
<1>4. CASE TryDequeueFromProducer(t, k, n)
  <2>1. PICK a : a = Available(p, n) /\ a \in 0 .. size[p]
    BY <1>2, AvailableFacts
  <2>2. Take(t, p, a, NoCall) /\ setup' = setup /\ UNCHANGED rotation
    BY <1>1, <1>4, <2>1 DEF TryDequeueFromProducer, fixed
  <2>3. ContentKept(t) /\ Go(t, NoCall) /\ missed'[t] = {}
    BY <2>1, <2>2, TakeFacts
  <2>4. Fine(NoCall, consumer[t], {})
    <3>1. consumer[t] = Nil \/ ConsumerTokenTyped(consumer[t])
      BY DEF ConsumersOK, Fine
    <3> QED
      BY <3>1, NothingMissed
  <2> QED
    BY <2>2, <2>3, <2>4, CallerFine
<1> QED
  BY <1>3, <1>4

LEMMA DestroyFine ==
  ASSUME IInv, IInv', ConsumersOK, ListStays, Destroy
  PROVE  ConsumersOK'
<1>1. /\ Idle /\ call' = call /\ missed' = missed /\ setup' = setup /\ UNCHANGED rotation
      /\ size' = [p \in Producer |-> IF p \in Listed THEN 0 ELSE size[p]]
  BY DEF Destroy
<1>2. \A t \in Thread : missed[t] = {}
  BY <1>1 DEF Idle, At, ConsumersOK, Fine, Ahead, DequeuePcs, TokenPcs
<1>3. size' \in [Producer -> Sizes]
  BY <1>1, ConsumerFacts DEF Sizes, ConsumersOK
<1>4. /\ missed' \in [Thread -> SUBSET Producer] /\ Offsets'
      /\ DOMAIN consumer' = Thread /\ consumer' = [t \in Thread |-> consumer'[t]]
  BY <1>1 DEF ConsumersOK, rotation, Offsets
<1>5. \A t \in Thread : /\ call'[t] = call[t] /\ consumer'[t] = consumer[t]
                        /\ missed'[t] \subseteq missed[t] /\ missed'[t] = {}
  BY <1>1, <1>2 DEF rotation
<1> QED
  BY <1>1, <1>3, <1>4, <1>5, ConsumersKept

LEMMA NextConsumers ==
  IInv /\ IInv' /\ ListCounted /\ ConsumersOK /\ [Next]_vars => ConsumersOK'
<1> SUFFICES ASSUME IInv, IInv', ListCounted, ConsumersOK, [Next]_vars PROVE ConsumersOK'
  OBVIOUS
<1>1. ListStays
  BY NextKeepsList
<1>2. CASE UNCHANGED vars
  BY <1>1, <1>2, SameSize, QuietsFine DEF vars, fixed, content
<1>3. CASE Destroy
  BY <1>1, <1>3, DestroyFine
<1>4. ASSUME NEW t \in Thread, Call(t) PROVE ConsumersOK'
  <2>1. CASE (Dequeue(t) \/ DequeueWithToken(t) \/ CreateConsumer(t)) /\ UNCHANGED rest
    BY <1>1, <2>1, DequeueFine, DequeueWithTokenFine, CreateConsumerFine
  <2>2. CASE Enqueue(t)
    BY <1>1, <1>4, <2>2, OtherStepsFine DEF Call, TokenStep
  <2>3. CASE UseToken(t)
    <3>1. PICK k \in Token :
            \/ CreateToken(t, k) \/ DestroyToken(t, k)
            \/ \E n \in setup.bulk : EnqueueToken(t, k, n) \/ TryDequeueFromProducer(t, k, n)
            \/ \E j \in Token : SwapTokens(t, k, j)
      BY <2>3 DEF UseToken
    <3>2. CASE \E n \in setup.bulk : EnqueueToken(t, k, n) \/ TryDequeueFromProducer(t, k, n)
      BY <1>1, <3>2, TokenCallsFine
    <3>3. CASE CreateToken(t, k) \/ DestroyToken(t, k) \/ \E j \in Token : SwapTokens(t, k, j)
      <4>1. TokenStep(t)
        BY <1>4, <3>3 DEF Call, TokenStep
      <4> QED
        BY <1>1, <4>1, OtherStepsFine
    <3> QED
      BY <3>1, <3>2, <3>3
  <2> QED
    BY <1>4, <2>1, <2>2, <2>3 DEF Call
<1>5. ASSUME NEW t \in Thread, Step(t) PROVE ConsumersOK'
  <2>1. CASE DequeueStep(t) /\ UNCHANGED rest
    BY <1>1, <2>1, ScoreFine, DequeueBestFine, ReloadFine, DequeueRestFine, CheckOffsetFine,
       LoadListFine, UpdateFine, DequeueCurrentFine, EndsFine, ResetTailFine, DequeueTurnFine
       DEF DequeueStep
  <2>2. CASE ~(DequeueStep(t) /\ UNCHANGED rest)
    BY <1>1, <1>5, <2>2, OtherStepsFine DEF Step, TokenStep
  <2> QED
    BY <2>1, <2>2
<1> QED
  BY <1>2, <1>3, <1>4, <1>5 DEF Next

LEMMA ConsumersInit == Init => ConsumersOK
<1> SUFFICES ASSUME Init PROVE ConsumersOK
  OBVIOUS
<1>1. /\ setup \in Setups /\ call = [t \in Thread |-> NoCall]
      /\ missed = [t \in Thread |-> {}] /\ consumer = [t \in Thread |-> Nil]
      /\ globalExplicitConsumerOffset = 0 /\ nextExplicitConsumerId = 0
  BY DEF Init, InitList, InitConsumers
<1>2. PICK f \in [Producer -> 0 .. setup.room] :
        size = [p \in Producer |-> IF p \in Listed THEN f[p] ELSE 0]
  BY DEF Init, InitConsumers
<1>3. size \in [Producer -> Sizes]
  <2>1. setup.room \in Nat
    BY <1>1, ProducerListAssumption
  <2> QED
    BY <1>2, <2>1 DEF Sizes
<1>4. Offsets
  BY <1>1, ConsumerAssumption DEF Offsets
<1>5. Fine(NoCall, Nil, {})
  BY NothingMissed
<1> QED
  BY <1>1, <1>3, <1>4, <1>5 DEF ConsumersOK

(* A consumer only meets producers of the list, the number that it goes by *)
(* covers what it has seen of it, and while it has found nothing, every    *)
(* sub-queue that has had elements all along is still ahead of it          *)
(* (try_dequeue, try_dequeue_bulk, update_current_producer_after_rotation, *)
(* in any interleaving).                                                   *)
THEOREM ConsumersSound == Spec => []ConsumersOK
<1>1. Init => ConsumersOK
  BY ConsumersInit
<1>2. IInv /\ IInv' /\ ListCounted /\ ConsumersOK /\ [Next]_vars => ConsumersOK'
  BY NextConsumers
<1> QED
  BY <1>1, <1>2, QueueSound, ListIsCounted, PTL DEF Spec

(* A call that returns false saw each sub-queue empty at some time: none   *)
(* had elements during the whole call (1027 of concurrentqueue.h).         *)
THEOREM FalseIsRight == Spec => []FalseMeansEmpty
<1>1. ConsumersOK => FalseMeansEmpty
  BY DEF ConsumersOK, Fine, Ahead, FalseMeansEmpty, At, DequeuePcs, TokenPcs
<1> QED
  BY <1>1, ConsumersSound, PTL

-----------------------------------------------------------------------------
(* What the threads share.                                                 *)
LEMMA BackOfFrame ==
  ASSUME NEW f, NEW c, FrameOK(f), Consuming(f, c)
  PROVE  "back" \in DOMAIN f <=> f.pc \in ListPcs \cup {"register", "new"}
<1>1. CASE f.pc \in QuietPcs
  <2>1. "back" \notin DOMAIN f
    BY <1>1 DEF Consuming, QuietPcs, TokenPcs, AtCurrent
  <2> QED
    BY <1>1, <2>1 DEF QuietPcs, ListPcs, AddPcs
<1>2. CASE f.pc \in ListPcs \cup {"register", "new"}
  BY <1>2, FrameShapes
<1>3. CASE f.pc \notin QuietPcs \cup ListPcs \cup {"register", "new"}
  BY <1>3 DEF FrameOK, ResizePcs, ListPcs, AddPcs, QuietPcs
<1> QED
  BY <1>1, <1>2, <1>3

LEMMA ProducerOfKey ==
  ASSUME IInv, NEW t \in Thread
  PROVE  ProducersOf(t) # {} <=>
           \/ \E k \in 1 .. Newest : HasKey(t, k)
           \/ call[t].pc = "insert"
<1>0. TablesOK /\ Searched(t, call[t]) /\ FrameOK(call[t]) /\ Nil \notin Producer
  BY ProducerListAssumption DEF IInv, HashOK, Typed
<1>1. ASSUME ProducersOf(t) # {}
      PROVE  (\E k \in 1 .. Newest : HasKey(t, k)) \/ call[t].pc = "insert"
  <2>1. PICK p : p \in ProducersOf(t)
    BY <1>1
  <2>2. CASE p \in {e.value : e \in {x \in Entries : x.key = t}}
    <3>1. PICK e \in Entries : e.key = t
      BY <2>2
    <3>2. PICK k \in 1 .. Newest : \E i \in DOMAIN implicitProducerHash[k] :
                                     implicitProducerHash[k][i].key = t
      BY <3>1 DEF Entries
    <3>3. HasKey(t, k)
      BY <1>0, <3>2, TableFacts DEF HasKey, Key
    <3> QED
      BY <3>3
  <2>3. CASE call[t].pc \in {"got", "insert"} /\ p = call[t].producer /\ p # Nil
    BY <1>0, <2>3 DEF Searched
  <2> QED
    BY <2>1, <2>2, <2>3 DEF ProducersOf
<1>2. ASSUME NEW k \in 1 .. Newest, HasKey(t, k) PROVE ProducersOf(t) # {}
  <2>1. PICK i \in DOMAIN implicitProducerHash[k] : implicitProducerHash[k][i].key = t
    BY <1>0, <1>2, TableFacts DEF HasKey, Key
  <2>2. PICK e : e = implicitProducerHash[k][i] /\ e \in Entries /\ e.key = t
    BY <2>1 DEF Entries
  <2>3. e.value \in ProducersOf(t)
    BY <2>2 DEF ProducersOf
  <2> QED
    BY <2>3
<1>3. ASSUME call[t].pc = "insert" PROVE ProducersOf(t) # {}
  <2>1. call[t].producer \in Producer
    BY <1>0, <1>3, FrameShapes
  <2>2. call[t].producer \in ProducersOf(t)
    BY <1>0, <1>3, <2>1 DEF ProducersOf
  <2> QED
    BY <2>2
<1> QED
  BY <1>1, <1>2, <1>3

LEMMA CountFacts ==
  ASSUME IInv, IdsCounted, ConsumersOK
  PROVE  CountIsExact
<1>1. ASSUME NEW t \in Thread PROVE t \in Counted <=> Enrolled(t, call[t])
  <2>1. /\ FrameOK(call[t]) /\ Consuming(call[t], consumer[t])
    BY DEF IInv, Typed, ConsumersOK, Fine
  <2>2. "back" \in DOMAIN call[t] <=> call[t].pc \in ListPcs \cup {"register", "new"}
    BY <2>1, BackOfFrame
  <2>3. call[t].pc \in {"register", "new"} => call[t].pc = call[t].back.pc
    BY <2>1, FrameShapes
  <2>4. t \in Counted <=> \/ ProducersOf(t) # {}
                          \/ call[t].pc \in ResizePcs \cup {"new"}
                          \/ "back" \in DOMAIN call[t] /\ call[t].back.pc = "new"
    BY DEF Counted, ResizePcs
  <2> QED
    BY <2>2, <2>3, <2>4, ProducerOfKey DEF Enrolled, ResizePcs
<1>2. Counted = Enrollment
  BY <1>1 DEF Counted, Enrollment
<1> QED
  BY <1>2 DEF IdsCounted, CountIsExact

LEMMA TypeFacts ==
  ASSUME IInv, IdsCounted, ListCounted, ConsumersOK
  PROVE  TypeOK
<1>1. producerCount \in 0 .. Cardinality(Producer)
  <2>1. PICK S : S = Reckoned /\ S \subseteq Producer
    BY DEF Reckoned
  <2>2. Cardinality(S) \in Nat /\ Cardinality(S) <= Cardinality(Producer)
        /\ Cardinality(Producer) \in Nat
    BY <2>1, ProducerListAssumption, FS_Subset, FS_CardinalityType
  <2> QED
    BY <2>1, <2>2 DEF ListCounted
<1>2. unborn \subseteq Producer
  BY ProducerListAssumption DEF IInv, Typed, VarsTyped
<1>3. \A k \in 1 .. Newest : implicitProducerHash[k] \in [0 .. capacity(k) - 1 -> Entry]
  BY DEF IInv, HashOK, TablesOK, Slots
<1>4. \A t \in Thread : consumer[t] = Nil \/ consumer[t].currentProducer \in ProducerOrNil
  BY DEF ConsumersOK, Fine, ConsumerTokenTyped
<1>5. size \in [Producer -> 0 .. setup.room] /\ globalExplicitConsumerOffset \in 0 .. Words - 1
  BY DEF ConsumersOK, Sizes, Offsets
<1> QED
  BY <1>1, <1>2, <1>3, <1>4, <1>5 DEF TypeOK, IInv, Typed, VarsTyped, IdsCounted

(* What the threads share stays sound, whatever the interleaving: no       *)
(* producer is lost, the tables of thread ids keep their room and their    *)
(* count, and a consumer's number of producers covers the list it saw.     *)
THEOREM QueueIsSound == Spec => []QueueInv
<1>1. IInv /\ TablesGrow /\ ListCounted /\ ConsumersOK => TypeOK /\ CountIsExact
  BY TypeFacts, CountFacts DEF TablesGrow
<1>2. ConsumersOK => CountCoversList
  BY DEF ConsumersOK, Fine, Consuming, CountCoversList, At
<1>3. TypeOK /\ NoProducerLost /\ CountIsExact /\ RoomToInsert /\ CountCoversList => QueueInv
  BY DEF QueueInv
<1> QED
  BY <1>1, <1>2, <1>3, QueueSound, TablesGrowRight, TablesKeepRoom, ListIsCounted, ListIsComplete,
     ConsumersSound, PTL
=============================================================================
