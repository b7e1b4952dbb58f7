------------------------ MODULE ImplicitProducerHash ------------------------
(***************************************************************************)
(* get_or_add_implicit_producer: the producer of the calling thread, which *)
(* is looked up by the id of the thread in an open-addressing hash table   *)
(* and in the smaller tables that it has replaced.  Ids of threads that    *)
(* ended are used again: a Thread stands for all threads of one id.  One   *)
(* step is one access to a shared atomic.                                  *)
(***************************************************************************)
EXTENDS ProducerList

CONSTANTS
  HashOf,                                  \* hash_thread_id
  INITIAL_IMPLICIT_PRODUCER_HASH_SIZE      \* a power of two

ASSUME HashAssumption ==
  /\ HashOf \in [Thread -> Nat]
  /\ INITIAL_IMPLICIT_PRODUCER_HASH_SIZE \in Nat \ {0}

VARIABLES
  implicitProducerHash,                    \* the tables, oldest first: key and value
  implicitProducerHashCount,
  implicitProducerHashResizeInProgress

hashes == <<implicitProducerHash, implicitProducerHashCount,
            implicitProducerHashResizeInProgress>>

Table(n) == [i \in 0 .. n - 1 |-> [key |-> Nil, value |-> Nil]]
capacity(k) == Cardinality(DOMAIN implicitProducerHash[k])
Newest == Len(implicitProducerHash)

InitHash ==
  /\ implicitProducerHash = <<Table(INITIAL_IMPLICIT_PRODUCER_HASH_SIZE)>>
  /\ implicitProducerHashCount = 0
  /\ implicitProducerHashResizeInProgress = FALSE

-----------------------------------------------------------------------------
(* From the newest table to the oldest, along the slots after the hashed   *)
(* one, up to the id or an empty slot.                                     *)
GetOrAdd(t) ==
  /\ Go(t, [pc |-> "probe", main |-> Newest, table |-> Newest,
            index |-> HashOf[t] % capacity(Newest)])

FirstSlot(t, k) == HashOf[t] % capacity(k)
NextSlot(t, k) == (call[t].index + 1) % capacity(k)

Probe_Mutant(t) ==
  /\ At(t, "probe")
  /\ LET f == call[t]
         e == implicitProducerHash[f.main][f.index]
     IN Go(t, IF e.key = t THEN [pc |-> "got", producer |-> e.value]
              ELSE IF e.key # Nil THEN [f EXCEPT !.index = NextSlot(t, f.main)]
              ELSE [pc |-> "add", main |-> f.main])
  /\ UNCHANGED <<list, states, hashes>>
Probe(t) ==
  /\ At(t, "probe")
  /\ LET f == call[t]
         e == implicitProducerHash[f.table][f.index]
     IN Go(t, IF e.key = t
              THEN IF f.table = f.main THEN [pc |-> "got", producer |-> e.value]
                   ELSE [pc |-> "insert", main |-> f.main, producer |-> e.value,
                         index |-> FirstSlot(t, f.main)]
              ELSE IF e.key # Nil THEN [f EXCEPT !.index = NextSlot(t, f.table)]
              ELSE IF f.table > 1
                   THEN [f EXCEPT !.table = @ - 1, !.index = FirstSlot(t, f.table - 1)]
                   ELSE [pc |-> "add", main |-> f.main])
  /\ UNCHANGED <<list, states, hashes>>

(* The id is put into the first empty slot of the table that was newest,   *)
(* by a compare-and-swap: for a new producer, and also, with the producer  *)
(* that it has, when it was found in an older table.                       *)
Insert(t) ==
  /\ At(t, "insert")
  /\ LET f == call[t]
     IN IF implicitProducerHash[f.main][f.index].key = Nil
        THEN /\ implicitProducerHash' = [implicitProducerHash EXCEPT
                  ![f.main][f.index] = [key |-> t, value |-> f.producer]]
             /\ Go(t, [pc |-> "got", producer |-> f.producer])
        ELSE /\ Go(t, [f EXCEPT !.index = NextSlot(t, f.main)])
             /\ UNCHANGED implicitProducerHash
  /\ UNCHANGED <<list, states, implicitProducerHashCount, implicitProducerHashResizeInProgress>>

-----------------------------------------------------------------------------
(* A thread that is new is counted; whoever sees a table half full tries   *)
(* to replace it by a larger one.                                          *)
Wanted(t, k) == call[t].count >= capacity(k) \div 2
Add(t) ==
  /\ At(t, "add")
  /\ implicitProducerHashCount' = implicitProducerHashCount + 1
  /\ Go(t, [pc |-> "load", main |-> call[t].main, count |-> implicitProducerHashCount + 1])
  /\ UNCHANGED <<list, states, implicitProducerHash, implicitProducerHashResizeInProgress>>

TestAndSet(t) ==
  /\ At(t, "load") /\ Wanted(t, call[t].main)
  /\ implicitProducerHashResizeInProgress' = TRUE
  /\ Go(t, [call[t] EXCEPT !.pc =
              IF implicitProducerHashResizeInProgress THEN "room" ELSE "resize"])
  /\ UNCHANGED <<list, states, implicitProducerHash, implicitProducerHashCount>>

Resize(t) ==
  /\ At(t, "resize")
  /\ Go(t, [call[t] EXCEPT !.main = Newest,
                           !.pc = IF Wanted(t, Newest) THEN "allocate" ELSE "clear"])
  /\ UNCHANGED <<list, states, hashes>>

(* The capacity is doubled until the count is less than half of it.        *)
Larger(t) ==
  {n \in 1 .. setup.maxCapacity :
     (\E i \in 1 .. n : n = capacity(Newest) * 2^i) /\ call[t].count < n \div 2}
newCapacity(t) == CHOOSE n \in Larger(t) : \A m \in Larger(t) : n <= m
Allocate(t) ==
  /\ At(t, "allocate")
  /\ IF Larger(t) # {}
     THEN /\ implicitProducerHash' = Append(implicitProducerHash, Table(newCapacity(t)))
          /\ Go(t, [call[t] EXCEPT !.main = Newest + 1, !.pc = "clear"])
          /\ UNCHANGED implicitProducerHashCount
     ELSE /\ implicitProducerHashCount' = implicitProducerHashCount - 1
          /\ Go(t, [pc |-> "giveup"])
          /\ UNCHANGED implicitProducerHash
  /\ UNCHANGED <<list, states, implicitProducerHashResizeInProgress>>

Clear_Mutant(t) ==
  /\ At(t, "clear") \/ At(t, "giveup")
  /\ implicitProducerHashResizeInProgress' = At(t, "giveup")
  /\ Go(t, IF At(t, "giveup") THEN [pc |-> "got", producer |-> Nil]
           ELSE [call[t] EXCEPT !.pc = "room"])
  /\ UNCHANGED <<list, states, implicitProducerHash, implicitProducerHashCount>>
Clear(t) ==
  /\ At(t, "clear") \/ At(t, "giveup")
  /\ implicitProducerHashResizeInProgress' = FALSE
  /\ Go(t, IF At(t, "giveup") THEN [pc |-> "got", producer |-> Nil]
           ELSE [call[t] EXCEPT !.pc = "room"])
  /\ UNCHANGED <<list, states, implicitProducerHash, implicitProducerHashCount>>

(* Below three quarters of the table there is room; otherwise the thread   *)
(* waits for the one that allocates, and takes the table that is newest    *)
(* then.                                                                   *)
Limit(n) == (n \div 2) + (n \div 4)
Room(t) ==
  /\ At(t, "room") \/ (At(t, "load") /\ ~Wanted(t, call[t].main))
  /\ IF call[t].count < Limit(capacity(call[t].main))
     THEN RecycleOrCreate(t, FALSE, [pc |-> "new", main |-> call[t].main])
     ELSE Go(t, [call[t] EXCEPT !.pc = "load", !.main = Newest])
  /\ UNCHANGED <<list, states, hashes>>

(* The new producer is entered; without one, or with one that was entered  *)
(* before, the count goes back.                                            *)
New(t) ==
  /\ At(t, "new")
  /\ LET f == call[t]
     IN /\ implicitProducerHashCount' =
             IF f.producer = Nil \/ f.recycled THEN implicitProducerHashCount - 1
             ELSE implicitProducerHashCount
        /\ Go(t, IF f.producer = Nil THEN [pc |-> "got", producer |-> Nil]
                 ELSE [pc |-> "insert", main |-> f.back.main, producer |-> f.producer,
                       index |-> FirstSlot(t, f.back.main)])
  /\ UNCHANGED <<list, states, implicitProducerHash, implicitProducerHashResizeInProgress>>

HashStep(t) ==
  \/ Probe(t) \/ Insert(t) \/ Add(t) \/ TestAndSet(t) \/ Resize(t) \/ Allocate(t)
  \/ Clear(t) \/ Room(t) \/ New(t)
=============================================================================
