--------------------------- MODULE DatabaseProofs ---------------------------
(* Theorems about Database, for any threads, keys, values and capacity.    *)
EXTENDS Database, FiniteSetTheorems, TLAPS

(* The part of TypeOK about the cache.                                     *)
CacheTyped ==
  Cache!Cached \subseteq Key /\ \A k \in Cache!Cached : content[k] \in Val

(* The cache after a call of it: nothing new but k, nothing else changed.  *)
OnlyChanges(k) ==
  \A l \in Cache!Cached' : l # k => l \in Cache!Cached /\ content'[l] = content[l]

LEMMA PutInCacheEffect ==
  ASSUME NEW k \in Key, NEW v \in Val, CacheTyped, PutInCache(k, v)
  PROVE  /\ CacheTyped'
         /\ OnlyChanges(k)
         /\ k \in Cache!Cached' /\ content'[k] = v
<1>1. PICK S \in SUBSET Cache!Cached :
        content' = [l \in S \cup {k} |-> IF l = k THEN v ELSE content[l]]
  BY DEF PutInCache, Cache!Overwrite, Cache!Insert, Cache!Store
<1>2. Cache!Cached' = S \cup {k}
  BY <1>1 DEF Cache!Cached
<1>3. \A l \in S \cup {k} : content'[l] = IF l = k THEN v ELSE content[l]
  BY <1>1
<1> QED
  BY <1>2, <1>3 DEF CacheTyped, OnlyChanges

LEMMA DeleteFromCacheEffect ==
  ASSUME NEW k \in Key, CacheTyped, Cache!Delete(k)
  PROVE  /\ CacheTyped'
         /\ OnlyChanges(k)
         /\ k \notin Cache!Cached'
<1>1. content' = [l \in Cache!Cached \ {k} |-> content[l]]
  BY DEF Cache!Delete
<1>2. Cache!Cached' = Cache!Cached \ {k}
  BY <1>1 DEF Cache!Cached
<1>3. \A l \in Cache!Cached \ {k} : content'[l] = content[l]
  BY <1>1
<1> QED
  BY <1>2, <1>3 DEF CacheTyped, OnlyChanges

LEMMA LookUpEffect ==
  ASSUME NEW k, Cache!Hit(k) \/ Cache!Miss(k)
  PROVE  content' = content /\ Cache!Cached' = Cache!Cached
  BY DEF Cache!Hit, Cache!Miss, Cache!Cached

LEMMA OpTypes ==
  ASSUME NEW o \in Op
  PROVE  /\ o.key \in Key
         /\ o.kind \in {"get", "put", "del"}
         /\ o.kind = "put" => o.val \in Val
         /\ o.kind = "del" => o.val = NoVal
         /\ Writes(o) <=> o.kind # "get"
  BY DEF Op, Writes

-----------------------------------------------------------------------------
LEMMA DatabaseInit == Init => DatabaseInv
<1> SUFFICES ASSUME Init PROVE DatabaseInv
  OBVIOUS
<1>1. TypeOK
  BY DatabaseAssumption DEF Init, TypeOK, Cache!Init, Cache!Cached, Slots
<1>2. Holding
  BY DatabaseAssumption DEF Init, Holding
<1>3. Synced
  BY DEF Init, Synced
<1>4. Apart /\ InStep
  BY DEF Init, Apart, InStep, Busy
<1>5. Coherent
  BY DEF Init, Coherent, Cache!Init, Cache!Cached
<1> QED
  BY <1>1, <1>2, <1>3, <1>4, <1>5 DEF DatabaseInv

(* What the lemmas below take from the invariant and from the thread.      *)
LEMMA Facts ==
  ASSUME DatabaseInv, NEW t \in Thread
  PROVE  /\ CacheTyped
         /\ op[t] \in Op /\ op[t].key \in Key
         /\ op[t].kind \in {"get", "put", "del"}
         /\ op[t].kind = "put" => op[t].val \in Val
         /\ op[t].kind = "del" => op[t].val = NoVal
         /\ Writes(op[t]) <=> op[t].kind # "get"
         /\ pc[t] = "fill" => result[t] \in Val
  BY OpTypes DEF DatabaseInv, TypeOK, CacheTyped, Holding

LEMMA CallStep ==
  ASSUME DatabaseInv, NEW t \in Thread, Call(t)
  PROVE  DatabaseInv'
<1> USE DatabaseAssumption DEF DatabaseInv
<1>1. PICK o \in Op :
        /\ Disciplined => \A u \in Thread : Busy(u) => ~Conflict(o, op[u])
        /\ op' = [op EXCEPT ![t] = o]
  BY DEF Call
<1>2. /\ pc[t] = "idle" /\ pc' = [pc EXCEPT ![t] = "cache"]
      /\ UNCHANGED <<memory, db_size, file, disk, mutex, result>>
  BY DEF Call, Goto
<1>3. /\ pc'[t] = "cache" /\ op'[t] = o
      /\ \A u \in Thread \ {t} : pc'[u] = pc[u] /\ op'[u] = op[u]
  BY <1>1, <1>2 DEF TypeOK
<1>4. /\ content' = content /\ Cache!Cached' = Cache!Cached
      /\ slots' = slots /\ synced' = synced /\ cut_short' = cut_short
      /\ mutex' = mutex /\ result' = result
  BY <1>2 DEF memory, file, disk, Cache!Cached
<1>5. TypeOK'
  BY <1>1, <1>2, <1>4 DEF TypeOK, memory, file, disk
<1>6. Holding'
  BY <1>2, <1>3, <1>4 DEF Holding
<1>7. Synced'
  BY <1>2, <1>3, <1>4 DEF Synced, Syncing
<1>8. ASSUME Disciplined PROVE Apart'
  BY <1>1, <1>2, <1>3, <1>8 DEF Apart, Busy, Conflict
<1>9. ASSUME Disciplined PROVE InStep'
  BY <1>1, <1>2, <1>3, <1>4, <1>9 DEF InStep, Busy, TypeOK
<1>10. Coherent'
  BY <1>2, <1>3, <1>4 DEF Coherent, Busy
<1> QED
  BY <1>5, <1>6, <1>7, <1>8, <1>9, <1>10

LEMMA GetFromCacheStep ==
  ASSUME DatabaseInv, NEW t \in Thread, GetFromCache(t)
  PROVE  DatabaseInv'
<1> USE DatabaseAssumption DEF DatabaseInv
<1>1. content' = content /\ Cache!Cached' = Cache!Cached
  BY LookUpEffect DEF GetFromCache
<1>2. /\ pc[t] = "cache" /\ op[t].kind = "get"
      /\ pc' \in {[pc EXCEPT ![t] = "return"], [pc EXCEPT ![t] = "file"]}
      /\ UNCHANGED <<db_size, file, disk, mutex, op>>
  BY DEF GetFromCache, Goto
<1>3. /\ pc'[t] \in {"return", "file"}
      /\ \A u \in Thread \ {t} : pc'[u] = pc[u]
  BY <1>2 DEF TypeOK
<1>4. \E v \in Val \cup {NoVal} : result' = [result EXCEPT ![t] = v]
  <2>1. CASE Cache!Hit(op[t].key) /\ result' = [result EXCEPT ![t] = content[op[t].key]]
    BY <2>1 DEF TypeOK, Cache!Hit
  <2>2. CASE UNCHANGED result
    <3>1. result[t] \in Val \cup {NoVal} /\ result' = [result EXCEPT ![t] = result[t]]
      BY <2>2 DEF TypeOK
    <3> QED
      BY <3>1
  <2> QED
    BY <2>1, <2>2 DEF GetFromCache
<1>5. \A u \in Thread \ {t} : result'[u] = result[u]
  BY <1>4 DEF TypeOK
<1>6. TypeOK'
  BY <1>1, <1>2, <1>4 DEF TypeOK, file, disk
<1>7. Holding'
  BY <1>2, <1>3, <1>5 DEF Holding
<1>8. Synced'
  BY <1>2, <1>3 DEF Synced, Syncing, file, disk
<1>9. ASSUME Disciplined PROVE Apart'
  BY <1>2, <1>3, <1>9 DEF Apart, Busy
<1>10. ASSUME Disciplined PROVE InStep'
  BY <1>1, <1>2, <1>3, <1>5, <1>10 DEF InStep, Writes, file, Busy
<1>11. Coherent'
  BY <1>1, <1>2, <1>3 DEF Coherent, Busy, file
<1> QED
  BY <1>6, <1>7, <1>8, <1>9, <1>10, <1>11

LEMMA ReadEntryStep ==
  ASSUME DatabaseInv, NEW t \in Thread, ReadEntry(t)
  PROVE  DatabaseInv'
<1> USE DatabaseAssumption DEF DatabaseInv
<1> DEFINE v == slots[op[t].key]
<1>1. /\ pc[t] = "file" /\ op[t].kind = "get"
      /\ pc' = [pc EXCEPT ![t] = IF v = NoVal THEN "return" ELSE "fill"]
      /\ result' = [result EXCEPT ![t] = v]
      /\ UNCHANGED <<memory, db_size, file, disk, mutex, op>>
  BY DEF ReadEntry, Goto
<1>2. v \in Val \cup {NoVal}
  BY Facts DEF TypeOK, Slots
<1>3. /\ pc'[t] = IF v = NoVal THEN "return" ELSE "fill"
      /\ result'[t] = v
      /\ \A u \in Thread \ {t} : pc'[u] = pc[u] /\ result'[u] = result[u]
  BY <1>1 DEF TypeOK
<1>4. /\ content' = content /\ Cache!Cached' = Cache!Cached
      /\ slots' = slots /\ synced' = synced /\ cut_short' = cut_short
  BY <1>1 DEF memory, file, disk, Cache!Cached
<1>5. TypeOK'
  BY <1>1, <1>2, <1>4 DEF TypeOK, file, disk
<1>6. Holding'
  BY <1>1, <1>3 DEF Holding
<1>7. Synced'
  BY <1>1, <1>3, <1>4 DEF Synced, Syncing
<1>8. ASSUME Disciplined PROVE Apart'
  BY <1>1, <1>3, <1>8 DEF Apart, Busy
<1>9. ASSUME Disciplined PROVE InStep'
  BY <1>1, <1>3, <1>4, <1>9 DEF InStep, Writes, Busy
<1>10. Coherent'
  BY <1>1, <1>3, <1>4 DEF Coherent, Busy
<1> QED
  BY <1>5, <1>6, <1>7, <1>8, <1>9, <1>10

LEMMA FillStep ==
  ASSUME DatabaseInv, NEW t \in Thread, Fill(t)
  PROVE  DatabaseInv'
<1> USE DatabaseAssumption DEF DatabaseInv
<1> DEFINE k == op[t].key
<1>1. /\ pc[t] = "fill" /\ op[t].kind = "get"
      /\ pc' = [pc EXCEPT ![t] = "return"]
      /\ UNCHANGED <<db_size, file, disk, mutex, op, result>>
  BY DEF Fill, Goto, Holding
<1>2. /\ CacheTyped'
      /\ OnlyChanges(k)
      /\ k \in Cache!Cached' /\ content'[k] = result[t]
  BY <1>1, Facts, PutInCacheEffect DEF Fill
<1>3. pc'[t] = "return" /\ \A u \in Thread \ {t} : pc'[u] = pc[u]
  BY <1>1 DEF TypeOK
<1>4. TypeOK'
  BY <1>1, <1>2 DEF TypeOK, CacheTyped, file, disk
<1>5. Holding'
  BY <1>1, <1>3 DEF Holding
<1>6. Synced'
  BY <1>1, <1>3 DEF Synced, Syncing, file, disk
<1>7. ASSUME Disciplined PROVE Apart'
  BY <1>1, <1>3, <1>7 DEF Apart, Busy
(* No writer of the key is busy, so the slot is what the get has read.     *)
<1>8. ASSUME Disciplined, NEW u \in Thread, Busy(u), Writes(op[u])
      PROVE  op[u].key # k
  BY <1>1, <1>8 DEF Apart, Busy, Conflict, Writes
<1>9. ASSUME Disciplined PROVE InStep'
  BY <1>1, <1>2, <1>3, <1>8, <1>9 DEF InStep, OnlyChanges, Writes, Busy, file
<1>10. Coherent'
  BY <1>1, <1>2, <1>3 DEF Coherent, InStep, OnlyChanges, Busy, Writes, file
<1> QED
  BY <1>4, <1>5, <1>6, <1>7, <1>9, <1>10

LEMMA WriteToCacheStep ==
  ASSUME DatabaseInv, NEW t \in Thread, WriteToCache(t)
  PROVE  DatabaseInv'
<1> USE DatabaseAssumption DEF DatabaseInv
<1> DEFINE k == op[t].key
<1>1. /\ pc[t] = "cache" /\ Writes(op[t])
      /\ pc' = [pc EXCEPT ![t] = "file"]
      /\ UNCHANGED <<db_size, file, disk, mutex, op, result>>
  BY DEF WriteToCache, Goto, Writes
<1>2. /\ CacheTyped'
      /\ OnlyChanges(k)
      /\ k \notin Cache!Cached' \/ content'[k] = op[t].val
  BY Facts, PutInCacheEffect, DeleteFromCacheEffect DEF WriteToCache
<1>3. pc'[t] = "file" /\ \A u \in Thread \ {t} : pc'[u] = pc[u]
  BY <1>1 DEF TypeOK
<1>4. TypeOK'
  BY <1>1, <1>2 DEF TypeOK, CacheTyped, file, disk
<1>5. Holding'
  BY <1>1, <1>3 DEF Holding
<1>6. Synced'
  BY <1>1, <1>3 DEF Synced, Syncing, file, disk
<1>7. ASSUME Disciplined PROVE Apart'
  BY <1>1, <1>3, <1>7 DEF Apart, Busy
<1>8. ASSUME Disciplined, NEW u \in Thread \ {t}, Busy(u) PROVE op[u].key # k
  BY <1>1, <1>8 DEF Apart, Busy, Conflict
<1>9. ASSUME Disciplined PROVE InStep'
  BY <1>1, <1>2, <1>3, <1>8, <1>9 DEF InStep, OnlyChanges, Busy, file
<1>10. Coherent'
  BY <1>1, <1>2, <1>3 DEF Coherent, OnlyChanges, Busy, file
<1> QED
  BY <1>4, <1>5, <1>6, <1>7, <1>9, <1>10
(* While a thread writes the file no other does, and nobody else is busy   *)
(* with its key.                                                           *)
LEMMA AloneInFile ==
  ASSUME DatabaseInv, NEW t \in Thread, NEW u \in Thread \ {t},
         mutex \in {t, NoOne}
  PROVE  pc[u] \notin {"entry", "sync"}
  BY DatabaseAssumption DEF DatabaseInv, Holding

LEMMA AloneOnKey ==
  ASSUME DatabaseInv, Disciplined, NEW t \in Thread, NEW u \in Thread \ {t},
         Busy(t), Writes(op[t]), Busy(u)
  PROVE  op[u].key # op[t].key
  BY DEF DatabaseInv, Apart, Conflict

LEMMA WriteSizeStep ==
  ASSUME DatabaseInv, NEW t \in Thread, WriteSize(t)
  PROVE  DatabaseInv'
<1> USE DatabaseAssumption DEF DatabaseInv
<1>1. /\ pc[t] = "file" /\ op[t].kind = "put" /\ mutex = NoOne /\ mutex' = t
      /\ pc' = [pc EXCEPT ![t] = "entry"]
      /\ UNCHANGED <<memory, slots, disk, op, result>>
  BY DEF WriteSize, Goto
<1>2. db_size' \in Nat /\ header' = db_size'
  BY DEF WriteSize, TypeOK
<1>3. pc'[t] = "entry" /\ \A u \in Thread \ {t} : pc'[u] = pc[u]
  BY <1>1 DEF TypeOK
<1>4. content' = content /\ Cache!Cached' = Cache!Cached /\ synced' = synced /\ cut_short' = cut_short
  BY <1>1 DEF memory, disk, Cache!Cached
<1>5. TypeOK'
  BY <1>1, <1>2, <1>4 DEF TypeOK, disk
<1>6. Holding'
  BY <1>1, <1>3, AloneInFile DEF Holding
<1>7. Synced'
  BY <1>1, <1>3, <1>4 DEF Synced, Syncing
<1>8. ASSUME Disciplined PROVE Apart'
  BY <1>1, <1>3, <1>8 DEF Apart, Busy
<1>9. ASSUME Disciplined PROVE InStep'
  BY <1>1, <1>3, <1>4, <1>9 DEF InStep, Busy
<1>10. Coherent'
  BY <1>1, <1>3, <1>4 DEF Coherent, Busy
<1> QED
  BY <1>5, <1>6, <1>7, <1>8, <1>9, <1>10

(* Both put and del write a slot: what they write is op[t].val.            *)
LEMMA WriteSlotStep ==
  ASSUME DatabaseInv, NEW t \in Thread, WriteEntry(t) \/ EraseEntry(t)
  PROVE  DatabaseInv'
<1> USE DatabaseAssumption DEF DatabaseInv
<1> DEFINE k == op[t].key
<1>1. /\ pc[t] \in {"entry", "file"} /\ Writes(op[t]) /\ mutex \in {t, NoOne} /\ mutex' = t
      /\ pc' = [pc EXCEPT ![t] = "sync"]
      /\ slots' = [slots EXCEPT ![k] = op[t].val]
      /\ UNCHANGED <<memory, db_size, header, disk, op, result>>
  <2>1. CASE WriteEntry(t)
    BY <2>1 DEF WriteEntry, Goto, Holding, Writes
  <2>2. CASE EraseEntry(t)
    BY <2>2, Facts DEF EraseEntry, Goto, Writes
  <2> QED
    BY <2>1, <2>2
<1>2. k \in Key /\ op[t].val \in Val \cup {NoVal}
  BY <1>1, Facts
<1>3. pc'[t] = "sync" /\ \A u \in Thread \ {t} : pc'[u] = pc[u]
  BY <1>1 DEF TypeOK
<1>4. slots'[k] = op[t].val /\ \A l \in Key \ {k} : slots'[l] = slots[l]
  BY <1>1, <1>2 DEF TypeOK, Slots
<1>5. content' = content /\ Cache!Cached' = Cache!Cached /\ synced' = synced /\ cut_short' = cut_short
  BY <1>1 DEF memory, disk, Cache!Cached
<1>6. TypeOK'
  BY <1>1, <1>2, <1>5 DEF TypeOK, Slots, disk
<1>7. Holding'
  BY <1>1, <1>3, AloneInFile DEF Holding
<1>8. Synced'
  <2>1. \A u \in Thread : pc[u] # "sync"
    BY <1>1, AloneInFile
  <2> QED
    BY <1>1, <1>3, <1>4, <1>5, <2>1 DEF Synced, Syncing
<1>9. ASSUME Disciplined PROVE Apart'
  BY <1>1, <1>3, <1>9 DEF Apart, Busy
<1>10. ASSUME Disciplined PROVE InStep'
  <2> SUFFICES ASSUME NEW u \in Thread
               PROVE  /\ pc'[u] = "fill" => result'[u] = slots'[op'[u].key]
                      /\ Writes(op'[u]) \/ ~Busy(u)' => result'[u] = NoVal
                      /\ Writes(op'[u]) /\ pc'[u] \in {"file", "entry", "sync", "return"}
                           => op'[u].key \notin Cache!Cached' \/ content'[op'[u].key] = op'[u].val
                      /\ Writes(op'[u]) /\ pc'[u] \in {"sync", "return"}
                           => slots'[op'[u].key] = op'[u].val
    BY DEF InStep
  <2>1. CASE u = t
    BY <1>1, <1>3, <1>4, <1>5, <1>10, <2>1 DEF InStep, Busy
  <2>2. CASE u # t
    <3>1. op[u].key \in Key
      BY Facts
    <3>2. pc[u] # "idle" => op[u].key # k
      BY <1>1, <1>10, <2>2, AloneOnKey DEF Busy
    <3> QED
      BY <1>1, <1>3, <1>4, <1>5, <1>10, <2>2, <3>1, <3>2 DEF InStep, Busy
  <2> QED
    BY <2>1, <2>2
<1>11. Coherent'
  <2> SUFFICES ASSUME Disciplined, NEW l \in Cache!Cached,
                      content[l] # slots'[l]
               PROVE  \E u \in Thread : Busy(u)' /\ Writes(op'[u]) /\ op'[u].key = l
    BY <1>5 DEF Coherent
  <2>1. CASE l = k
    BY <1>1, <1>3, <2>1 DEF Busy
  <2>2. CASE l # k
    BY <1>1, <1>3, <1>4, <2>2 DEF Coherent, TypeOK, Busy
  <2> QED
    BY <2>1, <2>2
<1> QED
  BY <1>6, <1>7, <1>8, <1>9, <1>10, <1>11

LEMMA SyncStep ==
  ASSUME DatabaseInv, NEW t \in Thread, Sync(t)
  PROVE  DatabaseInv'
<1> USE DatabaseAssumption DEF DatabaseInv
<1>1. /\ pc[t] = "sync" /\ mutex = t /\ mutex' = NoOne
      /\ pc' = [pc EXCEPT ![t] = "return"]
      /\ synced' = slots /\ synced_header' = header /\ cut_short' = {}
      /\ UNCHANGED <<memory, db_size, file, machine_failed, op, result>>
  BY DEF Sync, Goto, Holding
<1>2. pc'[t] = "return" /\ \A u \in Thread \ {t} : pc'[u] = pc[u]
  BY <1>1 DEF TypeOK
<1>3. content' = content /\ Cache!Cached' = Cache!Cached /\ slots' = slots
  BY <1>1 DEF memory, file, Cache!Cached
<1>4. TypeOK'
  BY <1>1, <1>3 DEF TypeOK, file
<1>5. Holding'
  BY <1>1, <1>2, AloneInFile DEF Holding
<1>6. Synced'
  BY <1>1, <1>3 DEF Synced, Syncing
<1>7. ASSUME Disciplined PROVE Apart'
  BY <1>1, <1>2, <1>7 DEF Apart, Busy
<1>8. ASSUME Disciplined PROVE InStep'
  BY <1>1, <1>2, <1>3, <1>8 DEF InStep, Busy
<1>9. Coherent'
  BY <1>1, <1>2, <1>3 DEF Coherent, Busy
<1> QED
  BY <1>4, <1>5, <1>6, <1>7, <1>8, <1>9

LEMMA ForgetKeepsTheKey ==
  ASSUME NEW o \in Op
  PROVE  /\ Forget(o) \in Op
         /\ Forget(o).key = o.key /\ Forget(o).kind = "get"
  BY DEF Op, Forget

LEMMA ReturnStep ==
  ASSUME DatabaseInv, NEW t \in Thread, Return(t)
  PROVE  DatabaseInv'
<1> USE DatabaseAssumption DEF DatabaseInv
<1>1. /\ pc[t] = "return" /\ pc' = [pc EXCEPT ![t] = "idle"]
      /\ op' = [op EXCEPT ![t] = Forget(op[t])]
      /\ result' = [result EXCEPT ![t] = NoVal]
      /\ UNCHANGED <<memory, db_size, file, disk, mutex>>
  BY DEF Return, Goto
<1>2. /\ Forget(op[t]) \in Op /\ Forget(op[t]).kind = "get"
      /\ pc'[t] = "idle" /\ op'[t] = Forget(op[t]) /\ result'[t] = NoVal
      /\ \A u \in Thread \ {t} : pc'[u] = pc[u] /\ op'[u] = op[u] /\ result'[u] = result[u]
  BY <1>1, ForgetKeepsTheKey DEF TypeOK
<1>3. /\ content' = content /\ Cache!Cached' = Cache!Cached
      /\ slots' = slots /\ synced' = synced /\ cut_short' = cut_short
      /\ mutex' = mutex
  BY <1>1 DEF memory, file, disk, Cache!Cached
<1>4. TypeOK'
  BY <1>1, <1>2, <1>3 DEF TypeOK, file, disk
<1>5. Holding'
  BY <1>1, <1>2, <1>3 DEF Holding
<1>6. Synced'
  BY <1>1, <1>2, <1>3 DEF Synced, Syncing
<1>7. ASSUME Disciplined PROVE Apart'
  BY <1>1, <1>2, <1>7 DEF Apart, Busy
<1>8. ASSUME Disciplined PROVE InStep'
  BY <1>1, <1>2, <1>3, <1>8 DEF InStep, Busy
(* A writer leaves its key with one value in the cache and in the file.    *)
<1>9. ASSUME Disciplined, Writes(op[t]), op[t].key \in Cache!Cached
      PROVE  content[op[t].key] = slots[op[t].key]
  BY <1>1, <1>9 DEF InStep
<1>10. Coherent'
  BY <1>1, <1>2, <1>3, <1>9 DEF Coherent, Busy
<1> QED
  BY <1>4, <1>5, <1>6, <1>7, <1>8, <1>10

(* The kernel changes nothing that the program sees.                       *)
LEMMA WriteBackStep ==
  ASSUME DatabaseInv, (\E k \in Key : WriteBackEntry(k)) \/ WriteBackHeader
  PROVE  DatabaseInv'
<1> USE DEF DatabaseInv
<1>1. UNCHANGED <<memory, db_size, file, cut_short, machine_failed, mutex, pc, op, result>>
  BY DEF WriteBackEntry, WriteBackHeader
<1>2. /\ synced' \in Slots /\ synced_header' \in Nat
      /\ \A k \in Key : synced'[k] \in {synced[k], slots[k]}
  BY DEF WriteBackEntry, WriteBackHeader, TypeOK, Slots
<1>3. TypeOK'
  BY <1>1, <1>2 DEF TypeOK, memory, file, Cache!Cached
<1>4. Holding' /\ (Disciplined => Apart' /\ InStep') /\ Coherent'
  BY <1>1 DEF Holding, Apart, InStep, Coherent, Busy, Conflict, Writes,
              memory, file, Cache!Cached
<1>5. Synced'
  BY <1>1, <1>2 DEF Synced, Syncing, file
<1> QED
  BY <1>3, <1>4, <1>5

(* A new process starts with an empty cache and no calls.                  *)
LEMMA RestartStep ==
  ASSUME DatabaseInv, Restart, Synced',
         slots' \in Slots, header' \in Nat, synced' = synced, synced_header' = synced_header,
         cut_short' \subseteq Key, machine_failed' \in BOOLEAN
  PROVE  DatabaseInv'
<1> USE DatabaseAssumption DEF DatabaseInv
<1>1. Cache!Cached' = {}
  BY DEF Restart, Cache!Cached
<1>2. \A t \in Thread : pc'[t] = "idle" /\ result'[t] = NoVal
  BY DEF Restart
<1>3. \A t \in Thread : Forget(op[t]) \in Op /\ op'[t] = Forget(op[t]) /\ op'[t].kind = "get"
  BY ForgetKeepsTheKey DEF Restart, TypeOK
<1>4. op' \in [Thread -> Op]
  BY <1>3 DEF Restart
<1>5. TypeOK'
  BY <1>1, <1>4 DEF TypeOK, Restart
<1>6. Holding'
  BY <1>2 DEF Holding, Restart
<1>7. Apart' /\ InStep'
  BY <1>2, <1>3 DEF Apart, InStep, Busy, Writes
<1>8. Coherent'
  BY <1>1 DEF Coherent
<1> QED
  BY <1>5, <1>6, <1>7, <1>8

(* What was being synced may now be in the file and not on the disk.       *)
LEMMA KillStep ==
  ASSUME DatabaseInv, Kill
  PROVE  DatabaseInv'
<1>1. /\ slots' = slots /\ header' = header /\ synced' = synced
      /\ synced_header' = synced_header /\ machine_failed' = machine_failed
      /\ cut_short' = cut_short \cup Syncing
  BY DEF Kill, file
<1>2. Syncing \subseteq Key
  BY OpTypes DEF Syncing, DatabaseInv, TypeOK
<1>3. Synced'
  BY <1>1 DEF Synced, DatabaseInv
<1> QED
  BY <1>1, <1>2, <1>3, RestartStep DEF Kill, DatabaseInv, TypeOK

LEMMA PowerFailureStep ==
  ASSUME DatabaseInv, PowerFailure
  PROVE  DatabaseInv'
<1>1. /\ slots' = synced /\ header' = synced_header /\ synced' = synced
      /\ synced_header' = synced_header /\ machine_failed' = TRUE /\ cut_short' = {}
  BY DEF PowerFailure
<1>2. Synced'
  BY <1>1 DEF Synced
<1> QED
  BY <1>1, <1>2, RestartStep DEF PowerFailure, DatabaseInv, TypeOK

LEMMA StutterStep ==
  ASSUME DatabaseInv, UNCHANGED vars
  PROVE  DatabaseInv'
  BY DEF DatabaseInv, vars, memory, file, disk, TypeOK, Holding, Synced, Syncing, Apart, InStep,
         Coherent, Busy, Conflict, Writes, Cache!Cached

(* The invariant of the database: cache, file and disk fit together, what  *)
(* a crash can take away was cut short, and each thread has what its next  *)
(* step relies on.                                                         *)
THEOREM DatabaseSound == Spec => []DatabaseInv
<1>1. DatabaseInv /\ [Next]_vars => DatabaseInv'
  <2> SUFFICES ASSUME DatabaseInv, [Next]_vars PROVE DatabaseInv'
    OBVIOUS
  <2>1. ASSUME NEW t \in Thread, Step(t) PROVE DatabaseInv'
    BY <2>1, CallStep, GetFromCacheStep, ReadEntryStep, FillStep, WriteToCacheStep,
       WriteSizeStep, WriteSlotStep, SyncStep, ReturnStep DEF Step
  <2> QED
    BY <2>1, WriteBackStep, KillStep, PowerFailureStep, StutterStep DEF Next
<1> QED
  BY <1>1, DatabaseInit, PTL DEF Spec

(* Whatever disciplined callers do, and whenever the machine crashes, a    *)
(* cached value is the one in the file unless its key is being written.    *)
THEOREM CacheCoherent == Spec => []Coherent
<1>1. DatabaseInv => Coherent
  BY DEF DatabaseInv
<1> QED
  BY <1>1, DatabaseSound, PTL

-----------------------------------------------------------------------------
(* The steps of the database are steps of KVStore.                         *)

calls == [t \in Thread |-> CallOf(t)]

(* A step of one thread changes its own call only.                         *)
LEMMA OneCall ==
  ASSUME NEW t \in Thread,
         \A u \in Thread \ {t} : pc'[u] = pc[u] /\ op'[u] = op[u] /\ result'[u] = result[u]
  PROVE  /\ calls' = [calls EXCEPT ![t] = CallOf(t)']
         /\ calls[t] = CallOf(t)
         /\ CallOf(t)' = CallOf(t) => calls' = calls
<1>1. \A u \in Thread \ {t} : CallOf(u)' = CallOf(u)
  BY DEF CallOf
<1> QED
  BY <1>1 DEF calls

(* What a get finds in the cache is what the file has.                     *)
LEMMA ReadsTheStore ==
  ASSUME DatabaseInv, Disciplined, NEW t \in Thread, Busy(t), op[t].kind = "get",
         op[t].key \in Cache!Cached
  PROVE  content[op[t].key] = slots[op[t].key]
<1>1. \A u \in Thread : Busy(u) /\ Writes(op[u]) => op[u].key # op[t].key
  BY DEF DatabaseInv, Apart, Conflict, Writes
<1> QED
  BY <1>1 DEF DatabaseInv, Coherent

LEMMA FindGet ==
  ASSUME DatabaseInv, NEW t \in Thread, op[t].kind = "get",
         CallOf(t) = [phase |-> "pending", op |-> op[t]],
         CallOf(t)' = [phase |-> "done", op |-> op[t], result |-> slots[op[t].key]],
         calls' = [calls EXCEPT ![t] = CallOf(t)'], UNCHANGED <<slots, synced>>
  PROVE  Abstract!Find(t)
<1>1. op[t] \in Abstract!Op
  BY Facts DEF Op, Abstract!Op
<1>2. calls[t] = Abstract!Pending(op[t])
  BY DEF calls, Abstract!Pending
<1>3. calls' = [calls EXCEPT ![t] = Abstract!Done(op[t], slots[op[t].key])]
  BY DEF Abstract!Done
<1> QED
  BY <1>1, <1>2, <1>3 DEF Abstract!Find, calls

LEMMA StoreCall ==
  ASSUME DatabaseInv, NEW t \in Thread, Call(t)
  PROVE  Abstract!Invoke(t)
<1>1. PICK o \in Op : op' = [op EXCEPT ![t] = o]
  BY DEF Call
<1>2. /\ pc[t] = "idle" /\ pc' = [pc EXCEPT ![t] = "cache"]
      /\ result' = result /\ slots' = slots /\ synced' = synced
  BY DEF Call, Goto, file, disk
<1>3. /\ pc'[t] = "cache" /\ op'[t] = o
      /\ \A u \in Thread \ {t} : pc'[u] = pc[u] /\ op'[u] = op[u] /\ result'[u] = result[u]
  BY <1>1, <1>2 DEF DatabaseInv, TypeOK
<1>4. calls' = [calls EXCEPT ![t] = CallOf(t)'] /\ calls[t] = CallOf(t)
  BY <1>3, OneCall
<1>5. CallOf(t) = Abstract!Idle /\ CallOf(t)' = Abstract!Pending(o)
  BY <1>2, <1>3 DEF CallOf, Abstract!Idle, Abstract!Pending
<1>6. o \in Abstract!Op
  BY DEF Op, Abstract!Op
<1> QED
  BY <1>2, <1>4, <1>5, <1>6 DEF Abstract!Invoke, calls

LEMMA StoreGetFromCache ==
  ASSUME DatabaseInv, Disciplined, NEW t \in Thread, GetFromCache(t)
  PROVE  Abstract!Find(t) \/ UNCHANGED <<slots, synced, calls>>
<1>1. /\ pc[t] = "cache" /\ op[t].kind = "get"
      /\ op' = op /\ slots' = slots /\ synced' = synced
  BY DEF GetFromCache, file, disk
<1>2. CallOf(t) = [phase |-> "pending", op |-> op[t]]
  BY <1>1 DEF CallOf
<1>3. CASE /\ Cache!Hit(op[t].key)
           /\ result' = [result EXCEPT ![t] = content[op[t].key]]
           /\ Goto(t, "return")
  <2>1. content[op[t].key] = slots[op[t].key]
    BY <1>1, <1>3, ReadsTheStore DEF Busy, Cache!Hit
  <2>2. /\ pc'[t] = "return" /\ result'[t] = slots[op[t].key]
        /\ \A u \in Thread \ {t} : pc'[u] = pc[u] /\ result'[u] = result[u]
    BY <1>3, <2>1 DEF Goto, DatabaseInv, TypeOK
  <2>3. CallOf(t)' = [phase |-> "done", op |-> op[t], result |-> slots[op[t].key]]
    BY <1>1, <2>2 DEF CallOf
  <2> QED
    BY <1>1, <1>2, <2>2, <2>3, OneCall, FindGet
<1>4. CASE Goto(t, "file") /\ UNCHANGED result
  <2>1. pc'[t] = "file" /\ \A u \in Thread \ {t} : pc'[u] = pc[u]
    BY <1>4 DEF Goto, DatabaseInv, TypeOK
  <2>2. CallOf(t)' = CallOf(t)
    BY <1>1, <1>2, <2>1 DEF CallOf
  <2> QED
    BY <1>1, <1>4, <2>1, <2>2, OneCall
<1> QED
  BY <1>3, <1>4 DEF GetFromCache

LEMMA StoreReadEntry ==
  ASSUME DatabaseInv, NEW t \in Thread, ReadEntry(t)
  PROVE  Abstract!Find(t)
<1> DEFINE v == slots[op[t].key]
<1>1. /\ pc[t] = "file" /\ op[t].kind = "get"
      /\ pc' = [pc EXCEPT ![t] = IF v = NoVal THEN "return" ELSE "fill"]
      /\ result' = [result EXCEPT ![t] = v]
      /\ op' = op /\ slots' = slots /\ synced' = synced
  BY DEF ReadEntry, Goto, file, disk
<1>2. /\ pc'[t] \in {"return", "fill"} /\ result'[t] = v
      /\ \A u \in Thread \ {t} : pc'[u] = pc[u] /\ result'[u] = result[u]
  BY <1>1 DEF DatabaseInv, TypeOK
<1>3. CallOf(t) = [phase |-> "pending", op |-> op[t]]
  BY <1>1 DEF CallOf
<1>4. CallOf(t)' = [phase |-> "done", op |-> op[t], result |-> slots[op[t].key]]
  BY <1>1, <1>2 DEF CallOf
<1> QED
  BY <1>1, <1>2, <1>3, <1>4, OneCall, FindGet

(* The steps in which nothing is decided for the caller.                   *)
LEMMA StoreStutter ==
  ASSUME DatabaseInv, NEW t \in Thread,
         Fill(t) \/ WriteToCache(t) \/ WriteSize(t)
  PROVE  UNCHANGED <<slots, synced, calls>>
<1>1. synced' = synced /\ slots' = slots /\ op' = op /\ result' = result
  BY DEF Fill, WriteToCache, WriteSize, file, disk
<1>2. \/ pc[t] = "fill" /\ pc' = [pc EXCEPT ![t] = "return"]
      \/ /\ pc[t] \in {"cache", "file"}
         /\ \E label \in {"file", "entry"} : pc' = [pc EXCEPT ![t] = label]
  BY DEF Fill, WriteToCache, WriteSize, Goto
<1>3. /\ \/ pc[t] = "fill" /\ pc'[t] = "return"
         \/ pc[t] \in {"cache", "file"} /\ pc'[t] \in {"file", "entry"}
      /\ \A u \in Thread \ {t} : pc'[u] = pc[u]
  BY <1>2 DEF DatabaseInv, TypeOK
<1>4. CallOf(t)' = CallOf(t)
  BY <1>1, <1>3 DEF CallOf
<1> QED
  BY <1>1, <1>3, <1>4, OneCall

(* put and del take effect when the slot is written, ...                   *)
LEMMA StoreWriteSlot ==
  ASSUME DatabaseInv, NEW t \in Thread, WriteEntry(t) \/ EraseEntry(t)
  PROVE  Abstract!Apply(t)
<1>1. /\ pc[t] \in {"entry", "file"} /\ op[t].kind # "get"
      /\ pc' = [pc EXCEPT ![t] = "sync"]
      /\ slots' = [slots EXCEPT ![op[t].key] = op[t].val]
      /\ synced' = synced /\ op' = op /\ result' = result
  <2>1. CASE WriteEntry(t)
    BY <2>1 DEF WriteEntry, Goto, disk, DatabaseInv, Holding
  <2>2. CASE EraseEntry(t)
    BY <2>2, Facts DEF EraseEntry, Goto, disk
  <2> QED
    BY <2>1, <2>2
<1>2. pc'[t] = "sync" /\ \A u \in Thread \ {t} : pc'[u] = pc[u]
  BY <1>1 DEF DatabaseInv, TypeOK
<1>3. calls' = [calls EXCEPT ![t] = CallOf(t)'] /\ calls[t] = CallOf(t)
  BY <1>1, <1>2, OneCall
<1>4. /\ CallOf(t) = Abstract!Pending(op[t])
      /\ CallOf(t)' = Abstract!Applied(op[t])
  BY <1>1, <1>2 DEF CallOf, Abstract!Pending, Abstract!Applied
<1>5. op[t] \in Abstract!Op
  BY Facts DEF Op, Abstract!Op
<1> QED
  BY <1>1, <1>3, <1>4, <1>5 DEF Abstract!Apply, calls

(* ... and fsync makes durable what there is.                              *)
LEMMA StoreSync ==
  ASSUME DatabaseInv, Disciplined, NEW t \in Thread, Sync(t)
  PROVE  Abstract!Settle(t)
<1>1. /\ pc[t] = "sync" /\ Writes(op[t])
      /\ pc' = [pc EXCEPT ![t] = "return"]
      /\ synced' = slots /\ slots' = slots /\ op' = op /\ result' = result
  BY DEF Sync, Goto, file, DatabaseInv, Holding
<1>2. /\ pc'[t] = "return" /\ \A u \in Thread \ {t} : pc'[u] = pc[u]
      /\ result[t] = NoVal
  BY <1>1 DEF DatabaseInv, TypeOK, InStep
<1>3. calls' = [calls EXCEPT ![t] = CallOf(t)'] /\ calls[t] = CallOf(t)
  BY <1>1, <1>2, OneCall
<1>4. /\ CallOf(t) = Abstract!Applied(op[t])
      /\ CallOf(t)' = Abstract!Done(op[t], NoVal)
  BY <1>1, <1>2 DEF CallOf, Abstract!Applied, Abstract!Done
<1>5. op[t] \in Abstract!Op
  BY Facts DEF Op, Abstract!Op
<1> QED
  BY <1>1, <1>3, <1>4, <1>5 DEF Abstract!Settle, calls

LEMMA StoreReturn ==
  ASSUME DatabaseInv, NEW t \in Thread, Return(t)
  PROVE  Abstract!Return(t)
<1>1. /\ pc[t] = "return" /\ pc' = [pc EXCEPT ![t] = "idle"]
      /\ op' = [op EXCEPT ![t] = Forget(op[t])]
      /\ result' = [result EXCEPT ![t] = NoVal]
      /\ slots' = slots /\ synced' = synced
  BY DEF Return, Goto, file, disk
<1>2. /\ pc'[t] = "idle"
      /\ \A u \in Thread \ {t} : pc'[u] = pc[u] /\ op'[u] = op[u] /\ result'[u] = result[u]
  BY <1>1 DEF DatabaseInv, TypeOK
<1>3. calls' = [calls EXCEPT ![t] = CallOf(t)'] /\ calls[t] = CallOf(t)
  BY <1>2, OneCall
<1>4. CallOf(t).phase = "done" /\ CallOf(t)' = Abstract!Idle
  BY <1>1, <1>2 DEF CallOf, Abstract!Idle
<1> QED
  BY <1>1, <1>3, <1>4 DEF Abstract!Return, calls

(* What the kernel writes back is durable; a header is nothing a get sees. *)
LEMMA StoreWriteBack ==
  ASSUME (\E k \in Key : WriteBackEntry(k)) \/ WriteBackHeader
  PROVE  Abstract!Next \/ UNCHANGED <<slots, synced, calls>>
<1>1. UNCHANGED <<slots, calls>>
  BY DEF WriteBackEntry, WriteBackHeader, file, calls, CallOf
<1>2. CASE \E k \in Key : WriteBackEntry(k)
  BY <1>1, <1>2 DEF WriteBackEntry, Abstract!WriteBack, Abstract!Next, calls
<1>3. CASE WriteBackHeader
  BY <1>1, <1>3 DEF WriteBackHeader
<1> QED
  BY <1>2, <1>3

LEMMA StoreCrash ==
  ASSUME Kill \/ PowerFailure
  PROVE  Abstract!Kill \/ Abstract!PowerFailure
<1>1. Restart
  BY DEF Kill, PowerFailure
<1>2. calls' = [t \in Thread |-> Abstract!Idle]
  BY <1>1 DEF calls, CallOf, Restart, Abstract!Idle
<1> QED
  BY <1>2 DEF Kill, PowerFailure, file, Abstract!Kill, Abstract!PowerFailure, calls

(* Disciplined callers get a store in which every call takes effect in one *)
(* step, no put or del that has returned is lost in any sequence of        *)
(* crashes, and what a crash takes away was never acknowledged.            *)
THEOREM StoreImplemented == Disciplined => (Spec => ImplementsStore)
<1> SUFFICES ASSUME Disciplined PROVE Spec => ImplementsStore
  OBVIOUS
<1>1. Init => Abstract!Init
  BY DEF Init, CallOf, Abstract!Init, Abstract!Idle
<1>2. DatabaseInv /\ [Next]_vars => [Abstract!Next]_<<slots, synced, calls>>
  <2> SUFFICES ASSUME DatabaseInv, [Next]_vars
               PROVE  Abstract!Next \/ UNCHANGED <<slots, synced, calls>>
    OBVIOUS
  <2>1. ASSUME NEW t \in Thread, Step(t)
        PROVE  Abstract!Next \/ UNCHANGED <<slots, synced, calls>>
    BY <2>1, StoreCall, StoreGetFromCache, StoreReadEntry, StoreStutter, StoreWriteSlot,
       StoreSync, StoreReturn DEF Step, Abstract!Next
  <2>2. CASE Kill \/ PowerFailure
    BY <2>2, StoreCrash DEF Abstract!Next
  <2>3. CASE UNCHANGED vars
    BY <2>3 DEF vars, file, disk, calls, CallOf
  <2> QED
    BY <2>1, <2>2, <2>3, StoreWriteBack DEF Next
<1> QED
  BY <1>1, <1>2, DatabaseSound, PTL DEF Spec, ImplementsStore, Abstract!Spec, Abstract!vars, calls
-----------------------------------------------------------------------------
(* The number of entries.  No step but WriteSize counts a key, and then    *)
(* nobody else is about to write a slot.                                   *)
LEMMA CountedFinite ==
  ASSUME TypeOK
  PROVE  Counted \subseteq Key /\ IsFiniteSet(Counted) /\ IsFiniteSet(InUse)
<1>1. Counted \subseteq Key /\ InUse \subseteq Key
  BY OpTypes DEF TypeOK, Counted, InUse
<1> QED
  BY <1>1, DatabaseAssumption, FS_Subset

LEMMA SizeKept ==
  ASSUME TypeOK, SizeInv, Counted' \subseteq Counted,
         UNCHANGED <<header, db_size, machine_failed>>
  PROVE  SizeInv'
<1>1. IsFiniteSet(Counted) /\ Cardinality(Counted) \in Nat
  BY CountedFinite, FS_CardinalityType
<1>2. IsFiniteSet(Counted') /\ Cardinality(Counted') <= Cardinality(Counted)
  BY <1>1, FS_Subset
<1>3. Cardinality(Counted') \in Nat
  BY <1>2, FS_CardinalityType
<1> QED
  BY <1>1, <1>2, <1>3 DEF SizeInv, TypeOK

(* The steps that write neither the header nor a slot.                     *)
LEMMA SizeElsewhere ==
  ASSUME DatabaseInv, SizeInv, NEW t \in Thread,
         Call(t) \/ GetFromCache(t) \/ ReadEntry(t) \/ Fill(t) \/ WriteToCache(t)
           \/ Sync(t) \/ Return(t)
  PROVE  SizeInv'
<1>1. UNCHANGED <<header, db_size, machine_failed, slots>>
  BY DEF Call, GetFromCache, ReadEntry, Fill, WriteToCache, Sync, Return, file, disk
<1>2. \A u \in Thread : pc'[u] = "entry" => pc[u] = "entry" /\ op'[u] = op[u]
  <2>1. CASE Call(t)
    BY <2>1 DEF Call, Goto, DatabaseInv, TypeOK
  <2>2. CASE GetFromCache(t) \/ ReadEntry(t)
    BY <2>2 DEF GetFromCache, ReadEntry, Goto, DatabaseInv, TypeOK
  <2>3. CASE Fill(t) \/ WriteToCache(t) \/ Sync(t) \/ Return(t)
    BY <2>3 DEF Fill, WriteToCache, Sync, Return, Goto, DatabaseInv, TypeOK
  <2> QED
    BY <2>1, <2>2, <2>3
<1>3. Counted' \subseteq Counted
  BY <1>1, <1>2 DEF Counted, InUse
<1> QED
  BY <1>1, <1>3, SizeKept DEF DatabaseInv

LEMMA SizeWriteSize ==
  ASSUME DatabaseInv, SizeInv, NEW t \in Thread, WriteSize(t)
  PROVE  SizeInv'
<1> DEFINE k == op[t].key
<1>1. /\ mutex = NoOne /\ UNCHANGED <<slots, machine_failed, op>>
      /\ db_size' = (IF slots[k] = NoVal THEN db_size + 1 ELSE db_size)
      /\ header' = db_size' /\ pc' = [pc EXCEPT ![t] = "entry"]
  BY DEF WriteSize, disk, Goto
<1>2. \A u \in Thread : pc[u] # "entry"
  BY <1>1, DatabaseAssumption DEF DatabaseInv, Holding
<1>3. Counted = InUse /\ k \in Key
  BY <1>2, OpTypes DEF Counted, DatabaseInv, TypeOK
<1>4. Counted' = InUse \cup {k}
  BY <1>1, <1>2 DEF Counted, InUse, DatabaseInv, TypeOK
<1>5. IsFiniteSet(InUse) /\ Cardinality(InUse) \in Nat
  BY CountedFinite, FS_CardinalityType DEF DatabaseInv
<1>6. Cardinality(InUse \cup {k})
        = IF k \in InUse THEN Cardinality(InUse) ELSE Cardinality(InUse) + 1
  BY <1>5, FS_AddElement
<1>7. k \in InUse <=> slots[k] # NoVal
  BY <1>3 DEF InUse
<1>8. ~machine_failed => Cardinality(InUse) <= db_size
  BY <1>3 DEF SizeInv
<1>9. ~machine_failed => Cardinality(InUse \cup {k}) <= db_size'
  BY <1>1, <1>5, <1>6, <1>7, <1>8 DEF DatabaseInv, TypeOK
<1> QED
  BY <1>1, <1>4, <1>9 DEF SizeInv

LEMMA SizeWriteSlot ==
  ASSUME DatabaseInv, SizeInv, NEW t \in Thread, WriteEntry(t) \/ EraseEntry(t)
  PROVE  SizeInv'
<1>1. /\ UNCHANGED <<header, db_size, machine_failed, op>>
      /\ pc' = [pc EXCEPT ![t] = "sync"]
  BY DEF WriteEntry, EraseEntry, disk, Goto
<1>2. \A u \in Thread : pc'[u] = "entry" => pc[u] = "entry"
  BY <1>1 DEF DatabaseInv, TypeOK
<1>3. InUse' \subseteq Counted
  <2>1. CASE WriteEntry(t)
    <3>1. pc[t] = "entry" /\ \A l \in Key \ {op[t].key} : slots'[l] = slots[l]
      BY <2>1 DEF WriteEntry, DatabaseInv, TypeOK, Slots
    <3> QED
      BY <3>1 DEF Counted, InUse
  <2>2. CASE EraseEntry(t)
    <3>1. slots' = [slots EXCEPT ![op[t].key] = NoVal] /\ op[t].key \in Key
      BY <2>2, OpTypes DEF EraseEntry, DatabaseInv, TypeOK
    <3>2. \A l \in Key : slots'[l] # NoVal => slots[l] # NoVal
      BY <3>1 DEF DatabaseInv, TypeOK, Slots
    <3> QED
      BY <3>2 DEF Counted, InUse
  <2> QED
    BY <2>1, <2>2
<1>4. Counted' \subseteq Counted
  BY <1>1, <1>2, <1>3 DEF Counted
<1> QED
  BY <1>1, <1>4, SizeKept DEF DatabaseInv

LEMMA SizeWriteBack ==
  ASSUME SizeInv, (\E k \in Key : WriteBackEntry(k)) \/ WriteBackHeader
  PROVE  SizeInv'
<1>1. UNCHANGED <<header, db_size, machine_failed, slots, pc, op>>
  BY DEF WriteBackEntry, WriteBackHeader, file
<1> QED
  BY <1>1 DEF SizeInv, Counted, InUse

LEMMA SizeKill ==
  ASSUME DatabaseInv, SizeInv, Kill
  PROVE  SizeInv'
<1> SUFFICES ASSUME ~machine_failed PROVE SizeInv'
  BY DEF Kill, SizeInv
<1>1. /\ UNCHANGED <<header, slots, machine_failed>> /\ db_size' = header'
      /\ \A u \in Thread : pc'[u] = "idle"
  BY DEF Kill, Restart, file
<1>2. Counted' \subseteq Counted
  BY <1>1 DEF Counted, InUse
<1>3. UNCHANGED <<header, db_size, machine_failed>>
  BY <1>1 DEF SizeInv
<1> QED
  BY <1>2, <1>3, SizeKept DEF DatabaseInv

(* Until the machine fails the number of entries is in the file and covers *)
(* the slots in use and those about to be written: whatever calls overlap, *)
(* and whenever the process is killed.                                     *)
THEOREM SizeSound == Spec => []SizeInv
<1>1. Init => SizeInv
  <2> SUFFICES ASSUME Init PROVE SizeInv
    OBVIOUS
  <2>1. Counted = {} /\ header = 0 /\ db_size = 0
    BY DEF Init, Counted, InUse
  <2> QED
    BY <2>1, FS_EmptySet DEF SizeInv
<1>2. DatabaseInv /\ SizeInv /\ [Next]_vars => SizeInv'
  <2> SUFFICES ASSUME DatabaseInv, SizeInv, [Next]_vars PROVE SizeInv'
    OBVIOUS
  <2>1. ASSUME NEW t \in Thread, Step(t) PROVE SizeInv'
    BY <2>1, SizeElsewhere, SizeWriteSize, SizeWriteSlot DEF Step
  <2>2. CASE UNCHANGED vars
    <3>1. UNCHANGED <<header, db_size, machine_failed, slots, pc, op>>
      BY <2>2 DEF vars, file, disk
    <3> QED
      BY <3>1 DEF SizeInv, Counted, InUse
  <2>3. CASE PowerFailure
    BY <2>3 DEF PowerFailure, SizeInv
  <2> QED
    BY <2>1, <2>2, <2>3, SizeWriteBack, SizeKill DEF Next
<1> QED
  BY <1>1, <1>2, DatabaseSound, PTL DEF Spec

(* Until the machine fails the number of entries never falls behind the    *)
(* slots in use: a key in the file is counted, whenever the process dies.  *)
THEOREM SizeCovers == Spec => []SizeCoversEntries
<1>1. DatabaseInv /\ SizeInv => SizeCoversEntries
  <2> SUFFICES ASSUME DatabaseInv, SizeInv, ~machine_failed
               PROVE  Cardinality(InUse) <= db_size
    BY DEF SizeCoversEntries
  <2>1. IsFiniteSet(Counted) /\ InUse \subseteq Counted
    BY CountedFinite DEF DatabaseInv, Counted
  <2>2. Cardinality(InUse) <= Cardinality(Counted) /\ IsFiniteSet(InUse)
    BY <2>1, FS_Subset
  <2>3. Cardinality(InUse) \in Nat /\ Cardinality(Counted) \in Nat
    BY <2>1, <2>2, FS_CardinalityType
  <2> QED
    BY <2>2, <2>3 DEF SizeInv, DatabaseInv, TypeOK
<1> QED
  BY <1>1, DatabaseSound, SizeSound, PTL

(* Every variable of the database keeps its type.                          *)
THEOREM DatabaseTyped == Spec => []TypeOK
<1>1. DatabaseInv => TypeOK
  BY DEF DatabaseInv
<1> QED
  BY <1>1, DatabaseSound, PTL
=============================================================================
