------------------------------ MODULE Database ------------------------------
(***************************************************************************)
(* DBImpl: a file with the number of entries in front and a slot for every *)
(* key, behind an LRU cache.  The cache has a mutex of its own, held for   *)
(* one call of it (see LRUCache, which implements LRUStore); the file is   *)
(* accessed under the mutex of DBImpl.  An operation takes the one after   *)
(* the other, so cache and file are changed in two steps.                  *)
(*                                                                         *)
(* What write returns from is in the page cache.  It survives the process, *)
(* but not the machine: it reaches the disk at fsync, or at any time       *)
(* before.  A process that is killed leaves both as they are, so that what *)
(* it wrote and did not sync can be read after its restart, and be lost    *)
(* later on.                                                               *)
(***************************************************************************)
EXTENDS Integers, FiniteSets

CONSTANTS
  Thread,       \* the threads that call the database: the workers
  Key, Val,     \* keys and values
  NoVal,        \* no value: a slot that is not in use
  NoOne,        \* nobody holds the mutex
  Capacity,     \* the capacity of the cache
  Commands,     \* the operations called: a subset of get, put, del
  Disciplined,  \* do the callers keep a writer of a key apart from others?
  MaxSize       \* how far db_size is counted (a bound)

ASSUME DatabaseAssumption ==
  /\ NoVal \notin Val
  /\ NoOne \notin Thread
  /\ Capacity \in Nat \ {0}
  /\ IsFiniteSet(Key)
  /\ Commands \subseteq {"get", "put", "del"}
  /\ Disciplined \in BOOLEAN
  /\ MaxSize \in Nat

VARIABLES
  content, older, ret,   \* cache, and what its last call returned
  db_size,               \* the copy of the number of entries in memory
  header, slots,         \* the file: the number of entries, and the slots
  synced, synced_header, \* what of them has reached the disk
  cut_short,             \* keys killed before fsync, no fsync since (history)
  machine_failed,        \* has the machine failed yet? (history)
  mutex,                 \* who holds the mutex
  pc,                    \* where each thread is
  op,                    \* the operation it executes
  result                 \* what a get has read, or returns

Cache == INSTANCE LRUStore

memory == <<content, older, ret>>
file == <<header, slots>>
disk == <<synced, synced_header, cut_short, machine_failed>>
vars == <<memory, db_size, file, disk, mutex, pc, op, result>>

Op == [kind : {"get"}, key : Key, val : {NoVal}]
      \cup [kind : {"put"}, key : Key, val : Val]
      \cup [kind : {"del"}, key : Key, val : {NoVal}]
Slots == [Key -> Val \cup {NoVal}]

TypeOK ==
  /\ Cache!Cached \subseteq Key
  /\ \A k \in Cache!Cached : content[k] \in Val
  /\ db_size \in Nat
  /\ header \in Nat
  /\ slots \in Slots
  /\ synced \in Slots
  /\ synced_header \in Nat
  /\ cut_short \subseteq Key
  /\ machine_failed \in BOOLEAN
  /\ mutex \in Thread \cup {NoOne}
  /\ pc \in [Thread -> {"idle", "cache", "file", "fill", "entry", "sync", "return"}]
  /\ op \in [Thread -> Op]
  /\ result \in [Thread -> Val \cup {NoVal}]

(* The file was created, and every slot is zero.  What op holds between    *)
(* two calls means nothing (see Forget).                                   *)
Init ==
  /\ Cache!Init
  /\ db_size = 0
  /\ header = 0
  /\ slots = [k \in Key |-> NoVal]
  /\ synced = slots
  /\ synced_header = 0
  /\ cut_short = {}
  /\ machine_failed = FALSE
  /\ mutex = NoOne
  /\ pc = [t \in Thread |-> "idle"]
  /\ op \in [Thread -> {o \in Op : o.kind = "get"}]
  /\ \A t, u \in Thread : op[t] = op[u]
  /\ result = [t \in Thread |-> NoVal]

-----------------------------------------------------------------------------
Goto(t, label) == pc' = [pc EXCEPT ![t] = label]

Busy(t) == pc[t] # "idle"
Writes(o) == o.kind \in {"put", "del"}
Conflict(o, p) == o.key = p.key /\ (Writes(o) \/ Writes(p))

(* A worker calls get, put or del.  Nothing in the code keeps two calls on *)
(* one key apart; Disciplined says that the clients do.                    *)
Call(t) ==
  /\ pc[t] = "idle"
  /\ \E o \in Op :
       /\ o.kind \in Commands
       /\ o.kind = "put" => db_size < MaxSize
       /\ Disciplined => \A u \in Thread : Busy(u) => ~Conflict(o, op[u])
       /\ op' = [op EXCEPT ![t] = o]
  /\ Goto(t, "cache")
  /\ UNCHANGED <<memory, db_size, file, disk, mutex, result>>

(* get asks the cache first, and returns what it finds there.              *)
GetFromCache(t) ==
  /\ pc[t] = "cache" /\ op[t].kind = "get"
  /\ \/ /\ Cache!Hit(op[t].key)
        /\ result' = [result EXCEPT ![t] = content[op[t].key]]
        /\ Goto(t, "return")
     \/ /\ Cache!Miss(op[t].key)
        /\ Goto(t, "file")
        /\ UNCHANGED result
  /\ UNCHANGED <<db_size, file, disk, mutex, op>>

(* A miss: read the slot under the mutex, ...                              *)
ReadEntry(t) ==
  /\ pc[t] = "file" /\ op[t].kind = "get"
  /\ mutex = NoOne
  /\ result' = [result EXCEPT ![t] = slots[op[t].key]]
  /\ Goto(t, IF slots[op[t].key] = NoVal THEN "return" ELSE "fill")
  /\ UNCHANGED <<memory, db_size, file, disk, mutex, op>>

PutInCache(k, v) == Cache!Overwrite(k, v) \/ Cache!Insert(k, v)

(* ... and, the mutex released, put what was read in the cache.            *)
Fill(t) ==
  /\ pc[t] = "fill"
  /\ PutInCache(op[t].key, result[t])
  /\ Goto(t, "return")
  /\ UNCHANGED <<db_size, file, disk, mutex, op, result>>

(* put and del change the cache first.                                     *)
WriteToCache_Mutant(t) ==
  /\ pc[t] = "cache"
  /\ \/ op[t].kind = "put" /\ PutInCache(op[t].key, op[t].val)
     \/ op[t].kind = "del" /\ UNCHANGED memory
  /\ Goto(t, "file")
  /\ UNCHANGED <<db_size, file, disk, mutex, op, result>>

WriteToCache(t) ==
  /\ pc[t] = "cache"
  /\ \/ op[t].kind = "put" /\ PutInCache(op[t].key, op[t].val)
     \/ op[t].kind = "del" /\ Cache!Delete(op[t].key)
  /\ Goto(t, "file")
  /\ UNCHANGED <<db_size, file, disk, mutex, op, result>>

(* put: lock, count the key if its slot was not in use, write the number   *)
(* of entries, ...                                                         *)
WriteSize_Mutant(t) ==
  /\ pc[t] = "file" /\ op[t].kind = "put"
  /\ mutex = NoOne
  /\ mutex' = t
  /\ header' = db_size
  /\ db_size' = IF slots[op[t].key] = NoVal THEN db_size + 1 ELSE db_size
  /\ Goto(t, "entry")
  /\ UNCHANGED <<memory, slots, disk, op, result>>

WriteSize(t) ==
  /\ pc[t] = "file" /\ op[t].kind = "put"
  /\ mutex = NoOne
  /\ mutex' = t
  /\ db_size' = IF slots[op[t].key] = NoVal THEN db_size + 1 ELSE db_size
  /\ header' = db_size'
  /\ Goto(t, "entry")
  /\ UNCHANGED <<memory, slots, disk, op, result>>

(* ... and write the slot.                                                 *)
WriteEntry(t) ==
  /\ pc[t] = "entry"
  /\ slots' = [slots EXCEPT ![op[t].key] = op[t].val]
  /\ Goto(t, "sync")
  /\ UNCHANGED <<memory, db_size, header, disk, mutex, op, result>>

(* del: lock, and mark the slot as not in use; db_size stays as it is.     *)
EraseEntry(t) ==
  /\ pc[t] = "file" /\ op[t].kind = "del"
  /\ mutex = NoOne
  /\ mutex' = t
  /\ slots' = [slots EXCEPT ![op[t].key] = NoVal]
  /\ Goto(t, "sync")
  /\ UNCHANGED <<memory, db_size, header, disk, op, result>>

(* fsync writes back the whole file, whoever changed it; the destructor of *)
(* the lock releases the mutex.                                            *)
Sync_Mutant(t) ==
  /\ pc[t] = "sync"
  /\ mutex' = NoOne
  /\ Goto(t, "return")
  /\ UNCHANGED <<memory, db_size, file, disk, op, result>>

Sync(t) ==
  /\ pc[t] = "sync"
  /\ synced' = slots /\ synced_header' = header
  /\ cut_short' = {}
  /\ mutex' = NoOne
  /\ Goto(t, "return")
  /\ UNCHANGED <<memory, db_size, file, machine_failed, op, result>>

(* The variables of a call end with it.                                    *)
Forget(o) == [o EXCEPT !.kind = "get", !.val = NoVal]

Return(t) ==
  /\ pc[t] = "return"
  /\ Goto(t, "idle")
  /\ op' = [op EXCEPT ![t] = Forget(@)]
  /\ result' = [result EXCEPT ![t] = NoVal]
  /\ UNCHANGED <<memory, db_size, file, disk, mutex>>

(* The kernel writes a changed page to the disk before anybody syncs it.   *)
WriteBackEntry(k) ==
  /\ synced[k] # slots[k]
  /\ synced' = [synced EXCEPT ![k] = slots[k]]
  /\ UNCHANGED <<memory, db_size, file, synced_header, cut_short, machine_failed,
                 mutex, pc, op, result>>

WriteBackHeader ==
  /\ synced_header # header
  /\ synced_header' = header
  /\ UNCHANGED <<memory, db_size, file, synced, cut_short, machine_failed,
                 mutex, pc, op, result>>

(* A new process: the constructor reads the number of entries.             *)
Restart ==
  /\ db_size' = header'
  /\ content' = [k \in {} |-> NoVal] /\ older' = {}
  /\ ret' = [ok |-> FALSE, val |-> NoVal]
  /\ mutex' = NoOne
  /\ pc' = [t \in Thread |-> "idle"]
  /\ op' = [t \in Thread |-> Forget(op[t])]
  /\ result' = [t \in Thread |-> NoVal]

Syncing == {op[t].key : t \in {u \in Thread : pc[u] = "sync"}}

(* The process dies.  The file stays as it was written, the disk as it is. *)
Kill ==
  /\ UNCHANGED <<file, synced, synced_header, machine_failed>>
  /\ cut_short' = cut_short \cup Syncing
  /\ Restart

(* The machine dies: the file is what was on the disk.                     *)
PowerFailure ==
  /\ header' = synced_header /\ slots' = synced
  /\ Restart
  /\ cut_short' = {}
  /\ machine_failed' = TRUE
  /\ UNCHANGED <<synced, synced_header>>

Step(t) ==
  \/ Call(t) \/ GetFromCache(t) \/ ReadEntry(t) \/ Fill(t)
  \/ WriteToCache(t) \/ WriteSize(t) \/ WriteEntry(t) \/ EraseEntry(t)
  \/ Sync(t) \/ Return(t)

Next ==
  \/ \E t \in Thread : Step(t)
  \/ \E k \in Key : WriteBackEntry(k)
  \/ WriteBackHeader
  \/ Kill
  \/ PowerFailure

Spec == Init /\ [][Next]_vars

-----------------------------------------------------------------------------
(* What is cached is what the file has, unless the key is being written:   *)
(* an entry left in the cache by a slow get or a del would be read forever.*)
Coherent ==
  Disciplined =>
    \A k \in Cache!Cached :
      content[k] = slots[k] \/ \E t \in Thread : Busy(t) /\ Writes(op[t]) /\ op[t].key = k

(* The inductive invariant behind it.  A thread writes the file only with  *)
(* the mutex, and what it is about to write is what it wrote to the cache; *)
(* a get that fills the cache still has what the file has; a slot that has *)
(* not reached the disk is being synced, or was when the process died and  *)
(* nothing has been synced since.                                          *)
Holding ==
  \A t \in Thread :
    /\ mutex = t <=> pc[t] \in {"entry", "sync"}
    /\ pc[t] = "entry" => op[t].kind = "put"
    /\ pc[t] = "sync" => Writes(op[t])
    /\ pc[t] = "fill" => op[t].kind = "get" /\ result[t] # NoVal

Apart ==
  \A t, u \in Thread : Busy(t) /\ Busy(u) /\ Conflict(op[t], op[u]) => t = u

InStep ==
  \A t \in Thread :
    /\ pc[t] = "fill" => result[t] = slots[op[t].key]
    /\ Writes(op[t]) \/ ~Busy(t) => result[t] = NoVal
    /\ Writes(op[t]) /\ pc[t] \in {"file", "entry", "sync", "return"}
         => op[t].key \notin Cache!Cached \/ content[op[t].key] = op[t].val
    /\ Writes(op[t]) /\ pc[t] \in {"sync", "return"} => slots[op[t].key] = op[t].val

Synced ==
  \A k \in Key : synced[k] # slots[k] => k \in Syncing \cup cut_short

DatabaseInv ==
  /\ TypeOK
  /\ Holding
  /\ Synced
  /\ Disciplined => Apart /\ InStep
  /\ Coherent

(* Until the machine fails, the number of entries never falls behind the   *)
(* slots in use: the size is written before the entry, so that a process   *)
(* that is killed between the two counts a key too many and never one too  *)
(* few.                                                                    *)
InUse == {k \in Key : slots[k] # NoVal}
SizeCoversEntries == ~machine_failed => Cardinality(InUse) <= db_size

(* The inductive invariant behind it: the file has the same number, and    *)
(* who is about to write a slot has counted it already.                    *)
Counted == InUse \cup {op[t].key : t \in {u \in Thread : pc[u] = "entry"}}
SizeInv ==
  ~machine_failed => header = db_size /\ Cardinality(Counted) <= db_size

(* A database whose callers are disciplined is a store that takes each     *)
(* call in one step and loses nothing it has acknowledged.  A put or del   *)
(* counts from the write of its slot, and is safe from its fsync.          *)
CallOf(t) ==
  CASE pc[t] = "idle" -> [phase |-> "idle"]
    [] pc[t] = "sync" -> [phase |-> "applied", op |-> op[t]]
    [] pc[t] \in {"fill", "return"} ->
         [phase |-> "done", op |-> op[t], result |-> result[t]]
    [] OTHER -> [phase |-> "pending", op |-> op[t]]

Abstract == INSTANCE KVStore WITH
  store <- slots, durable <- synced, call <- [t \in Thread |-> CallOf(t)]

ImplementsStore == Abstract!Spec
=============================================================================
